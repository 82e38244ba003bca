---------------------------- MODULE NetworkClient ----------------------------
(***************************************************************************)
(* Parlo::NetworkClient: one connection, and the five threads that meet in *)
(* it:                                                                     *)
(*                                                                         *)
(*   app      the application, which calls connectAsync, sendAsync and     *)
(*            disconnectAsync, and may give up its shared_ptr;             *)
(*   io       the thread that runs the asio io_context and in it the       *)
(*            completion handlers of connect, read and write;              *)
(*   worker   the thread of the ProcessingBuffer, which calls the packet   *)
(*            handler the constructor installed (the buffer's framing is   *)
(*            module ProcessingBuffer's business: here it is a queue of    *)
(*            packets);                                                    *)
(*   check    checkForMissedHeartbeats;                                    *)
(*   beat     sendHeartbeatAsync.                                          *)
(*                                                                         *)
(* at[t] is where thread t is in its own code; inCall[t] is where it is in *)
(* disconnectAsync or in the destructor, which every thread but beat may   *)
(* be in: the handlers of the application may call the one, and whoever    *)
(* gives up the last shared_ptr runs the other.  asio is external: an      *)
(* operation is counted when it is started and completes, by an action of  *)
(* io, when the socket has something to say.                               *)
(***************************************************************************)
EXTENDS SequencesExt, FiniteSetsExt

CONSTANTS
  ImplShared,     \* is Impl owned by a shared_ptr?  FALSE in this code
  Roles,          \* "client", and "server": a client the Listener accepted
  Kinds,          \* the kinds of packets the peer sends
  Handlers,       \* the events the application has set a handler for
  Disconnecting,  \* those whose handler calls disconnectAsync
  Removing,       \* those whose handler gives up the pointer, as the
                  \* Listener's two do when they take a client off the list
  MayRelease,     \* may the application give it up by itself?
  maxMissedHeartbeats,
  MaxConnects,    \* bound: how often the application connects,
  MaxPackets,     \* how many packets the peer sends,
  MaxWrites       \* and how many outstanding writes are told apart

(* The events that have a setter for a handler. *)
Events == { "server", "client", "heartbeat", "data", "lost" }

(***************************************************************************)
(* The kinds of packets.  The body of a "badHeartbeat" is too short for    *)
(* byteArrayToObject (as are those this library sends itself, module       *)
(* Sending); "badData" is flagged as compressed and is not.                *)
(***************************************************************************)
AllKinds == { "SGoodbye", "CGoodbye", "heartbeat", "data",
              "badHeartbeat", "badData" }

ASSUME ConstantsAssumption ==
  /\ ImplShared \in BOOLEAN /\ MayRelease \in BOOLEAN
  /\ Roles \subseteq { "client", "server" }
  /\ Kinds \subseteq AllKinds
  /\ Handlers \subseteq Events
  /\ Disconnecting \subseteq Handlers /\ Removing \subseteq Handlers
  /\ maxMissedHeartbeats \in Nat
  /\ MaxConnects \in Nat /\ MaxPackets \in Nat /\ MaxWrites \in Nat

VARIABLES
  process,      \* "running", or "terminated" by std::terminate
  refs,         \* who holds a shared_ptr to the client: "app" (or the
                \* Listener's list), and threads in a handler's call
  connected, missedHeartbeats,
  stopping,     \* stopCheckMissedHeartbeats and stopSendingHeartbeats
  joinable,     \* heartbeatCheckThread and sendHeartbeatsThread
  owned,        \* has the member owner been given a value?
  aliveMutex, heartbeatsMutex,   \* the thread that holds it, or "free"
  socket,       \* "unopened", "connecting", "open", "broken" or "closed"
  connecting,   \* is an asynchronous connect outstanding?
  reads, writes,     \* how many asynchronous reads and writes are?
  buffer,       \* the packets in the ProcessingBuffer, the one in hand first
  at, inCall,
  connects, sent     \* how often the application connected, the peer sent

hearts   == << missedHeartbeats, aliveMutex, heartbeatsMutex >>
threads  == << stopping, joinable >>
client   == << connected, hearts, threads, owned >>
link     == << socket, connecting, connects >>
inbound  == << sent, buffer >>
net      == << link, reads, writes, inbound >>
vars     == << process, refs, client, net, at, inCall >>

Threads == { "app", "io", "worker", "check", "beat" }

Places == [ app    |-> { "construct", "idle" },
            io     |-> { "idle", "firstReceive", "startCheck", "startBeat",
                         "add", "receive", "lost", "return" },
            worker |-> { "idle", "alive", "beats", "server", "client",
                         "heartbeat", "data", "return", "unlock", "none" },
            check  |-> { "none", "test", "count", "compare", "mark", "lost",
                         "return", "exit" },
            beat   |-> { "none", "test", "send", "exit" } ]

InDisconnect == { "test", "goodbye", "close", "stopCheck", "setStopCheck",
                  "joinCheck", "stopBeat", "setStopBeat", "joinBeat", "end" }

TypeOK ==
  /\ process \in { "running", "terminated" }
  /\ refs \subseteq { "app", "io", "worker", "check" }
  /\ connected \in BOOLEAN
  /\ missedHeartbeats \in 0 .. maxMissedHeartbeats + 1
  /\ stopping \in [ { "check", "beat" } -> BOOLEAN ]
  /\ joinable \in [ { "check", "beat" } -> BOOLEAN ]
  /\ owned \in BOOLEAN
  /\ aliveMutex \in { "free", "worker" }
  /\ heartbeatsMutex \in { "free", "worker" }
  /\ at["worker"] = "idle" => "free" = aliveMutex /\ "free" = heartbeatsMutex
  /\ socket \in { "unopened", "connecting", "open", "broken", "closed" }
  /\ connecting \in BOOLEAN
  /\ reads \in Nat /\ writes \in 0 .. MaxWrites
  /\ buffer \in Seq(Kinds)
  /\ DOMAIN at = Threads /\ \A t \in Threads : at[t] \in Places[t]
  /\ inCall \in [ Threads -> InDisconnect \cup { "none" } ]
  /\ connects \in 0 .. MaxConnects
  /\ sent \in 0 .. MaxPackets

(***************************************************************************)
(* A client has been constructed on a fresh socket.  For a server's client *)
(* the Listener has an accepted one, and the constructor has set owner and *)
(* started the two threads and is about to call receiveAsync.              *)
(***************************************************************************)
InitAs(role) ==
  LET accepted == role = "server" IN
  /\ process = "running" /\ refs = { "app" }
  /\ connected = TRUE
  /\ missedHeartbeats = 0
  /\ stopping = [ t \in { "check", "beat" } |-> FALSE ]
  /\ joinable = [ t \in { "check", "beat" } |-> accepted ]
  /\ owned = accepted
  /\ aliveMutex = "free" /\ heartbeatsMutex = "free"
  /\ socket = IF accepted THEN "open" ELSE "unopened"
  /\ connecting = FALSE /\ reads = 0 /\ writes = 0
  /\ buffer = << >>
  /\ at = [ app    |-> IF accepted THEN "construct" ELSE "idle",
            io     |-> "idle", worker |-> "idle",
            check  |-> IF accepted THEN "test" ELSE "none",
            beat   |-> IF accepted THEN "test" ELSE "none" ]
  /\ inCall = [ t \in Threads |-> "none" ]
  /\ connects = 0 /\ sent = 0

Init == \E role \in Roles : InitAs(role)

IsOpen == socket \in { "connecting", "open", "broken" }

At(t, place) == process = "running" /\ at[t] = place /\ inCall[t] = "none"
Goto(t, place) == at' = [ at EXCEPT ![t] = place ]
InCall(t, place) == process = "running" /\ inCall[t] = place
Proceed(t, place) == inCall' = [ inCall EXCEPT ![t] = place ]
Terminate == process' = "terminated"

(* A step that only moves a thread. *)
OnlyMoves == UNCHANGED << process, refs, client, net, inCall >>

-----------------------------------------------------------------------------
(* sendAsync, receiveAsync and the calls of handlers.                      *)

(***************************************************************************)
(* sendAsync throws if it finds connected FALSE, and std::bad_weak_ptr     *)
(* where no shared_ptr owns the object.  Otherwise a write is started,     *)
(* whatever the socket's state.                                            *)
(***************************************************************************)
SendThrows == ~connected \/ ~ImplShared

WritesAfterSend ==
  IF SendThrows \/ writes = MaxWrites THEN writes ELSE writes + 1

(* receiveAsync starts a read if it finds connected TRUE. *)
ReceiveThrows == connected /\ ~ImplShared
ReadsAfterReceive == IF connected THEN reads + 1 ELSE reads

(***************************************************************************)
(* Where a thread goes to report the event e: to the call of the handler,  *)
(* or, if none is set, to the place behind it.                             *)
(***************************************************************************)
Report(e, behind) == IF e \in Handlers THEN e ELSE behind

(* The destructor of the client is running. *)
Destructing == refs = { } /\ \E t \in Threads : inCall[t] # "none"

(***************************************************************************)
(* The call of a handler, which is passed a shared_ptr: that of this, or,  *)
(* for onConnectionLostHandler, of owner.  Once the destructor has begun,  *)
(* shared_from_this throws in a thread that catches nothing.  When it has  *)
(* ended, or before owner has a value, the pointer is whatever was in      *)
(* memory: the process comes down, or the handler is given something.      *)
(***************************************************************************)
CallHandler(t, e) ==
  /\ At(t, e) /\ e \in Events
  /\ LET held == refs # { } /\ (e = "lost" => owned) IN
       \/ /\ held
          /\ Goto(t, "return")
          /\ refs' = (IF e \in Removing /\ inCall["app"] = "none"
                      THEN refs \ { "app" } ELSE refs) \cup { t }
          /\ Proceed(t, IF e \in Disconnecting THEN "test" ELSE "none")
          /\ UNCHANGED process
       \/ /\ ~held
          /\ Terminate
          /\ UNCHANGED << at, inCall, refs >>
       \/ /\ ~held /\ ~Destructing
          /\ Goto(t, "return")
          /\ UNCHANGED << process, inCall, refs >>
  /\ UNCHANGED << client, net >>

(***************************************************************************)
(* Thread t gives up its shared_ptr; the last one destroys the client.     *)
(***************************************************************************)
GiveUp(t) ==
  /\ refs' = refs \ { t }
  /\ Proceed(t, IF refs = { t } THEN "stopCheck" ELSE "none")

(* The handler has returned. *)
Return(t, place) ==
  /\ At(t, "return")
  /\ GiveUp(t)
  /\ Goto(t, place)
  /\ UNCHANGED << process, client, net >>

-----------------------------------------------------------------------------
(* disconnectAsync, in thread t.  Any exception is caught and ends it.     *)

DisconnectTest(t) ==
  /\ InCall(t, "test")
  /\ IF connected /\ IsOpen
     THEN \E sendDisconnectMessage \in BOOLEAN :
            Proceed(t, IF sendDisconnectMessage THEN "goodbye" ELSE "close")
     ELSE Proceed(t, "none")
  /\ UNCHANGED << process, refs, client, net, at >>

SendGoodbye(t) ==
  /\ InCall(t, "goodbye")
  /\ Proceed(t, IF SendThrows THEN "none" ELSE "close")
  /\ writes' = WritesAfterSend
  /\ UNCHANGED << process, refs, client, link, reads, inbound, at >>

(* Mutant: close before shutdown, which throws on a closed socket. *)
CloseSocketFirst(t) ==
  /\ InCall(t, "close")
  /\ socket' = "closed"
  /\ Proceed(t, IF IsOpen THEN "none" ELSE "stopCheck")
  /\ UNCHANGED << process, refs, client, connecting, connects, reads, writes,
                  inbound, at >>

(***************************************************************************)
(* shutdown may throw where the connection is not, or no longer,           *)
(* established (systems differ), and where another thread has closed the   *)
(* socket since isOpen; what is outstanding is cancelled by close.         *)
(***************************************************************************)
CloseSocket(t) ==
  /\ InCall(t, "close")
  /\ \/ /\ socket # "open"
        /\ Proceed(t, "none")
        /\ UNCHANGED socket
     \/ /\ socket' = IF IsOpen THEN "closed" ELSE socket
        /\ Proceed(t, "stopCheck")
  /\ UNCHANGED << process, refs, client, connecting, connects, reads, writes,
                  inbound, at >>

(* Mutant: the flag is set and nobody waits for the thread to see it. *)
StopWithoutJoin(t, u, stop, set, join, next) ==
  /\ \/ InCall(t, stop) /\ Proceed(t, IF stopping[u] THEN next ELSE set)
                        /\ UNCHANGED stopping
     \/ InCall(t, set)  /\ Proceed(t, next)
                        /\ stopping' = [ stopping EXCEPT ![u] = TRUE ]
  /\ UNCHANGED << process, refs, connected, hearts, joinable, owned, net, at >>

(* Mutant: neither the stop flag nor joinable is looked at. *)
StopAndJoinAgain(t, u, stop, set, join, next) ==
  /\ \/ /\ InCall(t, stop) /\ Proceed(t, join)
        /\ stopping' = [ stopping EXCEPT ![u] = TRUE ]
        /\ UNCHANGED << process, joinable >>
     \/ /\ InCall(t, join) /\ (t = u \/ ~joinable[u])
        /\ IF refs = { } THEN Terminate /\ UNCHANGED inCall
                         ELSE Proceed(t, "none") /\ UNCHANGED process
        /\ UNCHANGED threads
     \/ /\ InCall(t, join) /\ joinable[u] /\ at[u] = "exit"
        /\ joinable' = [ joinable EXCEPT ![u] = FALSE ]
        /\ Proceed(t, next)
        /\ UNCHANGED << process, stopping >>
  /\ UNCHANGED << refs, connected, hearts, owned, net, at >>

(***************************************************************************)
(* Test the stop flag of thread u, set it and join u.  join throws in u    *)
(* itself, and if another thread has joined u since joinable was tested.   *)
(* The destructor does the same, but an exception in it terminates.        *)
(***************************************************************************)
StopAndJoin(t, u, stop, set, join, next) ==
  /\ \/ /\ InCall(t, stop)
        /\ Proceed(t, IF stopping[u] THEN next ELSE set)
        /\ UNCHANGED << process, threads >>
     \/ /\ InCall(t, set)
        /\ stopping' = [ stopping EXCEPT ![u] = TRUE ]
        /\ Proceed(t, IF joinable[u] THEN join ELSE next)
        /\ UNCHANGED << process, joinable >>
     \/ /\ InCall(t, join)
        /\ t = u \/ ~joinable[u]
        /\ IF refs = { } THEN Terminate /\ UNCHANGED inCall
                         ELSE Proceed(t, "none") /\ UNCHANGED process
        /\ UNCHANGED threads
     \/ /\ InCall(t, join)
        /\ joinable[u] /\ at[u] = "exit"
        /\ joinable' = [ joinable EXCEPT ![u] = FALSE ]
        /\ Proceed(t, next)
        /\ UNCHANGED << process, stopping >>
  /\ UNCHANGED << refs, connected, hearts, owned, net, at >>

EndDisconnect(t) ==
  /\ InCall(t, "end") /\ refs # { }
  /\ connected' = FALSE
  /\ Proceed(t, "none")
  /\ UNCHANGED << process, refs, hearts, threads, owned, net, at >>

-----------------------------------------------------------------------------
(* The destructors of NetworkClient and of Impl.                           *)

(***************************************************************************)
(* Nobody holds self: neither a completion handler, nor a thread that the  *)
(* connect handler started (the constructor's have a plain pointer).       *)
(***************************************************************************)
Unreferenced ==
  /\ reads = 0 /\ writes = 0 /\ ~connecting /\ at["io"] = "idle"
  /\ connects > 0 => \A u \in { "check", "beat" } : at[u] \in { "none", "exit" }

(***************************************************************************)
(* The members of Impl are destroyed.  A std::thread that is joinable      *)
(* terminates; the ProcessingBuffer joins the worker, which throws in the  *)
(* worker itself.                                                          *)
(***************************************************************************)
DestroyImpl(t) ==
  /\ Unreferenced
  /\ IF joinable["check"] \/ joinable["beat"] \/ t = "worker"
     THEN Terminate /\ UNCHANGED << at, buffer >>
     ELSE /\ at["worker"] = "idle"
          /\ Goto("worker", "none")
          /\ buffer' = << >>
          /\ UNCHANGED process
  /\ UNCHANGED << refs, client, link, reads, writes, sent >>

(* ~NetworkClient ends, with pImpl, unless an operation shares that. *)
EndDestructor(t) ==
  /\ InCall(t, "end") /\ refs = { }
  /\ Proceed(t, "none")
  /\ \/ DestroyImpl(t)
     \/ ~Unreferenced /\ UNCHANGED << process, refs, client, net, at >>

(* The last operation, or thread, has ended, and self goes with it. *)
LastOperationEnds ==
  /\ At("io", "idle") /\ at["worker"] # "none"
  /\ refs = { } /\ ~Destructing
  /\ DestroyImpl("io")
  /\ UNCHANGED inCall

Calls(t) ==
  \/ DisconnectTest(t) \/ SendGoodbye(t) \/ CloseSocket(t)
  \/ StopAndJoin(t, "check", "stopCheck", "setStopCheck", "joinCheck",
                 "stopBeat")
  \/ StopAndJoin(t, "beat", "stopBeat", "setStopBeat", "joinBeat", "end")
  \/ EndDisconnect(t) \/ EndDestructor(t)

-----------------------------------------------------------------------------
(* The application.                                                        *)

(***************************************************************************)
(* The last line of the server's constructor.  If it throws, Impl is       *)
(* destroyed with two joinable threads.                                    *)
(***************************************************************************)
Construct ==
  /\ At("app", "construct")
  /\ IF ReceiveThrows THEN Terminate /\ UNCHANGED << reads, at >>
     ELSE /\ reads' = ReadsAfterReceive
          /\ Goto("app", "idle")
          /\ UNCHANGED process
  /\ UNCHANGED << refs, client, link, writes, inbound, inCall >>

(* Bound: again only when all of the old connection has come to rest. *)
ConnectAsync ==
  /\ At("app", "idle") /\ "app" \in refs
  /\ connects < MaxConnects /\ connects' = connects + 1
  /\ \/ socket = "unopened"
     \/ socket = "closed" /\ Unreferenced
          /\ \A t \in Threads : inCall[t] = "none"
  /\ IF ImplShared THEN socket' = "connecting" /\ connecting' = TRUE
                   ELSE UNCHANGED << socket, connecting >>
  /\ UNCHANGED << process, refs, client, reads, writes, inbound, at, inCall >>

SendAsync ==
  /\ At("app", "idle") /\ "app" \in refs
  /\ writes' = WritesAfterSend
  /\ UNCHANGED << process, refs, client, link, reads, inbound, at, inCall >>

DisconnectAsync ==
  /\ At("app", "idle") /\ "app" \in refs
  /\ Proceed("app", "test")
  /\ UNCHANGED << process, refs, client, net, at >>

(* The application gives up its pointer. *)
Release ==
  /\ MayRelease
  /\ At("app", "idle") /\ "app" \in refs
  /\ GiveUp("app")
  /\ UNCHANGED << process, client, net, at >>

-----------------------------------------------------------------------------
(* The network, and the completion handlers that io runs one by one.       *)

(* The peer closes or resets the connection, or its host says it is gone. *)
PeerCloses ==
  /\ process = "running"
  /\ socket = "open" /\ socket' = "broken"
  /\ UNCHANGED << process, refs, client, connecting, connects, reads, writes,
                  inbound, at, inCall >>

ConnectSucceeds ==
  /\ At("io", "idle")
  /\ connecting /\ connecting' = FALSE
  /\ socket = "connecting" /\ socket' = "open"
  /\ Goto("io", "firstReceive")
  /\ UNCHANGED << process, refs, client, connects, reads, writes, inbound,
                  inCall >>

(* Also the end of a connect whose socket was closed meanwhile. *)
ConnectFails ==
  /\ At("io", "idle")
  /\ connecting /\ connecting' = FALSE
  /\ socket' = IF socket = "connecting" THEN "broken" ELSE socket
  /\ Goto("io", Report("lost", "idle"))
  /\ UNCHANGED << process, refs, client, connects, reads, writes, inbound,
                  inCall >>

(* Mutant: the next read is started before the bytes are taken out. *)
ReadDataReadingOn ==
  /\ At("io", "idle")
  /\ reads > 0
  /\ socket \in { "open", "broken" }
  /\ sent < MaxPackets /\ sent' = sent + 1
  /\ Goto("io", "add")
  /\ UNCHANGED << process, refs, client, link, reads, writes, buffer, inCall >>

(* The bytes the peer had sent before it went are read first. *)
ReadData ==
  /\ At("io", "idle")
  /\ reads > 0 /\ reads' = reads - 1
  /\ socket \in { "open", "broken" }
  /\ sent < MaxPackets /\ sent' = sent + 1
  /\ Goto("io", "add")
  /\ UNCHANGED << process, refs, client, link, writes, buffer, inCall >>

(* Mutant: the read handler does not call receiveAsync again. *)
AddDataAndReturn ==
  /\ At("io", "add") /\ at["worker"] = "idle"
  /\ \E kind \in Kinds : buffer' = Append(buffer, kind)
  /\ Goto("io", "idle")
  /\ UNCHANGED << process, refs, client, link, reads, writes, sent, inCall >>

(***************************************************************************)
(* addData waits for the buffer's mutex, which the worker holds from       *)
(* before it takes a packet until after the handler has returned.          *)
(***************************************************************************)
AddData ==
  /\ At("io", "add") /\ at["worker"] = "idle"
  /\ \E kind \in Kinds : buffer' = Append(buffer, kind)
  /\ Goto("io", "receive")
  /\ UNCHANGED << process, refs, client, link, reads, writes, sent, inCall >>

(***************************************************************************)
(* receiveAsync, called by the handlers of read and of connect.  Where     *)
(* shared_from_this throws, neither is ever reached.                       *)
(***************************************************************************)
ReceiveAsync ==
  /\ At("io", "receive") \/ At("io", "firstReceive")
  /\ ~ReceiveThrows
  /\ reads' = ReadsAfterReceive
  /\ Goto("io", IF at["io"] = "receive" THEN "idle" ELSE "startCheck")
  /\ UNCHANGED << process, refs, client, link, writes, inbound, inCall >>

ReadFails ==
  /\ At("io", "idle")
  /\ reads > 0 /\ reads' = reads - 1
  /\ socket \in { "broken", "closed" }
  /\ connected' = FALSE
  /\ Goto("io", Report("lost", "idle"))
  /\ UNCHANGED << process, refs, hearts, threads, owned, link, writes, inbound,
                  inCall >>

WriteSucceeds ==
  /\ At("io", "idle")
  /\ writes > 0 /\ writes' = writes - 1
  /\ socket = "open"
  /\ UNCHANGED << process, refs, client, link, reads, inbound, at, inCall >>

WriteFails ==
  /\ At("io", "idle")
  /\ writes > 0 /\ writes' = writes - 1
  /\ socket # "open"
  /\ connected' = FALSE
  /\ Goto("io", Report("lost", "idle"))
  /\ UNCHANGED << process, refs, hearts, threads, owned, link, reads, inbound,
                  inCall >>

(***************************************************************************)
(* The connect handler assigns a new thread to a std::thread member, which *)
(* terminates if the member is joinable.                                   *)
(***************************************************************************)
Start(u, place, next) ==
  /\ At("io", place)
  /\ IF joinable[u] THEN Terminate /\ UNCHANGED << joinable, at >>
     ELSE /\ joinable' = [ joinable EXCEPT ![u] = TRUE ]
          /\ at' = [ at EXCEPT ![u] = "test", !["io"] = next ]
          /\ UNCHANGED process
  /\ UNCHANGED << refs, connected, hearts, stopping, owned, net, inCall >>

-----------------------------------------------------------------------------
(* The packet handler, in the worker.                                      *)

(* decompressData throws. *)
DecompressionThrows == Head(buffer) = "badData"

(* byteArrayToObject throws. *)
ParsingThrows == Head(buffer) = "badHeartbeat"

(***************************************************************************)
(* The constructor that has no Listener sets owner here.  An exception of  *)
(* the packet handler leaves the worker, and ends the process.             *)
(***************************************************************************)
HandlePacket ==
  /\ At("worker", "idle")
  /\ buffer # << >>
  /\ owned' = TRUE
  /\ IF DecompressionThrows THEN Terminate /\ UNCHANGED at
     ELSE /\ Goto("worker",
                 CASE Head(buffer) = "SGoodbye" -> Report("server", "unlock")
                   [] Head(buffer) = "CGoodbye" -> Report("client", "unlock")
                   [] Head(buffer) = "data"     -> Report("data", "unlock")
                   [] OTHER                     -> "alive")
          /\ UNCHANGED process
  /\ UNCHANGED << refs, connected, hearts, threads, net, inCall >>

(* A heartbeat: the two locks, the first held while waiting for the second. *)
HeartbeatIsAlive ==
  /\ At("worker", "alive")
  /\ aliveMutex = "free" /\ aliveMutex' = "worker"
  /\ Goto("worker", "beats")
  /\ UNCHANGED << process, refs, connected, missedHeartbeats, heartbeatsMutex,
                  threads, owned, net, inCall >>

(* Mutant: the second lock_guard names the first mutex again. *)
HeartbeatLocksTwice ==
  /\ At("worker", "beats")
  /\ aliveMutex = "free" /\ aliveMutex' = "worker"
  /\ missedHeartbeats' = 0
  /\ Goto("worker", Report("heartbeat", "unlock"))
  /\ UNCHANGED << process, refs, connected, heartbeatsMutex, threads, owned,
                  net, inCall >>

(* The body is parsed after the counter has been reset, with both locks. *)
HeartbeatResets ==
  /\ At("worker", "beats")
  /\ heartbeatsMutex = "free" /\ heartbeatsMutex' = "worker"
  /\ missedHeartbeats' = 0
  /\ IF ParsingThrows THEN Terminate /\ UNCHANGED at
     ELSE Goto("worker", Report("heartbeat", "unlock")) /\ UNCHANGED process
  /\ UNCHANGED << refs, connected, aliveMutex, threads, owned, net, inCall >>

(* Mutant: the second lock of a heartbeat is never released. *)
PacketIsHandledKeepingLock ==
  /\ At("worker", "unlock")
  /\ buffer' = Tail(buffer)
  /\ aliveMutex' = "free"
  /\ Goto("worker", "idle")
  /\ UNCHANGED << process, refs, connected, missedHeartbeats, heartbeatsMutex,
                  threads, owned, link, reads, writes, sent, inCall >>

(* The lock_guards of a heartbeat go, and the packet with them. *)
PacketIsHandled ==
  /\ At("worker", "unlock")
  /\ buffer' = Tail(buffer)
  /\ aliveMutex' = "free" /\ heartbeatsMutex' = "free"
  /\ Goto("worker", "idle")
  /\ UNCHANGED << process, refs, connected, missedHeartbeats, threads, owned,
                  link, reads, writes, sent, inCall >>

-----------------------------------------------------------------------------
(* checkForMissedHeartbeats and sendHeartbeatAsync.                        *)

CheckTest ==
  /\ At("check", "test")
  /\ Goto("check", IF stopping["check"] THEN "exit" ELSE "count")
  /\ OnlyMoves

(***************************************************************************)
(* The end of the interval.  The counter is only compared with             *)
(* maxMissedHeartbeats, so it need not be told apart above that.           *)
(***************************************************************************)
CountMissed ==
  /\ At("check", "count")
  /\ heartbeatsMutex = "free"
  /\ missedHeartbeats' = IF missedHeartbeats > maxMissedHeartbeats
                         THEN missedHeartbeats ELSE missedHeartbeats + 1
  /\ Goto("check", "compare")
  /\ UNCHANGED << process, refs, connected, aliveMutex, heartbeatsMutex,
                  threads, owned, net, inCall >>

TooManyMissed == missedHeartbeats > maxMissedHeartbeats

(* Without the mutex: the worker may reset the counter right after. *)
CompareMissed ==
  /\ At("check", "compare")
  /\ Goto("check", IF TooManyMissed THEN "mark" ELSE "test")
  /\ OnlyMoves

(* Under aliveMutex isAlive becomes FALSE, which nobody reads. *)
MarkDead ==
  /\ At("check", "mark")
  /\ aliveMutex = "free"
  /\ Goto("check", Report("lost", "test"))
  /\ OnlyMoves

BeatTest ==
  /\ At("beat", "test")
  /\ Goto("beat", IF stopping["beat"] THEN "exit" ELSE "send")
  /\ OnlyMoves

(* Exceptions of sendAsync are logged; then follows the sleep. *)
SendHeartbeat ==
  /\ At("beat", "send")
  /\ writes' = WritesAfterSend
  /\ Goto("beat", "test")
  /\ UNCHANGED << process, refs, client, link, reads, inbound, inCall >>

-----------------------------------------------------------------------------
AppStep == Construct \/ Calls("app")

IoStep == \/ ConnectSucceeds \/ ConnectFails \/ ReadFails
          \/ WriteSucceeds \/ WriteFails
          \/ AddData \/ ReceiveAsync
          \/ Start("check", "startCheck", "startBeat")
          \/ Start("beat", "startBeat", "idle")
          \/ CallHandler("io", "lost") \/ Return("io", "idle")
          \/ Calls("io") \/ LastOperationEnds

WorkerStep == \/ HandlePacket
              \/ HeartbeatIsAlive \/ HeartbeatResets
              \/ \E e \in Events : CallHandler("worker", e)
              \/ Return("worker", "unlock")
              \/ PacketIsHandled \/ Calls("worker")

CheckStep == \/ CheckTest \/ CountMissed \/ CompareMissed \/ MarkDead
             \/ CallHandler("check", "lost") \/ Return("check", "test")
             \/ Calls("check")

BeatStep == BeatTest \/ SendHeartbeat

AppCall == ConnectAsync \/ SendAsync \/ DisconnectAsync \/ Release

Network == PeerCloses \/ ReadData

Next == AppStep \/ IoStep \/ WorkerStep \/ CheckStep \/ BeatStep
          \/ AppCall \/ Network

Spec == Init /\ [][Next]_vars

(***************************************************************************)
(* The threads run and asio completes what can be completed.  The peer     *)
(* need not send, and the application need not call anything.              *)
(***************************************************************************)
FairSpec == /\ Spec
            /\ WF_vars(AppStep) /\ WF_vars(IoStep) /\ WF_vars(WorkerStep)
            /\ WF_vars(CheckStep) /\ WF_vars(BeatStep)

-----------------------------------------------------------------------------
(***************************************************************************)
(* recvBuffer is shared by nobody: a read is started only when the one     *)
(* before it has completed and its bytes have been taken out.              *)
(***************************************************************************)
OneRead ==
  /\ reads <= 1
  /\ at["io"] \in { "firstReceive", "add", "receive" } => reads = 0

(***************************************************************************)
(* A client whose connection is up has a read outstanding whenever the I/O *)
(* thread is idle, so what the peer sends will be noticed.                 *)
(***************************************************************************)
ConnectedIsReading ==
  connected /\ socket = "open" /\ at["io"] = "idle" /\ at["app"] # "construct"
    => reads = 1

(***************************************************************************)
(* When both stop flags are set and nobody waits in a join any more, that  *)
(* is, after disconnectAsync or the destructor has gone through, neither   *)
(* heartbeat thread does anything, even one that the connect handler       *)
(* started later.  Only a check thread whose own handler disconnected,     *)
(* and could not join itself, still has to come back from that handler.    *)
(***************************************************************************)
QuietAfterDisconnect ==
  (\A u \in { "check", "beat" } : stopping[u])
    /\ (\A t \in Threads : inCall[t] = "none")
  => /\ \/ at["check"] \in { "none", "test", "exit" }
        \/ "lost" \in Disconnecting /\ at["check"] = "return"
     /\ at["beat"]  \in { "none", "test", "exit" }

(***************************************************************************)
(* Once the socket of an accepted client has been closed and nobody is in  *)
(* disconnectAsync or in the destructor, both its threads have been        *)
(* joined, whoever disconnected and however many at once, and one finding  *)
(* the flag that another has set: the members can be destroyed without     *)
(* ending the process.  (A check thread whose own handler disconnects      *)
(* cannot join itself, and a connect handler may start threads behind the  *)
(* back of a disconnect: there it does not hold.)                          *)
(***************************************************************************)
NoThreadLeft ==
  /\ socket = "closed" /\ connects = 0 /\ "lost" \notin Disconnecting
  /\ \A t \in Threads : inCall[t] = "none"
  => \A u \in { "check", "beat" } : ~joinable[u]

(***************************************************************************)
(* A call of disconnectAsync returns.                                      *)
(***************************************************************************)
DisconnectReturns ==
  \A t \in Threads :
    inCall[t] = "test" ~> inCall[t] = "none" \/ process = "terminated"

(***************************************************************************)
(* If from some time on no heartbeat is handled, the check thread, unless  *)
(* it is told to stop, reports the connection as lost, however the other   *)
(* threads get in its way.                                                 *)
(***************************************************************************)
DeadPeerNoticed ==
  <>[](at["worker"] \notin { "alive", "beats" }) =>
    (at["check"] = "test"
      ~> \/ at["check"] = "lost"
         \/ stopping["check"] \/ process = "terminated")

(***************************************************************************)
(* Whatever has been read from the socket is handled, as long as somebody  *)
(* holds the client.                                                       *)
(***************************************************************************)
PacketsAreHandled ==
  at["io"] = "add" \/ buffer # << >>
    ~> \/ at["io"] # "add" /\ buffer = << >>
       \/ refs = { } \/ process = "terminated"

(***************************************************************************)
(* A client that has been disconnected, whose operations have ended and    *)
(* whose packets have been handled when its last pointer is given up is    *)
(* destroyed to its last member, and the process survives.                 *)
(***************************************************************************)
Settled ==
  /\ \A u \in { "check", "beat" } : stopping[u] /\ ~joinable[u]
  /\ Unreferenced /\ buffer = << >> /\ at["worker"] = "idle"

SettledIsFreed ==
  inCall["app"] = "stopCheck" /\ refs = { } /\ Settled
    ~> at["worker"] = "none" /\ process = "running"

(***************************************************************************)
(* Whenever a completion handler, the worker or the check thread calls the *)
(* application, somebody holds the client it is about to hand over.        *)
(***************************************************************************)
InstanceAlive == \A t \in Threads : at[t] \in Events => refs # { }
=============================================================================
