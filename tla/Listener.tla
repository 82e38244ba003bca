------------------------------ MODULE Listener ------------------------------
(***************************************************************************)
(* Parlo::Listener: an accept loop in a std::async thread, the completions *)
(* of the accepts in the threads that run the io_context, and the queue of *)
(* clients that both the accept handler and the clients' own threads       *)
(* change.                                                                 *)
(*                                                                         *)
(* There is ONE socket, listenerSocket: every accept is started onto it,   *)
(* and every client is given a reference to it.  asio is external: an      *)
(* accept onto a socket that is open ends at once with already_open, and   *)
(* a connection whose accept ends while the socket is open is closed.      *)
(*                                                                         *)
(* acceptAsync is the loop of the std::async thread, and it is also what   *)
(* the completion handler calls last.  at[t] is where a thread is.  A      *)
(* client is named by its connection.  Of NetworkClient there is only what *)
(* the Listener meets: that it reads, that its handlers are called when it *)
(* is lost or says goodbye, and that it may be disconnected.  A read once  *)
(* started is on the client's own connection, and a failed write is not    *)
(* told apart from a failed read.                                          *)
(***************************************************************************)
EXTENDS SequencesExt, FiniteSetsExt

CONSTANTS
  ImplShared,    \* is Impl owned by a shared_ptr?  FALSE in this code
  IoThreads,     \* the threads that run the io_context
  Connections,   \* bound: the connections peers make; each waits from the
                 \* start, as nothing happens to it before its accept ends
  MaxStarts,     \* bound: how often the application starts accepting,
  MaxAccepts     \* and how many accepts, and errors, are told apart

Loops == 1 .. MaxStarts    \* the std::async threads

ASSUME ConstantsAssumption ==
  /\ ImplShared \in BOOLEAN
  /\ MaxStarts \in Nat /\ MaxAccepts \in Nat \ { 0 }
  /\ IsFiniteSet(IoThreads) /\ IsFiniteSet(Connections)
  /\ IoThreads \cap Loops = { }

VARIABLES
  running,
  app,             \* the application: "idle", "starting", "stopping"
  acceptFuture,    \* the std::async thread it refers to, 0 if not valid
  starts,          \* the number of std::async threads there have been
  at, handling,    \* the client whose accept an io thread handles
  accepts,         \* outstanding accepts
  errors,          \* accepts that have ended with already_open
  connection,
  networkClients,
  handlers,        \* the handlers set in a client: "lost", "disconnected"
  reading, connected, checking,  \* clients: a read is outstanding, connected
                   \* is TRUE, checkForMissedHeartbeats runs
  leaving,         \* clients that are in disconnectAsync, behind close
  added, reported  \* history: clients added, and reported

control == << running, app, acceptFuture, starts >>
pending == << accepts, errors, connection >>
clients == << reading, connected, checking, leaving >>
listed  == << networkClients, handlers, added, reported >>
vars    == << control, at, handling, pending, clients, listed >>

OnSocket == { c \in Connections : connection[c] \in { "open", "broken" } }

IsOpen == OnSocket # { }

TypeOK ==
  /\ running \in BOOLEAN
  /\ app \in { "idle", "starting", "stopping" }
  /\ acceptFuture \in 0 .. starts /\ starts \in 0 .. MaxStarts
  /\ DOMAIN at = IoThreads \cup Loops
  /\ \A k \in Loops : at[k] \in { "none", "test", "accept", "done" }
  /\ \A t \in IoThreads :
        at[t] \in { "idle", "accepted", "setDisconnected", "setLost", "add",
                    "test", "accept", "thrown" }
  /\ handling \in [ IoThreads -> Connections \cup { "none" } ]
  /\ accepts \in 0 .. MaxAccepts /\ errors \in 0 .. MaxAccepts
  /\ connection \in [ Connections -> { "waiting", "accepted", "open", "broken",
                                       "closed", "refused" } ]
  /\ \A c, d \in OnSocket : c = d
  /\ networkClients \in Seq(Connections)
  /\ handlers \in [ Connections -> SUBSET { "lost", "disconnected" } ]
  /\ reading \cup connected \cup checking \cup leaving \cup added \cup reported
       \subseteq Connections

Init ==
  /\ running = FALSE /\ app = "idle" /\ acceptFuture = 0 /\ starts = 0
  /\ at = [ t \in IoThreads \cup Loops |->
              IF t \in IoThreads THEN "idle" ELSE "none" ]
  /\ handling = [ t \in IoThreads |-> "none" ]
  /\ accepts = 0 /\ errors = 0
  /\ connection = [ c \in Connections |-> "waiting" ]
  /\ networkClients = << >>
  /\ handlers = [ c \in Connections |-> { } ]
  /\ reading = { } /\ connected = { } /\ checking = { } /\ leaving = { }
  /\ added = { } /\ reported = { }

Goto(t, place) == at' = [ at EXCEPT ![t] = place ]

OneMore(n) == IF n < MaxAccepts THEN n + 1 ELSE n

-----------------------------------------------------------------------------
(* The application: startAccepting and stopAccepting.                      *)

(***************************************************************************)
(* running is set first, and stays set if shared_from_this throws.  The    *)
(* new thread runs before its future is assigned, and the assignment waits *)
(* for the thread of the future it replaces.                               *)
(***************************************************************************)
StartAccepting ==
  /\ app = "idle" /\ starts < MaxStarts
  /\ running' = TRUE
  /\ starts' = starts + 1
  /\ IF ImplShared THEN app' = "starting" /\ Goto(starts', "test")
                   ELSE UNCHANGED << app, at >>
  /\ UNCHANGED << acceptFuture, handling, pending, clients, listed >>

Ended(k) == k # 0 => at[k] = "done"

AssignFuture ==
  /\ app = "starting" /\ Ended(acceptFuture)
  /\ acceptFuture' = starts
  /\ app' = "idle"
  /\ UNCHANGED << running, starts, at, handling, pending, clients, listed >>

(* Mutant: the loops are not told. *)
StopAcceptingSilently ==
  /\ app = "idle"
  /\ app' = "stopping"
  /\ UNCHANGED << running, acceptFuture, starts, at, handling, pending,
                  clients, listed >>

StopAccepting ==
  /\ app = "idle"
  /\ running' = FALSE
  /\ app' = "stopping"
  /\ UNCHANGED << acceptFuture, starts, at, handling, pending, clients,
                  listed >>

WaitForFuture ==
  /\ app = "stopping" /\ Ended(acceptFuture)
  /\ app' = "idle"
  /\ UNCHANGED << running, acceptFuture, starts, at, handling, pending,
                  clients, listed >>

-----------------------------------------------------------------------------
(* acceptAsync, in a std::async thread or at the end of a handler.         *)

(* Mutant: the loop that a handler was in ends its thread. *)
BehindAll(t) == "done"

Behind(t) == IF t \in Loops THEN "done" ELSE "idle"

(* Mutant: the loop goes on in the threads that handle completions. *)
LoopTestOnlyStoppingAsync(t) ==
  /\ at[t] = "test"
  /\ Goto(t, IF running \/ t \in IoThreads THEN "accept" ELSE Behind(t))
  /\ UNCHANGED << control, handling, pending, clients, listed >>

LoopTest(t) ==
  /\ at[t] = "test"
  /\ Goto(t, IF running THEN "accept" ELSE Behind(t))
  /\ UNCHANGED << control, handling, pending, clients, listed >>

(* Then follows the sleep of 10 ms, which may last any time. *)
StartAccept(t) ==
  /\ at[t] = "accept"
  /\ IF IsOpen THEN errors' = OneMore(errors) /\ UNCHANGED accepts
               ELSE accepts' = OneMore(accepts) /\ UNCHANGED errors
  /\ Goto(t, "test")
  /\ UNCHANGED << control, handling, connection, clients, listed >>

-----------------------------------------------------------------------------
(* The network, and the handler of an accept that has ended.               *)

PeerCloses(c) ==
  /\ connection[c] = "open"
  /\ connection' = [ connection EXCEPT ![c] = "broken" ]
  /\ UNCHANGED << control, at, handling, accepts, errors, clients, listed >>

AcceptEnds(c) ==
  /\ accepts > 0 /\ accepts' = accepts - 1
  /\ connection[c] = "waiting"
  /\ connection' = [ connection EXCEPT ![c] = "accepted" ]
  /\ UNCHANGED << control, at, handling, errors, clients, listed >>

(* Mutant: the test of the error code is the wrong way round. *)
HandleAcceptInverted(t, c) ==
  /\ at[t] = "idle"
  /\ connection[c] = "accepted"
  /\ connection' = [ connection EXCEPT ![c] = IF IsOpen THEN "refused"
                                                        ELSE "open" ]
  /\ handling' = [ handling EXCEPT ![t] = c ]
  /\ Goto(t, "test")
  /\ UNCHANGED << control, accepts, errors, clients, listed >>

(***************************************************************************)
(* The connection becomes the socket's, if that is not open.  Otherwise it *)
(* is closed, the handler logs the error and goes on to acceptAsync.       *)
(***************************************************************************)
HandleAccept(t, c) ==
  /\ at[t] = "idle"
  /\ connection[c] = "accepted"
  /\ IF IsOpen
     THEN /\ connection' = [ connection EXCEPT ![c] = "refused" ]
          /\ Goto(t, "test")
          /\ UNCHANGED handling
     ELSE /\ connection' = [ connection EXCEPT ![c] = "open" ]
          /\ Goto(t, "accepted")
          /\ handling' = [ handling EXCEPT ![t] = c ]
  /\ UNCHANGED << control, accepts, errors, clients, listed >>

HandleError(t) ==
  /\ at[t] = "idle"
  /\ errors > 0 /\ errors' = errors - 1
  /\ Goto(t, "test")
  /\ UNCHANGED << control, handling, accepts, connection, clients, listed >>

(***************************************************************************)
(* setLinger throws on some systems if the peer has gone, and nothing      *)
(* between here and io_context::run catches that.  Otherwise the client is *)
(* constructed, and its threads and its first read are started before any  *)
(* handler is set.                                                         *)
(***************************************************************************)
ConstructClient(t) ==
  /\ at[t] = "accepted"
  /\ LET c == handling[t] IN
       \/ /\ connection[c] # "open"
          /\ Goto(t, "thrown")
          /\ UNCHANGED clients
       \/ /\ Goto(t, "setDisconnected")
          /\ reading' = reading \cup { c }
          /\ connected' = connected \cup { c }
          /\ checking' = checking \cup { c }
          /\ UNCHANGED leaving
  /\ UNCHANGED << control, handling, pending, listed >>

SetHandler(t, place, e, next) ==
  /\ at[t] = place
  /\ handlers' = [ handlers EXCEPT ![handling[t]] = @ \cup { e } ]
  /\ Goto(t, next)
  /\ UNCHANGED << control, handling, pending, clients, networkClients, added,
                  reported >>

SetOnClientDisconnectedHandler(t) ==
  SetHandler(t, "setDisconnected", "disconnected", "setLost")

(* Mutant: the other handler is set twice. *)
SetOnClientDisconnectedAgain(t) ==
  SetHandler(t, "setLost", "disconnected", "add")

SetOnConnectionLostHandler(t) == SetHandler(t, "setLost", "lost", "add")

(***************************************************************************)
(* The capacity of networkClients is that of size_t: add never waits.      *)
(* onClientConnected, called next, changes nothing here.                   *)
(***************************************************************************)
AddClient(t) ==
  /\ at[t] = "add"
  /\ networkClients' = Append(networkClients, handling[t])
  /\ added' = added \cup { handling[t] }
  /\ handling' = [ handling EXCEPT ![t] = "none" ]
  /\ Goto(t, "test")
  /\ UNCHANGED << control, pending, clients, handlers, reported >>

-----------------------------------------------------------------------------
(* What the clients do in threads of their own.                            *)

(* Mutant: the client in front is taken. *)
TakeFront(c) == IF networkClients = << >> THEN networkClients
                                          ELSE Tail(networkClients)

(* networkClients.take(client): the first one found is erased, if any. *)
Take(c) == RemoveFirst(networkClients, c)

(* Mutant: a goodbye is passed on, and the client stays in the queue. *)
ReportKeepingOnGoodbye(c, e) ==
  /\ networkClients' = IF "lost" = e /\ e \in handlers[c] THEN Take(c)
                                                         ELSE networkClients
  /\ reported' = reported \cup { c }
  /\ UNCHANGED << handlers, added >>

(* NewClient_OnClientDisconnected and NewClient_OnConnectionLost. *)
Report(c, e) ==
  /\ networkClients' = IF e \in handlers[c] THEN Take(c) ELSE networkClients
  /\ reported' = reported \cup { c }
  /\ UNCHANGED << handlers, added >>

(***************************************************************************)
(* A read that fails or is cancelled, in the io thread t.                  *)
(***************************************************************************)
ReadFails(t, c) ==
  /\ at[t] = "idle"
  /\ c \in reading /\ connection[c] \in { "broken", "closed" }
  /\ reading' = reading \ { c }
  /\ connected' = connected \ { c }
  /\ Report(c, "lost")
  /\ UNCHANGED << control, at, handling, pending, checking, leaving >>

(* An io thread has read a goodbye, and the worker handles it. *)
GoodbyeIsHandled(c) ==
  /\ \E t \in IoThreads : at[t] = "idle"
  /\ c \in reading /\ connection[c] = "open"
  /\ Report(c, "disconnected")
  /\ UNCHANGED << control, at, handling, pending, clients >>

(***************************************************************************)
(* checkForMissedHeartbeats reports a client after each interval, as long  *)
(* as no heartbeat comes.                                                  *)
(***************************************************************************)
MissedHeartbeats(c) ==
  /\ c \in checking
  /\ Report(c, "lost")
  /\ UNCHANGED << control, at, handling, pending, clients >>

(***************************************************************************)
(* disconnectAsync of a client the application got from clients() or its   *)
(* handler: what is closed is what the socket then holds.                  *)
(***************************************************************************)
Disconnect(c) ==
  /\ c \in added /\ c \in connected
  /\ \E d \in OnSocket : connection' = [ connection EXCEPT ![d] = "closed" ]
  /\ leaving' = leaving \cup { c }
  /\ UNCHANGED << control, at, handling, accepts, errors, reading, connected,
                  checking, listed >>

EndDisconnect(c) ==
  /\ c \in leaving /\ leaving' = leaving \ { c }
  /\ connected' = connected \ { c }
  /\ checking' = checking \ { c }
  /\ UNCHANGED << control, at, handling, pending, reading, listed >>

-----------------------------------------------------------------------------
AppStep == AssignFuture \/ WaitForFuture

AppCall == StartAccepting \/ StopAccepting

LoopStep(t) == LoopTest(t) \/ StartAccept(t)

IoStep(t) == \/ LoopStep(t)
             \/ \E c \in Connections : HandleAccept(t, c) \/ ReadFails(t, c)
             \/ HandleError(t)
             \/ ConstructClient(t)
             \/ SetOnClientDisconnectedHandler(t)
             \/ SetOnConnectionLostHandler(t)
             \/ AddClient(t)

ClientStep(c) == \/ GoodbyeIsHandled(c) \/ MissedHeartbeats(c)
                 \/ Disconnect(c) \/ EndDisconnect(c)

Network(c) == PeerCloses(c) \/ AcceptEnds(c)

Next == \/ AppStep \/ AppCall
        \/ \E k \in Loops : LoopStep(k)
        \/ \E t \in IoThreads : IoStep(t)
        \/ \E c \in Connections : ClientStep(c) \/ Network(c)

Spec == Init /\ [][Next]_vars

(***************************************************************************)
(* Every thread runs.  asio ends an accept for which there is a connection *)
(* and the check thread of a client whose peer is gone counts on.  Nothing *)
(* is asked of the application or of the peers.                            *)
(***************************************************************************)
FairSpec ==
  /\ Spec
  /\ WF_vars(AppStep)
  /\ \A k \in Loops : WF_vars(LoopStep(k))
  /\ \A t \in IoThreads : WF_vars(IoStep(t))
  /\ WF_vars(\E c \in Connections : AcceptEnds(c))
  /\ \A c \in Connections :
        WF_vars(connection[c] = "broken" /\ MissedHeartbeats(c))

-----------------------------------------------------------------------------
IsListed(c) == c \in ToSet(networkClients)

(***************************************************************************)
(* A client stays listed, once, until it is reported itself, whatever      *)
(* happens to others.                                                      *)
(***************************************************************************)
LiveClientsListed ==
  /\ \A c \in added \ reported : IsListed(c)
  /\ IsInjective(networkClients)

(***************************************************************************)
(* Seen from the application the queue of clients is a registry: handlers  *)
(* are set in a client before it is added, so once it is listed every      *)
(* report of it takes it out, however the reports, which come from any     *)
(* thread, fall among the steps of the accept handlers.                    *)
(***************************************************************************)
Registry == INSTANCE ClientRegistry
  WITH Clients <- Connections,
       status  <- [ c \in Connections |-> IF c \notin added THEN "new"
                                         ELSE IF IsListed(c) THEN "listed"
                                         ELSE "gone" ]

ImplementsRegistry == Registry!Spec

(***************************************************************************)
(* A client whose peer has gone does not stay in the list, even one that   *)
(* was reported while its handlers were not set or before it was added,    *)
(* unless its check thread is stopped.                                     *)
(***************************************************************************)
DeadClientsRemoved ==
  \A c \in Connections :
    <>[](connection[c] = "broken" /\ c \in checking) => <>[]~IsListed(c)

(***************************************************************************)
(* stopAccepting returns, however many loops there are.                    *)
(***************************************************************************)
StopReturns == app = "stopping" ~> app = "idle"

(***************************************************************************)
(* After stopAccepting, unless accepting is started again, the io threads  *)
(* leave the accept loops their handlers are in, and stay out of them.     *)
(***************************************************************************)
IoThreadsComeBack ==
  <>[]~running =>
    <>[](\A t \in IoThreads : at[t] \notin { "test", "accept" })

(***************************************************************************)
(* While the Listener is running somebody who connects is served, even if  *)
(* accepting was stopped and started again with accepts outstanding.       *)
(***************************************************************************)
SomebodyServed ==
  <>[](running /\ app = "idle") =>
    <>(added # { } \/ \E t \in IoThreads : at[t] = "thrown")

(***************************************************************************)
(* A connection that was accepted becomes a client.                        *)
(***************************************************************************)
AcceptedAreServed == \A c \in Connections : connection[c] # "refused"
=============================================================================
