------------------------ MODULE NetworkClient_proofs ------------------------
(***************************************************************************)
(* The safety of NetworkClient, for both kinds of client, any set of       *)
(* handlers, whichever of them disconnect or give up the client, and any   *)
(* number of packets, writes and connections.                              *)
(***************************************************************************)
EXTENDS NetworkClient, SequenceTheorems, TLAPS

Stoppable == { "check", "beat" }

(* The I/O thread is not between two reads, and starts no thread. *)
Resting == at["io"] \in { "idle", "lost", "return" }

-----------------------------------------------------------------------------
(* The parts of the inductive invariant.                                   *)

(* A packet is in hand from the time it is handled until it goes. *)
InHandInv == at["worker"] \notin { "idle", "none" } => buffer # << >>

(***************************************************************************)
(* Reads.  There is never a second one, because a connect is not started   *)
(* on a socket that is read from, and the handlers of a connect and of a   *)
(* read start one only when the one before has ended.                      *)
(***************************************************************************)
SocketInv ==
  /\ socket = "unopened" =>
       ~connecting /\ reads = 0 /\ Resting /\ at["app"] # "construct"
  /\ connecting =>
       /\ socket \in { "connecting", "closed" }
       /\ reads = 0 /\ Resting /\ at["app"] # "construct"
  /\ at["app"] = "construct" => reads = 0 /\ ~connecting /\ Resting

(* The read of a connection is outstanding whenever io does not see to it. *)
ReadingInv ==
  /\ connected /\ socket = "open" /\ at["app"] # "construct"
  /\ at["io"] \in { "idle", "lost", "return", "startCheck", "startBeat" }
  => reads = 1

(***************************************************************************)
(* A thread that is not at an end is joinable, and one that was told to    *)
(* stop has come to the test of its flag, or somebody waits for it.        *)
(***************************************************************************)
StopAt == [ check |-> "stopCheck",    beat |-> "stopBeat"    ]
SetAt  == [ check |-> "setStopCheck", beat |-> "setStopBeat" ]
JoinAt == [ check |-> "joinCheck",    beat |-> "joinBeat"    ]
NextAt == [ check |-> "stopBeat",     beat |-> "end"         ]

Joining(u) == \E t \in Threads : inCall[t] = JoinAt[u]

ThreadInv ==
  /\ \A u \in Stoppable : at[u] \notin { "none", "exit" } => joinable[u]
  /\ \A u \in Stoppable :
       stopping[u] => \/ at[u] \in { "none", "test", "exit" } \/ Joining(u)
                      \/ /\ u = "check" /\ at["check"] = "return"
                         /\ "lost" \in Disconnecting

(***************************************************************************)
(* heartbeats are sent by a thread that calls nothing; the check thread    *)
(* disconnects in its handler, or destroys the client behind it.           *)
(***************************************************************************)
CallInv ==
  /\ inCall["beat"] = "none"
  /\ inCall["check"] # "none" =>
       \/ at["check"] = "return" /\ "lost" \in Disconnecting
       \/ at["check"] = "test" /\ refs = { }

(***************************************************************************)
(* Before the first connectAsync: once the socket has been closed, each    *)
(* thread of a server's client is joined, or somebody is on the way to it. *)
(***************************************************************************)
Approaching(places) == \E t \in Threads : inCall[t] \in places

TeardownInv ==
  connects = 0 /\ "lost" \notin Disconnecting =>
    /\ \A u \in Stoppable : stopping[u] /\ joinable[u] => Joining(u)
    /\ joinable["beat"] /\ ~stopping["beat"] /\ ~joinable["check"]
         => Approaching({ "stopBeat", "setStopBeat" })
    /\ socket = "closed" =>
         /\ joinable["check"] /\ ~stopping["check"]
              => Approaching({ "stopCheck", "setStopCheck" })
         /\ joinable["beat"] /\ ~stopping["beat"]
              => Approaching({ "stopCheck", "setStopCheck", "joinCheck",
                               "stopBeat", "setStopBeat" })

(* Until the first connectAsync no connect handler runs. *)
StartInv ==
  connects = 0 =>
    ~connecting /\ at["io"] \notin { "firstReceive", "startCheck", "startBeat" }

IInv ==
  /\ TypeOK /\ InHandInv
  /\ SocketInv /\ OneRead /\ ReadingInv
  /\ ThreadInv /\ CallInv
  /\ TeardownInv /\ StartInv

-----------------------------------------------------------------------------
(***************************************************************************)
(* Types.                                                                  *)
(***************************************************************************)
AtOK == DOMAIN at = Threads /\ \A t \in Threads : at[t] \in Places[t]

(* The same inside disconnectAsync and the destructor. *)
LEMMA ProceedType ==
  ASSUME TypeOK, NEW t \in Threads, NEW place \in InDisconnect \cup { "none" },
         Proceed(t, place)
  PROVE  inCall' \in [ Threads -> InDisconnect \cup { "none" } ]
BY DEF TypeOK, Proceed

(* A write that is started, or not, is among those told apart. *)
LEMMA WritesType ==
  ASSUME TypeOK
  PROVE  WritesAfterSend \in 0 .. MaxWrites
BY ConstantsAssumption DEF TypeOK, WritesAfterSend

(* The reports end where a handler is called or behind it. *)
LEMMA ReportType ==
  ASSUME NEW e \in Events, NEW behind
  PROVE  Report(e, behind) \in { e, behind }
BY DEF Report

(* The calls of disconnectAsync and of the destructor keep the types. *)
LEMMA CallsType ==
  ASSUME TypeOK, NEW t \in Threads, Calls(t)
  PROVE  TypeOK'
<1> USE DEF client, hearts, threads, net, link, inbound, TypeOK, InDisconnect
<1>1. CASE DisconnectTest(t)
  BY <1>1, ProceedType DEF DisconnectTest
<1>2. CASE SendGoodbye(t)
  BY <1>2, ProceedType, WritesType DEF SendGoodbye
<1>3. CASE CloseSocket(t)
  BY <1>3, ProceedType DEF CloseSocket
<1>4. ASSUME NEW u \in Stoppable, NEW stop \in InDisconnect,
             NEW set \in InDisconnect, NEW join \in InDisconnect,
             NEW next \in InDisconnect, StopAndJoin(t, u, stop, set, join, next)
      PROVE  TypeOK'
  <2>1. inCall' \in [ Threads -> InDisconnect \cup { "none" } ]
    BY <1>4, ProceedType DEF StopAndJoin
  <2>2. process' \in { "running", "terminated" }
    BY <1>4 DEF StopAndJoin, Terminate
  <2>3. /\ stopping' \in [ Stoppable -> BOOLEAN ]
        /\ joinable' \in [ Stoppable -> BOOLEAN ]
    BY <1>4 DEF StopAndJoin, Stoppable
  <2> QED
    BY <1>4, <2>1, <2>2, <2>3 DEF StopAndJoin, Stoppable
<1>5. CASE EndDisconnect(t)
  BY <1>5, ProceedType DEF EndDisconnect
<1>6. CASE EndDestructor(t)
  <2>1. inCall' \in [ Threads -> InDisconnect \cup { "none" } ]
    BY <1>6, ProceedType DEF EndDestructor
  <2>2. CASE DestroyImpl(t)
    <3>1. AtOK' /\ (at["worker"] # "idle" => at'["worker"] # "idle")
      BY <1>6, <2>2
      DEF EndDestructor, DestroyImpl, Goto, AtOK, Threads, Places
    <3>2. process' \in { "running", "terminated" } /\ buffer' \in Seq(Kinds)
      BY <1>6, <2>2, EmptySeq DEF EndDestructor, DestroyImpl, Terminate
    <3> QED
      BY <2>1, <2>2, <3>1, <3>2 DEF EndDestructor, DestroyImpl, AtOK
  <2>3. CASE ~DestroyImpl(t)
    BY <1>6, <2>1, <2>3 DEF EndDestructor
  <2> QED
    BY <2>2, <2>3
<1> HIDE DEF client, hearts, threads, net, link, inbound, TypeOK
<1>7. CASE StopAndJoin(t, "check", "stopCheck", "setStopCheck", "joinCheck",
                       "stopBeat")
  BY <1>4, <1>7, "check" \in Stoppable DEF Stoppable
<1>8. CASE StopAndJoin(t, "beat", "stopBeat", "setStopBeat", "joinBeat", "end")
  BY <1>4, <1>8, "beat" \in Stoppable DEF Stoppable
<1> QED
  BY <1>1, <1>2, <1>3, <1>5, <1>6, <1>7, <1>8 DEF Calls

(* Every step keeps the types. *)
LEMMA TypeStep == TypeOK /\ InHandInv /\ [Next]_vars => TypeOK'
<1> SUFFICES ASSUME TypeOK, InHandInv, [Next]_vars
             PROVE  TypeOK'
  OBVIOUS
<1> USE DEF client, hearts, threads, net, link, inbound, At
<1> USE ConstantsAssumption
<1>1. CASE Construct
  BY <1>1 DEF Goto, Construct, Terminate, ReadsAfterReceive, TypeOK,
                        Threads, Places
<1>2. ASSUME NEW t \in Threads, Calls(t)
      PROVE  TypeOK'
  BY <1>2, CallsType
<1>3. CASE ConnectSucceeds
  <2>1. AtOK' /\ at'["worker"] = at["worker"]
    BY <1>3 DEF ConnectSucceeds, Goto, AtOK, TypeOK, Threads, Places
  <2> QED
    BY <1>3, <2>1 DEF ConnectSucceeds, AtOK, TypeOK
<1>4. CASE ConnectFails
  <2>1. AtOK' /\ at'["worker"] = at["worker"]
    BY <1>4 DEF ConnectFails, Goto, Report, Events, AtOK, TypeOK, Threads, Places
  <2> QED
    BY <1>4, <2>1 DEF ConnectFails, AtOK, TypeOK
<1>5. CASE ReadFails
  <2>1. AtOK' /\ at'["worker"] = at["worker"]
    BY <1>5 DEF ReadFails, Goto, Report, Events, AtOK, TypeOK, Threads, Places
  <2>2. reads' \in Nat
    BY <1>5 DEF ReadFails, TypeOK
  <2> QED
    BY <1>5, <2>1, <2>2 DEF ReadFails, AtOK, TypeOK
<1>6. CASE WriteSucceeds
  BY <1>6 DEF WriteSucceeds, TypeOK
<1>7. CASE WriteFails
  <2>1. AtOK' /\ at'["worker"] = at["worker"]
    BY <1>7 DEF WriteFails, Goto, Report, Events, AtOK, TypeOK, Threads, Places
  <2>2. writes' \in 0 .. MaxWrites
    BY <1>7 DEF WriteFails, TypeOK
  <2> QED
    BY <1>7, <2>1, <2>2 DEF WriteFails, AtOK, TypeOK
<1>8. CASE AddData
  <2>1. buffer' \in Seq(Kinds)
    BY <1>8, AppendProperties DEF AddData, TypeOK
  <2>2. AtOK' /\ at'["worker"] = at["worker"]
    BY <1>8 DEF Goto, AddData, AtOK, TypeOK, Threads, Places
  <2> QED
    BY <1>8, <2>1, <2>2 DEF AddData, AtOK, TypeOK
<1>9. CASE ReceiveAsync
  BY <1>9 DEF Goto, ReceiveAsync, ReadsAfterReceive, TypeOK, Threads, Places
<1>10. CASE \/ Start("check", "startCheck", "startBeat")
            \/ Start("beat", "startBeat", "idle")
  <2>1. AtOK' /\ at'["worker"] = at["worker"]
    BY <1>10 DEF Start, Goto, AtOK, TypeOK, Threads, Places
  <2>2. /\ joinable' \in [ { "check", "beat" } -> BOOLEAN ]
        /\ process' \in { "running", "terminated" }
    <3>1. /\ joinable \in [ { "check", "beat" } -> BOOLEAN ]
          /\ process \in { "running", "terminated" }
      BY DEF TypeOK
    <3>2. \/ joinable' = joinable
          \/ \E u \in { "check", "beat" } :
               joinable' = [ joinable EXCEPT ![u] = TRUE ]
      BY <1>10 DEF Start
    <3>3. process' \in { process, "terminated" }
      BY <1>10 DEF Start, Terminate
    <3> QED
      BY <3>1, <3>2, <3>3
  <2>3. UNCHANGED << refs, connected, hearts, stopping, owned, net, inCall >>
    BY <1>10 DEF Start
  <2> QED
    BY <2>1, <2>2, <2>3 DEF AtOK, TypeOK
<1>11. ASSUME NEW t \in { "io", "worker", "check" }, NEW e \in Events,
              CallHandler(t, e)
       PROVE  TypeOK'
  <2>1. t \in Threads /\ "return" \in Places[t]
    BY DEF Threads, Places
  <2>2. DOMAIN at' = Threads /\ \A u \in Threads : at'[u] \in Places[u]
    BY <1>11, <2>1 DEF Goto, CallHandler, TypeOK
  <2>3. inCall' \in [ Threads -> InDisconnect \cup { "none" } ]
    BY <1>11, <2>1, ProceedType DEF CallHandler, InDisconnect, TypeOK
  <2>4. refs' \subseteq { "app", "io", "worker", "check" }
    BY <1>11 DEF CallHandler, TypeOK
  <2>5. at["worker"] # "idle" => at'["worker"] # "idle"
    BY <1>11 DEF CallHandler, Goto, TypeOK, Threads
  <2>6. process' \in { "running", "terminated" }
    BY <1>11 DEF CallHandler, Terminate, TypeOK
  <2> QED
    BY <1>11, <2>2, <2>3, <2>4, <2>5, <2>6 DEF CallHandler, TypeOK
<1>12. CASE \/ Return("io", "idle") \/ Return("worker", "unlock")
            \/ Return("check", "test")
  <2>1. PICK t \in { "io", "worker", "check" } :
          Return(t, CASE t = "io" -> "idle" [] t = "worker" -> "unlock"
                      [] t = "check" -> "test")
    BY <1>12
  <2>2. inCall' \in [ Threads -> InDisconnect \cup { "none" } ]
    BY <2>1, ProceedType DEF Return, GiveUp, InDisconnect, Threads
  <2>3. DOMAIN at' = Threads /\ \A u \in Threads : at'[u] \in Places[u]
    BY <2>1 DEF Return, Goto, TypeOK, Threads, Places
  <2>4. at["worker"] # "idle" => at'["worker"] # "idle"
    BY <2>1 DEF Return, Goto, TypeOK, Threads
  <2> QED
    BY <2>1, <2>2, <2>3, <2>4 DEF Return, GiveUp, TypeOK
<1>13. CASE LastOperationEnds
  <2>1. AtOK' /\ (at["worker"] # "idle" => at'["worker"] # "idle")
    BY <1>13
    DEF LastOperationEnds, DestroyImpl, Goto, AtOK, TypeOK, Threads, Places
  <2>2. process' \in { "running", "terminated" } /\ buffer' \in Seq(Kinds)
    BY <1>13, EmptySeq DEF LastOperationEnds, DestroyImpl, Terminate, TypeOK
  <2> QED
    BY <1>13, <2>1, <2>2 DEF LastOperationEnds, DestroyImpl, AtOK, TypeOK
<1>14. CASE HandlePacket
  <2>2. at'["worker"] \in { "idle", "server", "client", "data", "alive",
                            "unlock" }
    BY <1>14 DEF HandlePacket, Goto, Report, TypeOK, Threads
  <2>3. DOMAIN at' = Threads /\ \A t \in Threads \ { "worker" } : at'[t] = at[t]
    BY <1>14 DEF HandlePacket, Goto, TypeOK, Threads
  <2>4. AtOK'
    BY <2>2, <2>3 DEF AtOK, TypeOK, Threads, Places
  <2>5. process' \in { "running", "terminated" }
    BY <1>14 DEF HandlePacket, Terminate, TypeOK
  <2> QED
    BY <1>14, <2>2, <2>4, <2>5 DEF HandlePacket, AtOK, TypeOK
<1>15. CASE HeartbeatIsAlive
  BY <1>15 DEF HeartbeatIsAlive, Goto, TypeOK, Threads, Places
<1>16. CASE HeartbeatResets
  <2>1. AtOK' /\ at'["worker"] # "idle"
    BY <1>16
    DEF HeartbeatResets, Goto, Report, AtOK, TypeOK, Threads, Places
  <2>2. process' \in { "running", "terminated" }
    BY <1>16 DEF HeartbeatResets, Terminate, TypeOK
  <2> QED
    BY <1>16, <2>1, <2>2 DEF HeartbeatResets, AtOK, TypeOK
<1>17. CASE PacketIsHandled
  <2>1. buffer' \in Seq(Kinds)
    BY <1>17, HeadTailProperties DEF PacketIsHandled, InHandInv, TypeOK
  <2> QED
    BY <1>17, <2>1 DEF PacketIsHandled, Goto, TypeOK, Threads, Places
<1>18. CASE CheckTest \/ CompareMissed \/ MarkDead
  <2>1. AtOK' /\ at'["worker"] = at["worker"]
    BY <1>18 DEF CheckTest, CompareMissed, MarkDead, Report, Goto,
                 AtOK, TypeOK, Threads, Places
  <2> QED
    BY <1>18, <2>1
    DEF CheckTest, CompareMissed, MarkDead, OnlyMoves, AtOK, TypeOK
<1>19. CASE CountMissed
  BY <1>19 DEF CountMissed, Goto, TypeOK, Threads, Places
<1>20. CASE BeatTest
  BY <1>20 DEF BeatTest, OnlyMoves, Goto, TypeOK, Threads, Places
<1>21. CASE SendHeartbeat
  BY <1>21, WritesType DEF SendHeartbeat, Goto, TypeOK, Threads, Places
<1>22. CASE ConnectAsync
  <2>1. connects' \in 0 .. MaxConnects
    BY <1>22 DEF ConnectAsync, TypeOK
  <2> QED
    BY <1>22, <2>1 DEF ConnectAsync, TypeOK
<1>23. CASE SendAsync
  BY <1>23, WritesType DEF SendAsync, TypeOK
<1>24. CASE DisconnectAsync
  BY <1>24, ProceedType DEF DisconnectAsync, InDisconnect, TypeOK, Threads
<1>25. CASE Release
  BY <1>25, ProceedType DEF Release, GiveUp, InDisconnect, TypeOK, Threads
<1>26. CASE PeerCloses
  BY <1>26 DEF PeerCloses, TypeOK
<1>27. CASE ReadData
  BY <1>27 DEF ReadData, Goto, TypeOK, Threads, Places
<1>28. CASE UNCHANGED vars
  BY <1>28 DEF vars, TypeOK
<1> QED
  BY <1>1, <1>2, <1>3, <1>4, <1>5, <1>6, <1>7, <1>8, <1>9, <1>10, <1>11,
     <1>12, <1>13, <1>14, <1>15, <1>16, <1>17, <1>18, <1>19, <1>20, <1>21,
     <1>22, <1>23, <1>24, <1>25, <1>26, <1>27, <1>28
  DEF Next, AppStep, IoStep, WorkerStep, CheckStep, BeatStep, AppCall,
      Network, Threads, Events

-----------------------------------------------------------------------------
(***************************************************************************)
(* The packet in hand.                                                     *)
(***************************************************************************)
(* Only the worker leaves idle, with a packet, and comes back without it. *)
LEMMA InHandStep == TypeOK /\ InHandInv /\ [Next]_vars => InHandInv'
<1> SUFFICES ASSUME TypeOK, InHandInv, [Next]_vars, buffer' = << >>
             PROVE  at'["worker"] \in { "idle", "none" }
  BY DEF InHandInv
<1> USE DEF InHandInv, client, hearts, threads, net, link, inbound, At, Goto
<1>0. DOMAIN at = Threads /\ Threads = { "app", "io", "worker", "check", "beat" }
  BY DEF TypeOK, Threads
<1>1. CASE HandlePacket
  BY <1>1 DEF HandlePacket
<1>2. CASE PacketIsHandled
  BY <1>0, <1>2 DEF PacketIsHandled
<1>3. CASE AddData
  <2>1. buffer' # << >>
    BY <1>3, AppendProperties, EmptySeq DEF AddData, TypeOK
  <2> QED
    BY <2>1
<1>4. CASE LastOperationEnds \/ \E t \in Threads : EndDestructor(t)
  BY <1>0, <1>4 DEF LastOperationEnds, EndDestructor, DestroyImpl
<1>5. CASE \/ HeartbeatIsAlive \/ HeartbeatResets
           \/ \E e \in Events : CallHandler("worker", e)
           \/ Return("worker", "unlock")
  BY <1>0, <1>5
  DEF HeartbeatIsAlive, HeartbeatResets, CallHandler, Return, Events
<1>6. ASSUME NEW t \in Threads, Calls(t), ~EndDestructor(t)
      PROVE  at' = at /\ buffer' = buffer
  BY <1>6 DEF Calls, DisconnectTest, SendGoodbye, CloseSocket, StopAndJoin,
              EndDisconnect
<1>7. CASE \/ Construct \/ ConnectSucceeds \/ ConnectFails \/ ReadFails
           \/ WriteSucceeds \/ WriteFails \/ ReceiveAsync
           \/ Start("check", "startCheck", "startBeat")
           \/ Start("beat", "startBeat", "idle")
           \/ CallHandler("io", "lost") \/ Return("io", "idle")
           \/ CheckStep /\ ~Calls("check")
           \/ BeatStep \/ AppCall \/ Network \/ UNCHANGED vars
  <2>1. at'["worker"] = at["worker"] /\ buffer' = buffer
    BY <1>0, <1>7
    DEF Construct, ConnectSucceeds, ConnectFails, ReadFails, WriteSucceeds,
        WriteFails, ReceiveAsync, Start, CallHandler, Return, CheckStep,
        CheckTest, CountMissed, CompareMissed, MarkDead, OnlyMoves, BeatStep,
        BeatTest, SendHeartbeat, AppCall, ConnectAsync, SendAsync,
        DisconnectAsync, Release, Network, PeerCloses, ReadData, vars
  <2> QED
    BY <2>1
<1> QED
  BY <1>1, <1>2, <1>3, <1>4, <1>5, <1>6, <1>7
  DEF Next, AppStep, IoStep, WorkerStep, CheckStep, Threads

-----------------------------------------------------------------------------
(***************************************************************************)
(* Reads.                                                                  *)
(***************************************************************************)
ReadsInv == SocketInv /\ OneRead /\ ReadingInv

(* What the reads depend on. *)
linkState == << connected, socket, connecting, reads, at["app"], at["io"] >>

(* Nothing else disturbs them. *)
LEMMA ReadsKept ==
  ASSUME ReadsInv, UNCHANGED linkState
  PROVE  ReadsInv'
BY DEF ReadsInv, SocketInv, OneRead, ReadingInv, Resting, linkState

(* Every step keeps the reads in order. *)
LEMMA ReadsStep == TypeOK /\ ReadsInv /\ [Next]_vars => ReadsInv'
<1> SUFFICES ASSUME TypeOK, ReadsInv, [Next]_vars
             PROVE  ReadsInv'
  OBVIOUS
<1> USE DEF client, hearts, threads, net, link, inbound, At, Goto, Stoppable
<1>0. /\ DOMAIN at = Threads /\ Threads = { "app", "io", "worker", "check", "beat" }
      /\ reads \in Nat /\ at["io"] \in Places["io"]
  BY DEF TypeOK, Threads
<1>1. CASE Construct
  BY <1>0, <1>1 DEF Construct, Terminate, ReadsAfterReceive,
    ReadsInv, SocketInv, OneRead, ReadingInv, Resting
<1>2. CASE ConnectAsync
  BY <1>0, <1>2 DEF ConnectAsync, Unreferenced,
    ReadsInv, SocketInv, OneRead, ReadingInv, Resting
<1>3. CASE ConnectSucceeds
  BY <1>0, <1>3 DEF ConnectSucceeds,
    ReadsInv, SocketInv, OneRead, ReadingInv, Resting
<1>4. CASE ConnectFails
  BY <1>0, <1>4 DEF ConnectFails, Report,
    ReadsInv, SocketInv, OneRead, ReadingInv, Resting
<1>5. CASE ReadFails
  BY <1>0, <1>5 DEF ReadFails, Report,
    ReadsInv, SocketInv, OneRead, ReadingInv, Resting
<1>6. CASE WriteFails
  BY <1>0, <1>6 DEF WriteFails, Report,
    ReadsInv, SocketInv, OneRead, ReadingInv, Resting
<1>7. CASE ReadData
  BY <1>0, <1>7 DEF ReadData,
    ReadsInv, SocketInv, OneRead, ReadingInv, Resting
<1>8. CASE AddData
  BY <1>0, <1>8 DEF AddData,
    ReadsInv, SocketInv, OneRead, ReadingInv, Resting
<1>9. CASE ReceiveAsync
  BY <1>0, <1>9 DEF ReceiveAsync, ReadsAfterReceive,
    ReadsInv, SocketInv, OneRead, ReadingInv, Resting
<1>10. CASE \/ Start("check", "startCheck", "startBeat")
            \/ Start("beat", "startBeat", "idle")
  BY <1>0, <1>10 DEF Start,
    ReadsInv, SocketInv, OneRead, ReadingInv, Resting
<1>11. CASE CallHandler("io", "lost") \/ Return("io", "idle")
  BY <1>0, <1>11 DEF CallHandler, Return,
    ReadsInv, SocketInv, OneRead, ReadingInv, Resting
<1>12. CASE PeerCloses
  BY <1>0, <1>12 DEF PeerCloses,
    ReadsInv, SocketInv, OneRead, ReadingInv, Resting
<1>13. ASSUME NEW t \in Threads, CloseSocket(t)
       PROVE  ReadsInv'
  BY <1>0, <1>13 DEF CloseSocket, IsOpen,
    ReadsInv, SocketInv, OneRead, ReadingInv, Resting
<1>14. ASSUME NEW t \in Threads, EndDisconnect(t)
       PROVE  ReadsInv'
  BY <1>0, <1>14 DEF EndDisconnect,
    ReadsInv, SocketInv, OneRead, ReadingInv, Resting
<1>15. ASSUME NEW t \in Threads, Calls(t), ~CloseSocket(t), ~EndDisconnect(t)
       PROVE  ReadsInv'
  <2>1. UNCHANGED linkState
    BY <1>0, <1>15 DEF Calls, DisconnectTest, SendGoodbye, StopAndJoin,
                       EndDestructor, DestroyImpl, linkState
  <2> QED
    BY <2>1, ReadsKept
<1>16. CASE \/ WorkerStep /\ ~Calls("worker")
            \/ CheckStep /\ ~Calls("check")
            \/ BeatStep \/ LastOperationEnds \/ WriteSucceeds
            \/ SendAsync \/ DisconnectAsync \/ Release \/ UNCHANGED vars
  <2>1. UNCHANGED linkState
    BY <1>0, <1>16
    DEF linkState, WorkerStep, HandlePacket, HeartbeatIsAlive, HeartbeatResets,
        CallHandler, Return, PacketIsHandled, CheckStep, CheckTest, CountMissed,
        CompareMissed, MarkDead, OnlyMoves, BeatStep, BeatTest, SendHeartbeat,
        LastOperationEnds, DestroyImpl, WriteSucceeds, SendAsync,
        DisconnectAsync, Release, vars
  <2> QED
    BY <2>1, ReadsKept
<1> QED
  BY <1>1, <1>2, <1>3, <1>4, <1>5, <1>6, <1>7, <1>8, <1>9, <1>10, <1>11,
     <1>12, <1>13, <1>14, <1>15, <1>16
  DEF Next, AppStep, IoStep, WorkerStep, CheckStep, AppCall, Network, Threads

-----------------------------------------------------------------------------
(***************************************************************************)
(* The heartbeat threads and the calls.                                    *)
(***************************************************************************)
(* Nobody gets hold of a client again once everybody has given it up. *)
LEMMA NotRevived == [Next]_vars /\ refs = { } => refs' = { }
<1> SUFFICES ASSUME [Next]_vars, refs = { } PROVE refs' = { }
  OBVIOUS
<1>1. ASSUME NEW t \in Threads, Calls(t)
      PROVE  refs' = { }
  BY <1>1 DEF Calls, DisconnectTest, SendGoodbye, CloseSocket, StopAndJoin,
              EndDisconnect, EndDestructor, DestroyImpl
<1>2. ASSUME ~ \E t \in Threads : Calls(t)
      PROVE  refs' = { }
  BY <1>2
  DEF Next, AppStep, IoStep, WorkerStep, CheckStep, BeatStep, AppCall, Network,
      Threads, Construct, ConnectSucceeds, ConnectFails, ReadFails,
      WriteSucceeds, WriteFails, AddData, ReceiveAsync, Start, CallHandler,
      Return, GiveUp, LastOperationEnds, DestroyImpl, HandlePacket,
      HeartbeatIsAlive, HeartbeatResets, PacketIsHandled, CheckTest,
      CountMissed, CompareMissed, MarkDead, OnlyMoves, BeatTest, SendHeartbeat,
      ConnectAsync, SendAsync, DisconnectAsync, Release, PeerCloses, ReadData,
      vars
<1> QED
  BY <1>1, <1>2

(* Every step keeps the check thread in the calls it can be in. *)
LEMMA CallStep == TypeOK /\ ThreadInv /\ CallInv /\ [Next]_vars => CallInv'
<1> SUFFICES ASSUME TypeOK, ThreadInv, CallInv, [Next]_vars
             PROVE  CallInv'
  OBVIOUS
<1> USE DEF At, Goto, Proceed, InCall
<1>0. /\ DOMAIN at = Threads /\ Threads = { "app", "io", "worker", "check", "beat" }
      /\ DOMAIN inCall = Threads
  BY DEF TypeOK, Threads
<1>1. refs = { } => refs' = { }
  BY NotRevived
<1>2. CASE CallHandler("check", "lost")
  BY <1>0, <1>2 DEF CallHandler, CallInv
<1>3. CASE Return("check", "test")
  BY <1>0, <1>3 DEF Return, GiveUp, CallInv
<1>4. ASSUME NEW t \in Threads, Calls(t)
      PROVE  CallInv'
  <2>1. /\ at'["check"] = at["check"]
        /\ \A u \in Threads : inCall[u] = "none" => inCall'[u] = "none"
    BY <1>0, <1>4 DEF Calls, DisconnectTest, SendGoodbye, CloseSocket,
         StopAndJoin, EndDisconnect, EndDestructor, DestroyImpl, net
  <2> QED
    BY <1>0, <1>1, <2>1 DEF CallInv
<1>5. CASE \/ CheckTest \/ CountMissed \/ CompareMissed \/ MarkDead
  BY <1>0, <1>5
  DEF CheckTest, CountMissed, CompareMissed, MarkDead, OnlyMoves, CallInv
<1>6. CASE \/ Construct \/ ConnectSucceeds \/ ConnectFails \/ ReadFails
           \/ WriteSucceeds \/ WriteFails \/ AddData \/ ReceiveAsync
           \/ CallHandler("io", "lost") \/ Return("io", "idle")
           \/ LastOperationEnds
           \/ WorkerStep /\ ~Calls("worker")
           \/ BeatStep \/ AppCall \/ Network \/ UNCHANGED vars
  <2>1. /\ at'["check"] = at["check"]
        /\ inCall'["check"] = inCall["check"] /\ inCall'["beat"] = inCall["beat"]
    BY <1>0, <1>6
    DEF Construct, ConnectSucceeds, ConnectFails, ReadFails, WriteSucceeds,
        WriteFails, AddData, ReceiveAsync, CallHandler, Return, GiveUp,
        LastOperationEnds, DestroyImpl, WorkerStep, HandlePacket,
        HeartbeatIsAlive, HeartbeatResets, PacketIsHandled, OnlyMoves, BeatStep,
        BeatTest, SendHeartbeat, AppCall, ConnectAsync, SendAsync,
        DisconnectAsync, Release, Network, PeerCloses, ReadData, vars, net
  <2> QED
    BY <1>1, <2>1 DEF CallInv
<1>7. CASE \/ Start("check", "startCheck", "startBeat")
           \/ Start("beat", "startBeat", "idle")
  <2>1. ~joinable["check"] => at["check"] \in { "none", "exit" }
    BY DEF ThreadInv, Stoppable
  <2> QED
    BY <1>0, <1>1, <1>7, <2>1 DEF Start, CallInv
<1> QED
  BY <1>2, <1>3, <1>4, <1>5, <1>6, <1>7
  DEF Next, AppStep, IoStep, WorkerStep, CheckStep, Threads, Events

(***************************************************************************)
(* What a call does to one heartbeat thread: test its flag, set it, find   *)
(* that it cannot be joined, or join it.                                   *)
(***************************************************************************)
FlagTested(t, u) ==
  /\ inCall[t] = StopAt[u]
  /\ inCall' = [ inCall EXCEPT ![t] =
                   IF stopping[u] THEN NextAt[u] ELSE SetAt[u] ]
  /\ stopping' = stopping /\ joinable' = joinable

FlagSet(t, u) ==
  /\ inCall[t] = SetAt[u]
  /\ inCall' = [ inCall EXCEPT ![t] =
                   IF joinable[u] THEN JoinAt[u] ELSE NextAt[u] ]
  /\ stopping' = [ stopping EXCEPT ![u] = TRUE ] /\ joinable' = joinable

JoinThrows(t, u) ==
  /\ inCall[t] = JoinAt[u] /\ (t = u \/ ~joinable[u])
  /\ \/ refs = { } /\ inCall' = inCall /\ process' = "terminated"
     \/ refs # { } /\ inCall' = [ inCall EXCEPT ![t] = "none" ]
  /\ stopping' = stopping /\ joinable' = joinable

Joined(t, u) ==
  /\ inCall[t] = JoinAt[u] /\ at[u] = "exit"
  /\ inCall' = [ inCall EXCEPT ![t] = NextAt[u] ]
  /\ stopping' = stopping /\ joinable' = [ joinable EXCEPT ![u] = FALSE ]

(* The other steps of the calls leave the heartbeat threads alone. *)
OtherCall(t) == \/ DisconnectTest(t) \/ SendGoodbye(t) \/ CloseSocket(t)
                \/ EndDisconnect(t) \/ EndDestructor(t)

(* A step of a call is one of these. *)
LEMMA CallsCases ==
  ASSUME NEW t \in Threads, Calls(t)
  PROVE  \/ OtherCall(t)
         \/ \E u \in Stoppable : \/ FlagTested(t, u) \/ FlagSet(t, u)
                                 \/ JoinThrows(t, u) \/ Joined(t, u)
<1>1. CASE StopAndJoin(t, "check", "stopCheck", "setStopCheck", "joinCheck",
                       "stopBeat")
  BY <1>1 DEF StopAndJoin, Stoppable, FlagTested, FlagSet, JoinThrows, Joined,
              InCall, Proceed, Terminate, threads, StopAt, SetAt, JoinAt, NextAt
<1>2. CASE StopAndJoin(t, "beat", "stopBeat", "setStopBeat", "joinBeat", "end")
  BY <1>2 DEF StopAndJoin, Stoppable, FlagTested, FlagSet, JoinThrows, Joined,
              InCall, Proceed, Terminate, threads, StopAt, SetAt, JoinAt, NextAt
<1> QED
  BY <1>1, <1>2 DEF Calls, OtherCall

(* No call moves a heartbeat thread. *)
LEMMA CallsStay ==
  ASSUME TypeOK, NEW t \in Threads, Calls(t)
  PROVE  at'["check"] = at["check"] /\ at'["beat"] = at["beat"]
BY DEF Calls, DisconnectTest, SendGoodbye, CloseSocket, StopAndJoin,
       EndDisconnect, EndDestructor, DestroyImpl, Goto, net, TypeOK, Threads

(* The two steps of io that start a heartbeat thread. *)
Starts == \/ Start("check", "startCheck", "startBeat")
          \/ Start("beat", "startBeat", "idle")

(* A step outside the calls disturbs neither them nor the two threads' ends. *)
LEMMA OutsideCalls ==
  ASSUME TypeOK, [Next]_vars, ~ \E t \in Threads : Calls(t), ~Starts
  PROVE  /\ stopping' = stopping /\ joinable' = joinable
         /\ \A t \in Threads : inCall[t] # "none" => inCall'[t] = inCall[t]
         /\ socket' = "closed" => socket = "closed"
         /\ connects' # connects => ConnectAsync
<1>1. stopping' = stopping /\ joinable' = joinable
  BY DEF Starts, client, threads,
      Next, AppStep, IoStep, WorkerStep, CheckStep, BeatStep, AppCall, Network,
      Threads, Construct, ConnectSucceeds, ConnectFails, ReadFails,
      WriteSucceeds, WriteFails, AddData, ReceiveAsync, CallHandler, Return,
      GiveUp, LastOperationEnds, DestroyImpl, HandlePacket, HeartbeatIsAlive,
      HeartbeatResets, PacketIsHandled, CheckTest, CountMissed, CompareMissed,
      MarkDead, OnlyMoves, BeatTest, SendHeartbeat, ConnectAsync, SendAsync,
      DisconnectAsync, Release, PeerCloses, ReadData, vars
<1>2. \A t \in Threads : inCall[t] # "none" => inCall'[t] = inCall[t]
  BY DEF Starts, TypeOK, At, Proceed,
      Next, AppStep, IoStep, WorkerStep, CheckStep, BeatStep, AppCall, Network,
      Threads, Construct, ConnectSucceeds, ConnectFails, ReadFails,
      WriteSucceeds, WriteFails, AddData, ReceiveAsync, CallHandler, Return,
      GiveUp, LastOperationEnds, DestroyImpl, HandlePacket, HeartbeatIsAlive,
      HeartbeatResets, PacketIsHandled, CheckTest, CountMissed, CompareMissed,
      MarkDead, OnlyMoves, BeatTest, SendHeartbeat, ConnectAsync, SendAsync,
      DisconnectAsync, Release, PeerCloses, ReadData, vars
<1>3. /\ socket' = "closed" => socket = "closed"
      /\ connects' # connects => ConnectAsync
  BY DEF Starts, net, link,
      Next, AppStep, IoStep, WorkerStep, CheckStep, BeatStep, AppCall, Network,
      Threads, Construct, ConnectSucceeds, ConnectFails, ReadFails,
      WriteSucceeds, WriteFails, AddData, ReceiveAsync, CallHandler, Return,
      GiveUp, LastOperationEnds, DestroyImpl, HandlePacket, HeartbeatIsAlive,
      HeartbeatResets, PacketIsHandled, CheckTest, CountMissed, CompareMissed,
      MarkDead, OnlyMoves, BeatTest, SendHeartbeat, ConnectAsync, SendAsync,
      DisconnectAsync, Release, PeerCloses, ReadData, vars
<1> QED
  BY <1>1, <1>2, <1>3

(* Only a few of those move a heartbeat thread. *)
LEMMA HeartbeatThreadsMove ==
  ASSUME TypeOK, [Next]_vars, ~ \E t \in Threads : Calls(t), ~Starts
  PROVE  \/ CheckTest \/ CountMissed \/ CompareMissed \/ MarkDead
         \/ CallHandler("check", "lost") \/ Return("check", "test")
         \/ BeatTest \/ SendHeartbeat
         \/ at'["check"] = at["check"] /\ at'["beat"] = at["beat"]
BY DEF Starts, TypeOK, Goto, net,
      Next, AppStep, IoStep, WorkerStep, CheckStep, BeatStep, AppCall, Network,
      Threads, Construct, ConnectSucceeds, ConnectFails, ReadFails,
      WriteSucceeds, WriteFails, AddData, ReceiveAsync, CallHandler, Return,
      LastOperationEnds, DestroyImpl, HandlePacket, HeartbeatIsAlive,
      HeartbeatResets, PacketIsHandled, OnlyMoves, ConnectAsync, SendAsync,
      DisconnectAsync, Release, PeerCloses, ReadData, vars

(***************************************************************************)
(* Every step keeps the heartbeat threads joinable while they run, and     *)
(* those told to stop at the test of their flags or waited for.            *)
(***************************************************************************)
LEMMA ThreadStep == TypeOK /\ ThreadInv /\ CallInv /\ [Next]_vars => ThreadInv'
<1> SUFFICES ASSUME TypeOK, ThreadInv, CallInv, [Next]_vars
             PROVE  ThreadInv'
  OBVIOUS
<1> USE DEF At, Goto, Proceed, InCall, Stoppable, StopAt, SetAt, JoinAt, NextAt
<1>0. /\ DOMAIN at = Threads /\ Threads = { "app", "io", "worker", "check", "beat" }
      /\ DOMAIN inCall = Threads
      /\ DOMAIN joinable = Stoppable /\ DOMAIN stopping = Stoppable
  BY DEF TypeOK, Threads
<1>1. ASSUME NEW t \in Threads, OtherCall(t), Calls(t)
      PROVE  ThreadInv'
  <2>1. stopping' = stopping /\ joinable' = joinable
    BY <1>1 DEF OtherCall, DisconnectTest, SendGoodbye, CloseSocket,
                EndDisconnect, EndDestructor, DestroyImpl, client, threads
  <2>2. /\ inCall[t] \notin { "joinCheck", "joinBeat" }
        /\ \A v \in Threads \ { t } : inCall'[v] = inCall[v]
    BY <1>0, <1>1 DEF OtherCall, DisconnectTest, SendGoodbye, CloseSocket,
                      EndDisconnect, EndDestructor
  <2>3. \A u \in Stoppable : Joining(u) => Joining(u)'
    BY <2>2 DEF Joining
  <2> QED
    BY <1>1, <2>1, <2>3, CallsStay DEF ThreadInv
<1>2. ASSUME NEW t \in Threads, NEW u \in Stoppable, Calls(t),
             \/ FlagTested(t, u) \/ FlagSet(t, u)
             \/ JoinThrows(t, u) \/ Joined(t, u)
      PROVE  ThreadInv'
  <2>1. at'["check"] = at["check"] /\ at'["beat"] = at["beat"]
    BY <1>2, CallsStay
  <2>2. \A v \in Threads \ { t } : inCall'[v] = inCall[v]
    BY <1>0, <1>2 DEF FlagTested, FlagSet, JoinThrows, Joined
  <2>3. CASE FlagTested(t, u)
    <3>1. \A v \in Stoppable : Joining(v) => Joining(v)'
      BY <2>2, <2>3 DEF FlagTested, Joining
    <3> QED
      BY <2>1, <2>3, <3>1 DEF FlagTested, ThreadInv
  <2>4. CASE FlagSet(t, u)
    <3>1. \A v \in Stoppable : Joining(v) => Joining(v)'
      BY <2>2, <2>4 DEF FlagSet, Joining
    <3>2. joinable[u] => Joining(u)'
      BY <1>0, <2>4 DEF FlagSet, Joining
    <3> QED
      BY <1>0, <2>1, <2>4, <3>1, <3>2 DEF FlagSet, ThreadInv
  <2>5. CASE JoinThrows(t, u)
    <3>1. \A v \in Stoppable \ { u } : Joining(v) => Joining(v)'
      BY <2>2, <2>5 DEF JoinThrows, Joining
    <3>2. refs = { } => (Joining(u) => Joining(u)')
      BY <2>5 DEF JoinThrows, Joining
    <3>3. \/ at[u] \in { "none", "exit" }
          \/ u = "check" /\ (\/ at[u] = "return" /\ "lost" \in Disconnecting
                             \/ at[u] = "test")
      BY <2>5 DEF JoinThrows, ThreadInv, CallInv
    <3> QED
      BY <2>1, <2>5, <3>1, <3>2, <3>3 DEF JoinThrows, ThreadInv
  <2>6. CASE Joined(t, u)
    <3>1. \A v \in Stoppable \ { u } : Joining(v) => Joining(v)'
      BY <2>2, <2>6 DEF Joined, Joining
    <3> QED
      BY <1>0, <2>1, <2>6, <3>1 DEF Joined, ThreadInv
  <2> QED
    BY <1>2, <2>3, <2>4, <2>5, <2>6
<1>3. CASE Starts
  BY <1>0, <1>3 DEF Starts, Start, ThreadInv, Joining
<1>4. ASSUME ~ \E t \in Threads : Calls(t), ~Starts
      PROVE  ThreadInv'
  <2>1. /\ stopping' = stopping /\ joinable' = joinable
        /\ \A u \in Stoppable : Joining(u) => Joining(u)'
    BY <1>4, OutsideCalls DEF Joining
  <2>2. CASE \/ CheckTest \/ CountMissed \/ CompareMissed \/ MarkDead
             \/ CallHandler("check", "lost") \/ Return("check", "test")
             \/ BeatTest \/ SendHeartbeat
    BY <1>0, <2>1, <2>2
    DEF CheckTest, CountMissed, CompareMissed, MarkDead, CallHandler, Return,
        BeatTest, SendHeartbeat, Report, ThreadInv
  <2>3. CASE at'["check"] = at["check"] /\ at'["beat"] = at["beat"]
    BY <2>1, <2>3 DEF ThreadInv
  <2> QED
    BY <1>4, <2>2, <2>3, HeartbeatThreadsMove
<1> QED
  BY <1>1, <1>2, <1>3, <1>4, CallsCases

(* Every step before the first connect keeps the teardown on its way. *)
LEMMA TeardownStep ==
  TypeOK /\ CallInv /\ TeardownInv /\ StartInv /\ [Next]_vars => TeardownInv'
<1> SUFFICES ASSUME TypeOK, CallInv, TeardownInv, StartInv, [Next]_vars,
                    connects' = 0, "lost" \notin Disconnecting
             PROVE  TeardownInv'
  BY DEF TeardownInv
<1> USE DEF Stoppable, StopAt, SetAt, JoinAt, NextAt
<1>0. /\ DOMAIN inCall = Threads
      /\ DOMAIN joinable = Stoppable /\ DOMAIN stopping = Stoppable
      /\ connects \in Nat
  BY DEF TypeOK
<1>1. ASSUME NEW t \in Threads, OtherCall(t)
      PROVE  TeardownInv'
  <2>1. stopping' = stopping /\ joinable' = joinable /\ connects' = connects
    BY <1>1 DEF OtherCall, DisconnectTest, SendGoodbye, CloseSocket,
                EndDisconnect, EndDestructor, DestroyImpl, client, threads, net,
                link
  <2>2. /\ inCall[t] \in { "test", "goodbye", "close", "end" }
        /\ \A v \in Threads \ { t } : inCall'[v] = inCall[v]
    BY <1>0, <1>1 DEF OtherCall, DisconnectTest, SendGoodbye, CloseSocket,
                      EndDisconnect, EndDestructor, InCall, Proceed
  <2>3. /\ \A u \in Stoppable : Joining(u) => Joining(u)'
        /\ \A places \in SUBSET { "stopCheck", "setStopCheck", "joinCheck",
                                  "stopBeat", "setStopBeat" } :
             Approaching(places) => Approaching(places)'
    BY <2>2 DEF Joining, Approaching
  <2>4. socket' = "closed" => socket = "closed" \/ inCall'[t] = "stopCheck"
    BY <1>0, <1>1 DEF OtherCall, DisconnectTest, SendGoodbye, CloseSocket, Proceed,
                EndDisconnect, EndDestructor, DestroyImpl, net, link
  <2>5. inCall'[t] = "stopCheck" =>
          /\ Approaching({ "stopCheck", "setStopCheck" })'
          /\ Approaching({ "stopCheck", "setStopCheck", "joinCheck",
                           "stopBeat", "setStopBeat" })'
    BY DEF Approaching
  <2> QED
    BY <2>1, <2>3, <2>4, <2>5 DEF TeardownInv
<1>2. ASSUME NEW t \in Threads, NEW u \in Stoppable, Calls(t),
             \/ FlagTested(t, u) \/ FlagSet(t, u)
             \/ JoinThrows(t, u) \/ Joined(t, u)
      PROVE  TeardownInv'
  <2>1. socket' = socket /\ connects' = connects
    BY <1>2 DEF FlagTested, FlagSet, JoinThrows, Joined, Calls, DisconnectTest,
         SendGoodbye, CloseSocket, StopAndJoin, EndDisconnect, EndDestructor,
         DestroyImpl, net, link, InCall
  <2>2. \A v \in Threads \ { t } : inCall'[v] = inCall[v]
    BY <1>0, <1>2 DEF FlagTested, FlagSet, JoinThrows, Joined
  <2>3. CASE FlagTested(t, u)
    BY <1>0, <2>1, <2>2, <2>3 DEF FlagTested, TeardownInv, Joining, Approaching
  <2>4. CASE FlagSet(t, u)
    BY <1>0, <2>1, <2>2, <2>4 DEF FlagSet, TeardownInv, Joining, Approaching
  <2>5. CASE JoinThrows(t, u)
    <3>1. refs # { } => ~joinable[u]
      BY <2>5 DEF JoinThrows, CallInv
    <3> QED
      BY <1>0, <2>1, <2>2, <2>5, <3>1
      DEF JoinThrows, TeardownInv, Joining, Approaching
  <2>6. CASE Joined(t, u)
    BY <1>0, <2>1, <2>2, <2>6 DEF Joined, TeardownInv, Joining, Approaching
  <2> QED
    BY <1>2, <2>3, <2>4, <2>5, <2>6
<1>3. ~Starts
  <2> SUFFICES ASSUME Starts PROVE FALSE
    OBVIOUS
  <2>1. connects = 0
    BY DEF Starts, Start, net, link
  <2> QED
    BY <2>1 DEF Starts, Start, StartInv, At
<1>4. ASSUME ~ \E t \in Threads : Calls(t)
      PROVE  TeardownInv'
  <2>1. connects = 0
    <3>1. connects' # connects => connects' = connects + 1
      BY <1>3, <1>4, OutsideCalls DEF ConnectAsync
    <3> QED
      BY <1>0, <3>1
  <2>2. /\ stopping' = stopping /\ joinable' = joinable
        /\ socket' = "closed" => socket = "closed"
        /\ \A t \in Threads : inCall[t] # "none" => inCall'[t] = inCall[t]
    BY <1>3, <1>4, OutsideCalls
  <2>3. /\ \A u \in Stoppable : Joining(u) => Joining(u)'
        /\ \A places \in SUBSET { "stopCheck", "setStopCheck", "joinCheck",
                                  "stopBeat", "setStopBeat" } :
             Approaching(places) => Approaching(places)'
    BY <2>2 DEF Joining, Approaching
  <2> QED
    BY <2>1, <2>2, <2>3 DEF TeardownInv
<1> QED
  BY <1>1, <1>2, <1>4, CallsCases

(* No connect handler runs before the first connect. *)
LEMMA StartStep == TypeOK /\ StartInv /\ [Next]_vars => StartInv'
<1> SUFFICES ASSUME TypeOK, StartInv, [Next]_vars, connects' = 0
             PROVE  /\ ~connecting'
                    /\ at'["io"] \notin { "firstReceive", "startCheck",
                                         "startBeat" }
  BY DEF StartInv
<1> USE DEF At, Goto, client, threads, net, link
<1>0. /\ DOMAIN at = Threads /\ Threads = { "app", "io", "worker", "check", "beat" }
      /\ connects \in Nat
  BY DEF TypeOK, Threads
<1>1. ASSUME NEW t \in Threads, Calls(t)
      PROVE  /\ connects' = connects /\ connecting' = connecting
             /\ at'["io"] = at["io"]
  BY <1>0, <1>1 DEF Calls, DisconnectTest, SendGoodbye, CloseSocket, StopAndJoin,
                    EndDisconnect, EndDestructor, DestroyImpl
<1>2. CASE Starts \/ ConnectSucceeds
  BY <1>2 DEF Starts, Start, ConnectSucceeds, StartInv
<1>3. CASE ConnectAsync
  BY <1>0, <1>3 DEF ConnectAsync
<1>4. CASE \/ ReceiveAsync \/ AddData \/ ReadData
           \/ ConnectFails \/ ReadFails \/ WriteFails
           \/ CallHandler("io", "lost") \/ Return("io", "idle")
  BY <1>0, <1>4
  DEF ReceiveAsync, AddData, ReadData, ConnectFails, ReadFails, WriteFails, Report,
      CallHandler, Return, StartInv
<1>5. CASE \/ Construct \/ WriteSucceeds \/ LastOperationEnds
           \/ WorkerStep /\ ~Calls("worker")
           \/ CheckStep /\ ~Calls("check")
           \/ BeatStep \/ SendAsync \/ DisconnectAsync \/ Release
           \/ PeerCloses \/ UNCHANGED vars
  <2>1. /\ connects' = connects /\ connecting' = connecting
        /\ at'["io"] = at["io"]
    BY <1>0, <1>5
    DEF Construct, WriteSucceeds, LastOperationEnds, DestroyImpl, WorkerStep,
        HandlePacket, HeartbeatIsAlive, HeartbeatResets, CallHandler, Return,
        PacketIsHandled, CheckStep, CheckTest, CountMissed, CompareMissed,
        MarkDead, OnlyMoves, BeatStep, BeatTest, SendHeartbeat, SendAsync,
        DisconnectAsync, Release, PeerCloses, vars
  <2> QED
    BY <2>1 DEF StartInv
<1> QED
  BY <1>1, <1>2, <1>3, <1>4, <1>5
  DEF Next, AppStep, IoStep, WorkerStep, CheckStep, AppCall, Network, Threads,
      Starts, StartInv

-----------------------------------------------------------------------------
(* The strengthened invariant holds for a client just constructed. *)
LEMMA InitIInv == Init => IInv
<1> SUFFICES ASSUME NEW role \in { "client", "server" }, InitAs(role)
             PROVE  IInv
  BY ConstantsAssumption DEF Init
<1> USE DEF InitAs, Stoppable, Threads
<1>0. /\ \/ /\ socket = "unopened" /\ at["app"] = "idle"
            /\ \A u \in Stoppable : ~joinable[u]
         \/ socket = "open" /\ at["app"] = "construct"
      /\ process = "running" /\ reads = 0 /\ ~connecting
      /\ \A u \in Stoppable : ~stopping[u]
      /\ \A u \in Stoppable : at[u] \notin { "none", "exit" } => joinable[u]
      /\ at["io"] = "idle" /\ at["worker"] = "idle"
      /\ at["check"] \in { "none", "test" } /\ at["beat"] \in { "none", "test" }
      /\ DOMAIN at = Threads
      /\ \A t \in Threads : inCall[t] = "none"
  <2>1. CASE role = "client"
    <3>1. (role = "server") = FALSE
      BY <2>1
    <3>2. joinable = [ u \in Stoppable |-> FALSE ]
      BY <3>1, Zenon
    <3> QED
      BY <2>1, <3>1, <3>2
  <2>2. CASE role = "server"
    BY <2>2
  <2> QED
    BY <2>1, <2>2
<1>1. TypeOK
  <2>1. AtOK
    BY <1>0 DEF AtOK, Places
  <2>2. /\ process = "running" /\ refs = { "app" } /\ connected = TRUE
        /\ owned \in BOOLEAN /\ aliveMutex = "free" /\ heartbeatsMutex = "free"
        /\ socket \in { "unopened", "open" } /\ connecting = FALSE
        /\ stopping \in [ Stoppable -> BOOLEAN ]
        /\ joinable \in [ Stoppable -> BOOLEAN ]
        /\ inCall \in [ Threads -> InDisconnect \cup { "none" } ]
    OBVIOUS
  <2>3. /\ reads \in Nat /\ writes \in 0 .. MaxWrites
        /\ missedHeartbeats \in 0 .. maxMissedHeartbeats + 1
        /\ connects \in 0 .. MaxConnects /\ sent \in 0 .. MaxPackets
    BY ConstantsAssumption
  <2>4. buffer \in Seq(Kinds)
    BY EmptySeq
  <2> QED
    BY <2>1, <2>2, <2>3, <2>4 DEF TypeOK, AtOK
<1> HIDE DEF InitAs
<1>2. InHandInv /\ CallInv
  BY <1>0 DEF InHandInv, CallInv
<1>3. SocketInv /\ OneRead /\ ReadingInv
  <2>1. SocketInv
    BY <1>0 DEF SocketInv, Resting
  <2>2. OneRead
    BY <1>0 DEF OneRead
  <2>3. ReadingInv
    BY <1>0 DEF ReadingInv
  <2> QED
    BY <2>1, <2>2, <2>3
<1>4. ThreadInv
  BY <1>0 DEF ThreadInv
<1>5. TeardownInv /\ StartInv
  BY DEF InitAs, TeardownInv, StartInv
<1> QED
  BY <1>1, <1>2, <1>3, <1>4, <1>5 DEF IInv

(* The strengthening of the properties below is an invariant. *)
THEOREM Invariance == Spec => []IInv
<1>1. IInv /\ [Next]_vars => IInv'
  BY TypeStep, InHandStep, ReadsStep, CallStep, ThreadStep, TeardownStep,
     StartStep DEF IInv, ReadsInv
<1> QED
  BY InitIInv, <1>1, PTL DEF Spec

(***************************************************************************)
(* The five threads stay at their places, whatever runs in between.        *)
(***************************************************************************)
THEOREM TypeCorrect == Spec => []TypeOK
BY Invariance, PTL DEF IInv

(***************************************************************************)
(* There are never two reads into recvBuffer, however often the client is  *)
(* connected, disconnected and connected again.                            *)
(***************************************************************************)
THEOREM NeverTwoReads == Spec => []OneRead
BY Invariance, PTL DEF IInv

(***************************************************************************)
(* A client whose connection is up reads whenever the I/O thread is idle.  *)
(***************************************************************************)
THEOREM KeepsReading == Spec => []ConnectedIsReading
<1>1. IInv => ConnectedIsReading
  BY DEF IInv, ReadingInv, ConnectedIsReading
<1> QED
  BY <1>1, Invariance, PTL

(***************************************************************************)
(* A disconnect that went through leaves both heartbeat threads quiet.     *)
(***************************************************************************)
THEOREM DisconnectQuiets == Spec => []QuietAfterDisconnect
<1>1. IInv => QuietAfterDisconnect
  <2> SUFFICES ASSUME IInv, \A u \in Stoppable : stopping[u],
                      \A t \in Threads : inCall[t] = "none"
               PROVE  /\ \/ at["check"] \in { "none", "test", "exit" }
                         \/ "lost" \in Disconnecting /\ at["check"] = "return"
                      /\ at["beat"] \in { "none", "test", "exit" }
    BY DEF QuietAfterDisconnect, Stoppable
  <2>1. \A u \in Stoppable : ~Joining(u)
    BY DEF Joining, JoinAt, Stoppable
  <2> QED
    BY <2>1 DEF IInv, ThreadInv, Stoppable
<1> QED
  BY <1>1, Invariance, PTL

(***************************************************************************)
(* A closed client nobody is tearing down has no thread left to join.      *)
(***************************************************************************)
THEOREM ThreadsAreJoined == Spec => []NoThreadLeft
<1>1. IInv => NoThreadLeft
  <2> SUFFICES ASSUME IInv, socket = "closed", connects = 0,
                      "lost" \notin Disconnecting,
                      \A t \in Threads : inCall[t] = "none"
               PROVE  ~joinable["check"] /\ ~joinable["beat"]
    BY DEF NoThreadLeft
  <2>1. /\ \A u \in Stoppable : ~Joining(u)
        /\ ~Approaching({ "stopCheck", "setStopCheck" })
        /\ ~Approaching({ "stopCheck", "setStopCheck", "joinCheck", "stopBeat",
                          "setStopBeat" })
    BY DEF Joining, Approaching, JoinAt, Stoppable
  <2> QED
    BY <2>1 DEF IInv, TeardownInv, Stoppable
<1> QED
  BY <1>1, Invariance, PTL
=============================================================================
