--------------------------- MODULE Listener_proofs ---------------------------
(***************************************************************************)
(* The safety of the Listener's list of clients, for any finite number of  *)
(* io threads, connections, starts and outstanding accepts.                *)
(***************************************************************************)
EXTENDS Listener, SequenceTheorems, TLAPS

-----------------------------------------------------------------------------
(***************************************************************************)
(* What the queue's operations do to the clients listed.                   *)
(***************************************************************************)
(* A sequence without its k-th element. *)
LEMMA RemoveAtElements ==
  ASSUME NEW S, NEW s \in Seq(S), NEW k \in 1 .. Len(s)
  PROVE  /\ RemoveAt(s, k) \in Seq(S)
         /\ Len(RemoveAt(s, k)) = Len(s) - 1
         /\ \A j \in 1 .. Len(s) - 1 :
              RemoveAt(s, k)[j] = IF j < k THEN s[j] ELSE s[j + 1]
<1> DEFINE front == SubSeq(s, 1, k - 1)
           back  == SubSeq(s, k + 1, Len(s))
<1>0. Len(s) \in Nat /\ \A i \in 1 .. Len(s) : s[i] \in S
  BY ElementOfSeq
<1>1. /\ front \in Seq(S) /\ Len(front) = k - 1
      /\ \A i \in 1 .. k - 1 : front[i] = s[i]
  OBVIOUS
<1>2. /\ back \in Seq(S) /\ Len(back) = Len(s) - k
      /\ \A i \in 1 .. Len(s) - k : back[i] = s[k + i]
  OBVIOUS
<1>3. RemoveAt(s, k) = front \o back
  BY DEF RemoveAt
<1> HIDE DEF front, back
<1>4. /\ front \o back \in Seq(S)
      /\ Len(front \o back) = Len(front) + Len(back)
      /\ \A i \in 1 .. Len(front) + Len(back) : (front \o back)[i] =
           IF i <= Len(front) THEN front[i] ELSE back[i - Len(front)]
  BY <1>1, <1>2, ConcatProperties
<1>5. Len(front) + Len(back) = Len(s) - 1
  BY <1>0, <1>1, <1>2
<1>6. ASSUME NEW j \in 1 .. Len(s) - 1
      PROVE  (front \o back)[j] = IF j < k THEN s[j] ELSE s[j + 1]
  <2>1. CASE j < k
    <3>1. j \in 1 .. k - 1 /\ j <= Len(front)
      BY <1>0, <1>1, <2>1
    <3> QED
      BY <1>1, <1>4, <1>5, <2>1, <3>1
  <2>2. CASE ~(j < k)
    <3>1. /\ j - (k - 1) \in 1 .. Len(s) - k /\ ~(j <= Len(front))
          /\ k + (j - (k - 1)) = j + 1
      BY <1>0, <1>1, <2>2
    <3>2. (front \o back)[j] = back[j - (k - 1)]
      BY <1>1, <1>4, <1>5, <3>1
    <3> QED
      BY <1>2, <2>2, <3>1, <3>2
  <2> QED
    BY <2>1, <2>2
<1> QED
  BY <1>3, <1>4, <1>5, <1>6

(* The first occurrence of an element that occurs once is that one. *)
LEMMA RemoveFirstIsRemoveAt ==
  ASSUME NEW S, NEW s \in Seq(S), IsInjective(s), NEW k \in 1 .. Len(s)
  PROVE  RemoveFirst(s, s[k]) = RemoveAt(s, k)
<1>1. { i \in 1 .. Len(s) : s[i] = s[k] } = { k }
  BY DEF IsInjective
<1>2. Min({ k }) = k
  BY DEF Min
<1>3. SelectInSeq(s, LAMBDA v : v = s[k]) = k
  BY <1>1, <1>2 DEF SelectInSeq
<1> QED
  BY <1>3 DEF RemoveFirst

(* A sequence lists nothing twice, nor without an element that is gone. *)
LEMMA RemoveFirstProperties ==
  ASSUME NEW S, NEW s \in Seq(S), IsInjective(s), NEW c
  PROVE  /\ RemoveFirst(s, c) \in Seq(S)
         /\ IsInjective(RemoveFirst(s, c))
         /\ ToSet(RemoveFirst(s, c)) = ToSet(s) \ { c }
<1>0. Len(s) \in Nat /\ DOMAIN s = 1 .. Len(s)
  OBVIOUS
<1>1. CASE c \notin ToSet(s)
  <2>1. RemoveFirst(s, c) = s
    BY <1>0, <1>1 DEF RemoveFirst, ToSet
  <2> QED
    BY <1>1, <2>1
<1>2. CASE c \in ToSet(s)
  <2>1. PICK k \in 1 .. Len(s) : s[k] = c
    BY <1>0, <1>2 DEF ToSet
  <2> DEFINE r == RemoveAt(s, k)
  <2>2. RemoveFirst(s, c) = r
    BY <2>1, RemoveFirstIsRemoveAt
  <2>3. /\ r \in Seq(S) /\ Len(r) = Len(s) - 1
        /\ \A j \in 1 .. Len(s) - 1 : r[j] = IF j < k THEN s[j] ELSE s[j + 1]
    BY RemoveAtElements
  <2>4. DOMAIN r = 1 .. Len(s) - 1
    BY <2>3
  <2> HIDE DEF r
  <2>5. IsInjective(r)
    <3> SUFFICES ASSUME NEW i \in 1 .. Len(s) - 1, NEW j \in 1 .. Len(s) - 1,
                        r[i] = r[j]
                 PROVE  i = j
      BY <2>4 DEF IsInjective
    <3> DEFINE p(n) == IF n < k THEN n ELSE n + 1
    <3>1. r[i] = s[p(i)] /\ r[j] = s[p(j)]
      BY <2>3
    <3>2. p(i) \in DOMAIN s /\ p(j) \in DOMAIN s
      BY <1>0
    <3>3. p(i) = p(j)
      BY <3>1, <3>2 DEF IsInjective
    <3> QED
      BY <1>0, <3>3
  <2>6. ToSet(r) \subseteq ToSet(s) \ { c }
    <3> SUFFICES ASSUME NEW i \in 1 .. Len(s) - 1
                 PROVE  r[i] \in ToSet(s) \ { c }
      BY <2>4 DEF ToSet
    <3> DEFINE p == IF i < k THEN i ELSE i + 1
    <3>1. r[i] = s[p] /\ p \in DOMAIN s /\ p # k
      BY <1>0, <2>3
    <3> QED
      BY <1>0, <2>1, <3>1 DEF IsInjective, ToSet
  <2>7. ToSet(s) \ { c } \subseteq ToSet(r)
    <3> SUFFICES ASSUME NEW i \in 1 .. Len(s), s[i] # c
                 PROVE  \E j \in 1 .. Len(s) - 1 : r[j] = s[i]
      BY <1>0, <2>4 DEF ToSet
    <3> DEFINE p == IF i < k THEN i ELSE i - 1
    <3>1. i # k
      BY <2>1
    <3>2. p \in 1 .. Len(s) - 1 /\ (IF p < k THEN p ELSE p + 1) = i
      BY <1>0, <3>1
    <3> HIDE DEF p
    <3>3. r[p] = IF p < k THEN s[p] ELSE s[p + 1]
      BY <2>3, <3>2
    <3> QED
      BY <3>2, <3>3
  <2> QED
    BY <2>2, <2>3, <2>5, <2>6, <2>7
<1> QED
  BY <1>1, <1>2

(* A client that is not listed is added behind the others. *)
LEMMA AppendElements ==
  ASSUME NEW S, NEW s \in Seq(S), IsInjective(s), NEW c \in S, c \notin ToSet(s)
  PROVE  /\ Append(s, c) \in Seq(S)
         /\ IsInjective(Append(s, c))
         /\ ToSet(Append(s, c)) = ToSet(s) \cup { c }
<1> DEFINE a == Append(s, c)
<1>1. /\ a \in Seq(S) /\ Len(a) = Len(s) + 1
      /\ \A i \in 1 .. Len(s) : a[i] = s[i]
      /\ a[Len(s) + 1] = c
  BY AppendProperties
<1>2. /\ Len(s) \in Nat /\ DOMAIN s = 1 .. Len(s)
      /\ DOMAIN a = 1 .. Len(s) + 1
  BY <1>1
<1> HIDE DEF a
<1>3. \A i \in DOMAIN s : s[i] # c
  BY DEF ToSet
<1>4. IsInjective(a)
  BY <1>1, <1>2, <1>3 DEF IsInjective
<1>5. ToSet(a) = ToSet(s) \cup { c }
  BY <1>1, <1>2 DEF ToSet
<1> QED
  BY <1>1, <1>4, <1>5 DEF a

-----------------------------------------------------------------------------
(***************************************************************************)
(* The inductive invariant.  That a client is listed once rests on its     *)
(* being added once: the accept handlers that are not done yet handle      *)
(* different connections, none of them added.  That a report takes the     *)
(* client out rests on its handlers being set when it is added.            *)
(***************************************************************************)
(* An accept handler that has a connection and has not added it yet. *)
HasClient(t) == at[t] \in { "accepted", "setDisconnected", "setLost", "add" }

(* The connection was given to the socket, whatever became of it. *)
Taken(c) == connection[c] \in { "open", "broken", "closed" }

HandlingInv ==
  /\ \A t \in IoThreads : HasClient(t) =>
        /\ handling[t] \in Connections \ added
        /\ Taken(handling[t])
        /\ at[t] = "setLost" => "disconnected" \in handlers[handling[t]]
        /\ at[t] = "add" => { "lost", "disconnected" } = handlers[handling[t]]
  /\ \A t, u \in IoThreads :
        HasClient(t) /\ HasClient(u) /\ handling[t] = handling[u] => t = u

AddedInv ==
  /\ \A c \in added : Taken(c) /\ handlers[c] = { "lost", "disconnected" }
  /\ ToSet(networkClients) \subseteq added

IInv == TypeOK /\ HandlingInv /\ AddedInv /\ LiveClientsListed

-----------------------------------------------------------------------------
(* What a report does to the list. *)
LEMMA ReportType ==
  ASSUME TypeOK, LiveClientsListed, NEW c \in Connections,
         NEW e \in { "lost", "disconnected" }, Report(c, e)
  PROVE  /\ networkClients' \in Seq(Connections)
         /\ IsInjective(networkClients')
         /\ ToSet(networkClients') \in { ToSet(networkClients),
                                         ToSet(networkClients) \ { c } }
         /\ e \in handlers[c] =>
              ToSet(networkClients') = ToSet(networkClients) \ { c }
         /\ reported' = reported \cup { c }
         /\ UNCHANGED << handlers, added >>
<1>1. /\ Take(c) \in Seq(Connections)
      /\ IsInjective(Take(c))
      /\ ToSet(Take(c)) = ToSet(networkClients) \ { c }
  BY RemoveFirstProperties DEF TypeOK, LiveClientsListed, Take
<1> QED
  BY <1>1 DEF Report, TypeOK, LiveClientsListed

(* What the end of an accept handler does to the list. *)
LEMMA AddType ==
  ASSUME IInv, NEW t \in IoThreads, AddClient(t)
  PROVE  /\ networkClients' \in Seq(Connections)
         /\ IsInjective(networkClients')
         /\ ToSet(networkClients') = ToSet(networkClients) \cup { handling[t] }
<1>1. handling[t] \in Connections /\ handling[t] \notin ToSet(networkClients)
  BY DEF AddClient, IInv, HandlingInv, AddedInv, HasClient
<1> QED
  BY <1>1, AppendElements DEF AddClient, IInv, TypeOK, LiveClientsListed

(* Every step keeps the types; the socket has one connection at a time. *)
LEMMA TypeStep ==
  ASSUME IInv, [Next]_vars
  PROVE  TypeOK'
<1> USE ConstantsAssumption DEF IInv
<1>1. CASE UNCHANGED vars
  BY <1>1 DEF TypeOK, vars, control, pending, clients, listed, OnSocket
<1>2. CASE AppStep \/ AppCall
  <2>1. CASE StartAccepting
    <3>1. starts' \in Loops /\ starts' \in Nat
      BY <2>1 DEF StartAccepting, TypeOK, Loops
    <3> QED
      BY <2>1, <3>1
      DEF StartAccepting, TypeOK, Goto, pending, clients, listed, OnSocket,
          Loops
  <2>2. CASE AssignFuture
    BY <2>2
    DEF AssignFuture, TypeOK, pending, clients, listed, OnSocket
  <2>3. CASE StopAccepting
    BY <2>3
    DEF StopAccepting, TypeOK, pending, clients, listed, OnSocket
  <2>4. CASE WaitForFuture
    BY <2>4
    DEF WaitForFuture, TypeOK, pending, clients, listed, OnSocket
  <2> QED
    BY <1>2, <2>1, <2>2, <2>3, <2>4 DEF AppStep, AppCall
<1>3. ASSUME NEW t \in IoThreads \cup Loops, LoopStep(t)
      PROVE  TypeOK'
  <2>1. CASE LoopTest(t)
    BY <2>1
    DEF LoopTest, TypeOK, Goto, Behind, control, pending, clients, listed,
        OnSocket
  <2>2. CASE StartAccept(t)
    BY <2>2
    DEF StartAccept, TypeOK, Goto, OneMore, control, clients, listed, OnSocket
  <2> QED
    BY <1>3, <2>1, <2>2 DEF LoopStep
<1>4. ASSUME NEW t \in IoThreads, IoStep(t)
      PROVE  TypeOK'
  <2>1. ASSUME NEW c \in Connections, HandleAccept(t, c)
        PROVE  TypeOK'
    BY <2>1
    DEF HandleAccept, TypeOK, Goto, control, clients, listed, OnSocket, IsOpen
  <2>2. ASSUME NEW c \in Connections, ReadFails(t, c)
        PROVE  TypeOK'
    BY <2>2, ReportType
    DEF ReadFails, TypeOK, control, pending, OnSocket
  <2>3. CASE HandleError(t)
    BY <2>3
    DEF HandleError, TypeOK, Goto, control, clients, listed, OnSocket
  <2>4. CASE ConstructClient(t)
    <3>1. handling[t] \in Connections
      BY <2>4 DEF ConstructClient, HandlingInv, HasClient
    <3> QED
      BY <2>4, <3>1
      DEF ConstructClient, TypeOK, Goto, control, pending, clients, listed,
          OnSocket
  <2>5. CASE SetOnClientDisconnectedHandler(t)
    BY <2>5
    DEF SetOnClientDisconnectedHandler, SetHandler, TypeOK, Goto, control,
        pending, clients, OnSocket
  <2>6. CASE SetOnConnectionLostHandler(t)
    BY <2>6
    DEF SetOnConnectionLostHandler, SetHandler, TypeOK, Goto, control, pending,
        clients, OnSocket
  <2>7. CASE AddClient(t)
    <3>1. handling[t] \in Connections
      BY <2>7 DEF AddClient, HandlingInv, HasClient
    <3> QED
      BY <2>7, <3>1, AddType
      DEF AddClient, TypeOK, Goto, control, pending, clients, OnSocket
  <2> QED
    BY <1>3, <1>4, <2>1, <2>2, <2>3, <2>4, <2>5, <2>6, <2>7 DEF IoStep
<1>5. ASSUME NEW c \in Connections, ClientStep(c)
      PROVE  TypeOK'
  <2>1. CASE GoodbyeIsHandled(c)
    BY <2>1, ReportType
    DEF GoodbyeIsHandled, TypeOK, control, pending, clients, OnSocket
  <2>2. CASE MissedHeartbeats(c)
    BY <2>2, ReportType
    DEF MissedHeartbeats, TypeOK, control, pending, clients, OnSocket
  <2>3. CASE Disconnect(c)
    BY <2>3 DEF Disconnect, TypeOK, control, listed, OnSocket
  <2>4. CASE EndDisconnect(c)
    BY <2>4 DEF EndDisconnect, TypeOK, control, pending, listed, OnSocket
  <2> QED
    BY <1>5, <2>1, <2>2, <2>3, <2>4 DEF ClientStep
<1>6. ASSUME NEW c \in Connections, Network(c)
      PROVE  TypeOK'
  BY <1>6
  DEF Network, PeerCloses, AcceptEnds, TypeOK, control, clients, listed,
      OnSocket
<1> QED
  BY <1>1, <1>2, <1>3, <1>4, <1>5, <1>6 DEF Next

(* A step that touches neither connections, handlers nor lists, and moves  *)
(* no thread to a place where it has a client, keeps the invariant.        *)
LEMMA OtherPlaces ==
  ASSUME IInv,
         UNCHANGED << handling, connection, listed >>,
         \A t \in IoThreads : at'[t] = at[t] \/ ~HasClient(t)'
  PROVE  (HandlingInv /\ AddedInv /\ LiveClientsListed)'
<1>1. \A t \in IoThreads : HasClient(t)' => at'[t] = at[t] /\ HasClient(t)
  BY DEF HasClient
<1>2. HandlingInv'
  BY <1>1 DEF IInv, HandlingInv, Taken, listed
<1> QED
  BY <1>2 DEF IInv, AddedInv, LiveClientsListed, IsListed, Taken, listed

(* Connections once taken stay taken, and nothing else changes here. *)
LEMMA ConnectionsMove ==
  ASSUME IInv,
         UNCHANGED << at, handling, listed >>,
         \A c \in Connections : Taken(c) => Taken(c)'
  PROVE  (HandlingInv /\ AddedInv /\ LiveClientsListed)'
<1>1. added \subseteq Connections
  BY DEF IInv, TypeOK
<1>2. HandlingInv'
  BY DEF IInv, HandlingInv, HasClient, listed
<1>3. AddedInv'
  BY <1>1 DEF IInv, AddedInv, listed
<1> QED
  BY <1>2, <1>3 DEF IInv, LiveClientsListed, IsListed, listed

(* A report of a client that is in the list takes it out, any other report *)
(* leaves the list as it is.                                               *)
LEMMA ReportStep ==
  ASSUME IInv, NEW c \in Connections, NEW e \in { "lost", "disconnected" },
         Report(c, e), UNCHANGED << at, handling, connection >>
  PROVE  (HandlingInv /\ AddedInv /\ LiveClientsListed)'
<1>1. /\ IsInjective(networkClients')
      /\ ToSet(networkClients') \in { ToSet(networkClients),
                                      ToSet(networkClients) \ { c } }
      /\ reported' = reported \cup { c }
      /\ UNCHANGED << handlers, added >>
  BY ReportType DEF IInv
<1>2. HandlingInv'
  BY <1>1 DEF IInv, HandlingInv, HasClient, Taken
<1>3. AddedInv'
  BY <1>1 DEF IInv, AddedInv, Taken
<1>4. LiveClientsListed'
  BY <1>1 DEF IInv, LiveClientsListed, IsListed
<1> QED
  BY <1>2, <1>3, <1>4

(* A connection is taken by one io thread: it was nobody's before. *)
LEMMA HandleAcceptStep ==
  ASSUME IInv, NEW t \in IoThreads, NEW c \in Connections, HandleAccept(t, c)
  PROVE  (HandlingInv /\ AddedInv /\ LiveClientsListed)'
<1> USE DEF IInv
<1>1. /\ ~Taken(c) /\ c \notin added /\ ~HasClient(t)
      /\ \A u \in IoThreads : HasClient(u) => handling[u] # c
  BY DEF HandleAccept, Taken, HandlingInv, AddedInv, HasClient
<1>2. /\ \A d \in Connections : d # c => connection'[d] = connection[d]
      /\ \A u \in IoThreads : u # t =>
            at'[u] = at[u] /\ handling'[u] = handling[u]
      /\ UNCHANGED listed
  BY DEF HandleAccept, Goto, TypeOK
<1>3. \/ at'[t] = "test"
      \/ at'[t] = "accepted" /\ handling'[t] = c /\ Taken(c)'
  BY DEF HandleAccept, Goto, TypeOK, Taken
<1>4. HandlingInv'
  BY <1>1, <1>2, <1>3 DEF HandlingInv, HasClient, Taken, listed
<1>5. AddedInv'
  BY <1>1, <1>2 DEF AddedInv, Taken, listed, TypeOK
<1> QED
  BY <1>2, <1>4, <1>5 DEF LiveClientsListed, IsListed, listed

(* The handlers of a client are set while it is not added yet. *)
LEMMA SetHandlerStep ==
  ASSUME IInv, NEW t \in IoThreads,
         SetOnClientDisconnectedHandler(t) \/ SetOnConnectionLostHandler(t)
  PROVE  (HandlingInv /\ AddedInv /\ LiveClientsListed)'
<1> USE DEF IInv
<1> DEFINE c == handling[t]
<1>1. c \in Connections \ added /\ HasClient(t) /\ HasClient(t)'
  BY DEF SetOnClientDisconnectedHandler, SetOnConnectionLostHandler, SetHandler,
         Goto, HandlingInv, HasClient, TypeOK
<1>2. /\ \A d \in Connections : d # c => handlers'[d] = handlers[d]
      /\ \A u \in IoThreads : u # t => at'[u] = at[u]
      /\ UNCHANGED << handling, connection, networkClients, added, reported >>
  BY DEF SetOnClientDisconnectedHandler, SetOnConnectionLostHandler, SetHandler,
         Goto, TypeOK, pending
<1>3. /\ at'[t] # "accepted"
      /\ at'[t] = "setLost" => "disconnected" \in handlers'[c]
      /\ at'[t] = "add" => { "lost", "disconnected" } = handlers'[c]
  <2>1. CASE SetOnClientDisconnectedHandler(t)
    BY <1>1, <2>1
    DEF SetOnClientDisconnectedHandler, SetHandler, Goto, TypeOK
  <2>2. CASE SetOnConnectionLostHandler(t)
    <3>1. "disconnected" \in handlers[c]
          /\ handlers[c] \subseteq { "lost", "disconnected" }
      BY <1>1, <2>2
      DEF SetOnConnectionLostHandler, SetHandler, HandlingInv, TypeOK
    <3> QED
      BY <1>1, <2>2, <3>1
      DEF SetOnConnectionLostHandler, SetHandler, Goto, TypeOK
  <2> QED
    BY <2>1, <2>2
<1>4. HandlingInv'
  <2>1. \A u \in IoThreads : u # t /\ HasClient(u) => handling[u] # c
    BY <1>1 DEF HandlingInv
  <2> QED
    BY <1>1, <1>2, <1>3, <2>1 DEF HandlingInv, HasClient, Taken
<1>5. AddedInv'
  BY <1>1, <1>2 DEF AddedInv, Taken, TypeOK
<1> QED
  BY <1>2, <1>4, <1>5 DEF LiveClientsListed, IsListed

(* The client that is added was in no list, and has both its handlers. *)
LEMMA AddClientStep ==
  ASSUME IInv, NEW t \in IoThreads, AddClient(t)
  PROVE  (HandlingInv /\ AddedInv /\ LiveClientsListed)'
<1> USE DEF IInv
<1> DEFINE c == handling[t]
<1>1. /\ c \in Connections \ added /\ Taken(c) /\ HasClient(t)
      /\ handlers[c] = { "lost", "disconnected" }
      /\ \A u \in IoThreads : u # t /\ HasClient(u) => handling[u] # c
  BY DEF AddClient, HandlingInv, HasClient
<1>2. /\ IsInjective(networkClients')
      /\ ToSet(networkClients') = ToSet(networkClients) \cup { c }
      /\ added' = added \cup { c }
      /\ UNCHANGED << connection, handlers, reported >>
  BY AddType DEF AddClient, pending
<1>3. /\ \A u \in IoThreads : u # t =>
            at'[u] = at[u] /\ handling'[u] = handling[u]
      /\ at'[t] = "test"
  BY DEF AddClient, Goto, TypeOK
<1>4. HandlingInv'
  BY <1>1, <1>2, <1>3 DEF HandlingInv, HasClient, Taken
<1>5. AddedInv'
  BY <1>1, <1>2 DEF AddedInv, Taken
<1>6. LiveClientsListed'
  BY <1>2 DEF LiveClientsListed, IsListed
<1> QED
  BY <1>4, <1>5, <1>6

(* Every step keeps the rest of the invariant. *)
LEMMA InvStep ==
  ASSUME IInv, [Next]_vars
  PROVE  (HandlingInv /\ AddedInv /\ LiveClientsListed)'
<1> USE ConstantsAssumption
<1>1. CASE UNCHANGED vars
  BY <1>1, OtherPlaces DEF vars, pending
<1>2. CASE AppStep \/ AppCall
  <2>1. /\ UNCHANGED << handling, connection, listed >>
        /\ \A t \in IoThreads : at'[t] = at[t]
    BY <1>2
    DEF AppStep, AppCall, AssignFuture, WaitForFuture, StartAccepting,
        StopAccepting, Goto, pending, IInv, TypeOK, Loops
  <2> QED
    BY <2>1, OtherPlaces
<1>3. ASSUME NEW t \in IoThreads \cup Loops, LoopStep(t) \/ HandleError(t)
      PROVE  (HandlingInv /\ AddedInv /\ LiveClientsListed)'
  <2>1. /\ UNCHANGED << handling, connection, listed >>
        /\ \A u \in IoThreads : at'[u] = at[u] \/ ~HasClient(u)'
    BY <1>3
    DEF LoopStep, LoopTest, StartAccept, HandleError, Goto, Behind, pending,
        IInv, TypeOK, HasClient
  <2> QED
    BY <2>1, OtherPlaces
<1>4. ASSUME NEW t \in IoThreads, ConstructClient(t)
      PROVE  (HandlingInv /\ AddedInv /\ LiveClientsListed)'
  <2>1. /\ UNCHANGED << handling, connection, listed >>
        /\ \A u \in IoThreads : u # t => at'[u] = at[u]
        /\ at[t] = "accepted" /\ at'[t] \in { "thrown", "setDisconnected" }
    BY <1>4 DEF ConstructClient, Goto, pending, IInv, TypeOK
  <2>2. HandlingInv'
    BY <2>1 DEF IInv, HandlingInv, HasClient, Taken, listed
  <2> QED
    BY <2>1, <2>2
    DEF IInv, AddedInv, LiveClientsListed, IsListed, Taken, listed
<1>5. ASSUME NEW t \in IoThreads, IoStep(t)
      PROVE  (HandlingInv /\ AddedInv /\ LiveClientsListed)'
  <2>1. ASSUME NEW c \in Connections, ReadFails(t, c)
        PROVE  (HandlingInv /\ AddedInv /\ LiveClientsListed)'
    BY <2>1, ReportStep DEF ReadFails, pending
  <2> QED
    BY <1>3, <1>4, <1>5, <2>1, HandleAcceptStep, SetHandlerStep, AddClientStep
    DEF IoStep
<1>6. ASSUME NEW c \in Connections, ClientStep(c) \/ Network(c)
      PROVE  (HandlingInv /\ AddedInv /\ LiveClientsListed)'
  <2>1. CASE GoodbyeIsHandled(c) \/ MissedHeartbeats(c)
    BY <2>1, ReportStep DEF GoodbyeIsHandled, MissedHeartbeats, pending
  <2>2. CASE Disconnect(c) \/ EndDisconnect(c) \/ Network(c)
    <3>1. /\ UNCHANGED << at, handling, listed >>
          /\ \A d \in Connections : Taken(d) => Taken(d)'
      BY <2>2
      DEF Disconnect, EndDisconnect, Network, PeerCloses, AcceptEnds, pending,
          IInv, TypeOK, Taken, OnSocket
    <3> QED
      BY <3>1, ConnectionsMove
  <2> QED
    BY <1>6, <2>1, <2>2 DEF ClientStep
<1> QED
  BY <1>1, <1>2, <1>3, <1>5, <1>6 DEF Next

-----------------------------------------------------------------------------
(***************************************************************************)
(* IInv is inductive.                                                      *)
(***************************************************************************)
THEOREM Invariance == Spec => []IInv
<1>1. Init => IInv
  <2> SUFFICES ASSUME Init
               PROVE  IInv
    OBVIOUS
  <2>1. TypeOK
    <3>1. /\ DOMAIN at = IoThreads \cup Loops
          /\ \A k \in Loops : at[k] = "none"
          /\ \A t \in IoThreads : at[t] = "idle"
      BY ConstantsAssumption DEF Init
    <3>2. OnSocket = { }
      BY DEF Init, OnSocket
    <3>3. /\ starts \in 0 .. MaxStarts /\ acceptFuture \in 0 .. starts
          /\ accepts \in 0 .. MaxAccepts /\ errors \in 0 .. MaxAccepts
          /\ networkClients \in Seq(Connections)
      BY ConstantsAssumption DEF Init
    <3>4. /\ running \in BOOLEAN /\ app = "idle"
          /\ handling \in [ IoThreads -> Connections \cup { "none" } ]
          /\ connection \in [ Connections -> { "waiting" } ]
          /\ handlers \in [ Connections -> SUBSET { "lost", "disconnected" } ]
          /\ reading \cup connected \cup checking \cup leaving \cup added
               \cup reported = { }
      BY DEF Init
    <3> QED
      BY <3>1, <3>2, <3>3, <3>4 DEF TypeOK
  <2>2. HandlingInv /\ AddedInv
    BY DEF Init, HandlingInv, AddedInv, HasClient, ToSet
  <2>3. LiveClientsListed
    BY DEF Init, LiveClientsListed, IsInjective
  <2> QED
    BY <2>1, <2>2, <2>3 DEF IInv
<1>2. IInv /\ [Next]_vars => IInv'
  BY TypeStep, InvStep DEF IInv
<1> QED
  BY <1>1, <1>2, PTL DEF Spec

(***************************************************************************)
(* Listener.cpp: every variable keeps its type, and the socket all clients *)
(* share has one connection at a time.                                     *)
(***************************************************************************)
THEOREM TypeCorrect == Spec => []TypeOK
<1>1. IInv => TypeOK
  BY DEF IInv
<1> QED
  BY <1>1, Invariance, PTL

(***************************************************************************)
(* The accept handler and the clients' handlers, Listener.cpp 124-142 and  *)
(* 177-197: whatever the threads and whichever clients are reported, a     *)
(* client that was added and not reported is in networkClients, and no     *)
(* client is in it twice.                                                  *)
(***************************************************************************)
THEOREM LiveClientsStayListed == Spec => []LiveClientsListed
<1>1. IInv => LiveClientsListed
  BY DEF IInv
<1> QED
  BY <1>1, Invariance, PTL

-----------------------------------------------------------------------------
(***************************************************************************)
(* The refinement.  An accept handler's add lists its client, a call of a  *)
(* client's handlers reports it; every other step is invisible above.      *)
(***************************************************************************)
(* What the registry's status of a client is. *)
Status(c) == IF c \notin added THEN "new"
             ELSE IF IsListed(c) THEN "listed" ELSE "gone"

(* What AddClient does is a List of its client. *)
LEMMA AddIsList ==
  ASSUME IInv, NEW t \in IoThreads, AddClient(t)
  PROVE  \E c \in Connections : Registry!List(c)
<1>1. PICK c \in Connections \ added : c = handling[t]
  BY DEF AddClient, IInv, HandlingInv, HasClient
<1>2. /\ ToSet(networkClients') = ToSet(networkClients) \cup { c }
      /\ added' = added \cup { c }
      /\ UNCHANGED reported
  BY <1>1, AddType DEF AddClient
<1>3. Status(c) = "new" /\ Status(c)' = "listed"
  BY <1>1, <1>2 DEF Status, IsListed
<1>4. \A d \in Connections : d # c => Status(d)' = Status(d)
  BY <1>2 DEF Status, IsListed
<1>5. Registry!List(c)
  BY <1>1, <1>2, <1>3, <1>4 DEF Registry!List, Status
<1> QED
  BY <1>5

(* A report of a client that is not listed changes nothing above: it was   *)
(* not added yet, or is gone.                                              *)
LEMMA ReportIsReport ==
  ASSUME IInv, NEW c \in Connections, NEW e \in { "lost", "disconnected" },
         Report(c, e)
  PROVE  Registry!Report(c)
<1>1. /\ ToSet(networkClients') \in { ToSet(networkClients),
                                      ToSet(networkClients) \ { c } }
      /\ e \in handlers[c] =>
           ToSet(networkClients') = ToSet(networkClients) \ { c }
      /\ reported' = reported \cup { c }
      /\ UNCHANGED added
  BY ReportType DEF IInv
<1>2. c \in added => ToSet(networkClients') = ToSet(networkClients) \ { c }
  BY <1>1 DEF IInv, AddedInv
<1>3. Status(c)' = IF Status(c) = "listed" THEN "gone" ELSE Status(c)
  BY <1>1, <1>2 DEF Status, IsListed
<1>4. \A d \in Connections : d # c => Status(d)' = Status(d)
  BY <1>1 DEF Status, IsListed
<1> QED
  BY <1>1, <1>3, <1>4 DEF Registry!Report, Status

(***************************************************************************)
(* The queue of clients and the handlers that change it, Listener.cpp      *)
(* 124-142 and 177-197, implement ClientRegistry: a client is listed once, *)
(* and a report of a listed client takes that client out and no other.     *)
(***************************************************************************)
THEOREM QueueImplementsRegistry == Spec => ImplementsRegistry
<1>1. Init => Registry!Init
  BY DEF Init, Registry!Init
<1>2. IInv /\ [Next]_vars => [Registry!Next]_Registry!vars
  <2> SUFFICES ASSUME IInv, [Next]_vars
               PROVE  [Registry!Next]_Registry!vars
    OBVIOUS
  <2>1. ASSUME NEW t \in IoThreads, AddClient(t)
        PROVE  Registry!Next
    BY <2>1, AddIsList DEF Registry!Next
  <2>2. ASSUME NEW c \in Connections, NEW e \in { "lost", "disconnected" },
               Report(c, e)
        PROVE  Registry!Next
    BY <2>2, ReportIsReport DEF Registry!Next
  <2>3. CASE UNCHANGED << networkClients, added, reported >>
    BY <2>3 DEF Registry!vars, IsListed
  <2>4. \/ \E t \in IoThreads : AddClient(t)
        \/ \E c \in Connections, e \in { "lost", "disconnected" } : Report(c, e)
        \/ UNCHANGED << networkClients, added, reported >>
    BY DEF Next, vars, listed, clients, AppStep, AppCall, LoopStep, IoStep,
           ClientStep, Network, AssignFuture, WaitForFuture, StartAccepting,
           StopAccepting, LoopTest, StartAccept, HandleAccept, ReadFails,
           HandleError, ConstructClient, SetOnClientDisconnectedHandler,
           SetOnConnectionLostHandler, SetHandler, GoodbyeIsHandled,
           MissedHeartbeats, Disconnect, EndDisconnect, PeerCloses, AcceptEnds
  <2> QED
    BY <2>1, <2>2, <2>3, <2>4
<1> QED
  BY <1>1, <1>2, Invariance, PTL DEF Spec, ImplementsRegistry, Registry!Spec
=============================================================================
