------------------------ MODULE BlockingQueue_proofs ------------------------
(***************************************************************************)
(* BlockingQueue loses no wakeup, for any finite set of threads and any    *)
(* capacity.  The bounds on the two sets of contending threads are         *)
(* inductive as they stand, given the types and the bound on the queue:    *)
(* whoever adds an item brings a sleeper back to the contenders, and       *)
(* whoever leaves the contenders of one side has used an item or a place,  *)
(* or found none.                                                          *)
(***************************************************************************)
EXTENDS BlockingQueue, TLAPS, FiniteSetTheorems, SequenceTheorems

Inv == TypeOK /\ WithinCapacity /\ NoSleepingTaker /\ NoSleepingAdder

-----------------------------------------------------------------------------
(* Sets that differ by one thread.                                         *)

(* Adding an element to a finite set makes it one larger. *)
LEMMA OneMore ==
  ASSUME NEW S, NEW T, NEW x, IsFiniteSet(S), x \notin S, T = S \cup { x }
  PROVE  Cardinality(S) \in Nat /\ Cardinality(T) = Cardinality(S) + 1
BY FS_AddElement, FS_CardinalityType

(* Removing an element from a finite set makes it one smaller. *)
LEMMA OneLess ==
  ASSUME NEW S, NEW T, NEW x, IsFiniteSet(S), x \in S, T = S \ { x }
  PROVE  Cardinality(S) \in Nat /\ Cardinality(T) = Cardinality(S) - 1
BY FS_RemoveElement, FS_CardinalityType

(* Takers and adders can be counted. *)
LEMMA Contenders ==
  ASSUME TypeOK
  PROVE  /\ IsFiniteSet(Takers) /\ Cardinality(Takers) \in Nat
         /\ IsFiniteSet(Adders) /\ Cardinality(Adders) \in Nat
<1>1. Takers \subseteq Threads /\ Adders \subseteq Threads
  BY DEF Takers, Adders
<1> QED
  BY <1>1, ThreadsAssumption, FS_Subset, FS_CardinalityType

-----------------------------------------------------------------------------
(* What the sequence operations do to the queue.                           *)

(* A sequence is one shorter without one of its elements. *)
LEMMA Shorter ==
  ASSUME NEW S, NEW s \in Seq(S), NEW k \in 1 .. Len(s)
  PROVE  /\ RemoveAt(s, k) \in Seq(S)
         /\ Len(RemoveAt(s, k)) = Len(s) - 1
<1> DEFINE front == SubSeq(s, 1, k - 1)
           back  == SubSeq(s, k + 1, Len(s))
<1>1. Len(s) \in Nat /\ \A i \in 1 .. Len(s) : s[i] \in S
  BY ElementOfSeq
<1>2. front \in Seq(S) /\ Len(front) = k - 1
  <2>1. \A i \in 1 .. k - 1 : s[i] \in S
    BY <1>1
  <2>2. /\ front \in Seq(S)
        /\ Len(front) = IF 1 <= k - 1 THEN (k - 1) - 1 + 1 ELSE 0
    BY <2>1, <1>1, SubSeqProperties
  <2> QED
    BY <2>2
<1>3. back \in Seq(S) /\ Len(back) = Len(s) - k
  <2>1. \A i \in k + 1 .. Len(s) : s[i] \in S
    BY <1>1
  <2>2. /\ back \in Seq(S)
        /\ Len(back) = IF k + 1 <= Len(s) THEN Len(s) - (k + 1) + 1 ELSE 0
    BY <2>1, <1>1, SubSeqProperties
  <2> QED
    BY <2>2, <1>1
<1>4. front \o back \in Seq(S) /\ Len(front \o back) = Len(front) + Len(back)
  BY <1>2, <1>3, ConcatProperties
<1>5. RemoveAt(s, k) = front \o back
  BY DEF RemoveAt
<1>6. (k - 1) + (Len(s) - k) = Len(s) - 1
  BY <1>1
<1> HIDE DEF front, back
<1> QED
  BY <1>2, <1>3, <1>4, <1>5, <1>6, Zenon

(* Whoever takes an element leaves the queue one shorter. *)
LEMMA Removal ==
  ASSUME TypeOK, NEW t \in Threads,
         \/ Take(t) \/ TryTake(t) \/ \E i \in Items : TakeItem(t, i)
  PROVE  queue' \in Seq(Items) /\ Len(queue') = Len(queue) - 1
<1> USE DEF TypeOK
<1>1. CASE Take(t) \/ TryTake(t)
  BY <1>1, HeadTailProperties DEF Take, TryTake
<1>2. CASE \E i \in Items : TakeItem(t, i)
  <2>1. PICK k \in 1 .. Len(queue) : queue' = RemoveAt(queue, k)
    BY <1>2 DEF TakeItem
  <2> QED
    BY <2>1, Shorter
<1> QED
  BY <1>1, <1>2

-----------------------------------------------------------------------------
(* Every step of add, take or tryTake keeps the types. *)
LEMMA TypeStep ==
  ASSUME TypeOK, [Next]_vars
  PROVE  TypeOK'
<1> USE DEF TypeOK
<1>1. CASE UNCHANGED vars
  BY <1>1 DEF vars
<1>2. ASSUME NEW t \in Threads, Add(t)
      PROVE  TypeOK'
  BY <1>2, AppendProperties DEF Add, AfterNotifyOne
<1>3. ASSUME NEW t \in Threads,
             Take(t) \/ TryTake(t) \/ \E i \in Items : TakeItem(t, i)
      PROVE  TypeOK'
  <2>1. queue' \in Seq(Items)
    BY <1>3, Removal
  <2> QED
    BY <1>3, <2>1 DEF Take, TryTake, TakeItem, AfterNotifyOne
<1>4. ASSUME NEW t \in Threads,
             \/ WaitNotFull(t) \/ WaitNotEmpty(t) \/ SpuriousWakeup(t)
             \/ CallTake(t) \/ \E i \in Items : CallAdd(t, i)
      PROVE  TypeOK'
  BY <1>4 DEF WaitNotFull, WaitNotEmpty, SpuriousWakeup, CallTake, CallAdd
<1> QED
  BY <1>1, <1>2, <1>3, <1>4 DEF Next, Step, Call

(* Every step keeps the bound of the queue: only add lengthens it. *)
LEMMA CapacityStep ==
  ASSUME TypeOK, WithinCapacity, [Next]_vars
  PROVE  WithinCapacity'
<1> USE CapacityAssumption DEF WithinCapacity
<1>0. Len(queue) \in Nat
  BY DEF TypeOK
<1>1. CASE UNCHANGED vars
  BY <1>1 DEF vars
<1>2. ASSUME NEW t \in Threads, Add(t)
      PROVE  WithinCapacity'
  <2>1. Len(queue') = Len(queue) + 1
    BY <1>2, AppendProperties DEF Add, TypeOK
  <2> QED
    BY <2>1, <1>0, <1>2 DEF Add, HasRoom
<1>3. ASSUME NEW t \in Threads,
             Take(t) \/ TryTake(t) \/ \E i \in Items : TakeItem(t, i)
      PROVE  WithinCapacity'
  <2>1. Len(queue') = Len(queue) - 1
    BY <1>3, Removal
  <2> QED
    BY <2>1, <1>0
<1>4. ASSUME NEW t \in Threads,
             \/ WaitNotFull(t) \/ WaitNotEmpty(t) \/ SpuriousWakeup(t)
             \/ CallTake(t) \/ \E i \in Items : CallAdd(t, i)
      PROVE  WithinCapacity'
  BY <1>4 DEF WaitNotFull, WaitNotEmpty, SpuriousWakeup, CallTake, CallAdd
<1> QED
  BY <1>1, <1>2, <1>3, <1>4 DEF Next, Step, Call

(* No step leaves a taker asleep beside an item nobody is to take. *)
LEMMA TakerStep ==
  ASSUME TypeOK, NoSleepingTaker, [Next]_vars
  PROVE  NoSleepingTaker'
<1> SUFFICES ASSUME notEmpty' # { }
             PROVE  Len(queue') <= Cardinality(Takers')
  BY DEF NoSleepingTaker
<1>0. /\ Len(queue) \in Nat
      /\ IsFiniteSet(Takers) /\ Cardinality(Takers) \in Nat
      /\ TypeOK'
  BY Contenders, TypeStep DEF TypeOK
<1>1. CASE UNCHANGED vars
  BY <1>1 DEF vars, NoSleepingTaker, Takers
<1>2. ASSUME NEW t \in Threads, Add(t)
      PROVE  Len(queue') <= Cardinality(Takers')
  <2>1. PICK u \in notEmpty : notEmpty' = notEmpty \ { u }
    BY <1>2 DEF Add, AfterNotifyOne
  <2>2. u \notin Takers /\ Takers' = Takers \cup { u }
    BY <2>1, <1>2 DEF Takers, Add, TypeOK
  <2>3. Cardinality(Takers') = Cardinality(Takers) + 1
    BY <2>2, <1>0, OneMore
  <2>4. Len(queue') = Len(queue) + 1
    BY <1>2, AppendProperties DEF Add, TypeOK
  <2>5. Len(queue) <= Cardinality(Takers)
    BY <2>1 DEF NoSleepingTaker
  <2> QED
    BY <2>3, <2>4, <2>5, <1>0
<1>3. ASSUME NEW t \in Threads, Take(t)
      PROVE  Len(queue') <= Cardinality(Takers')
  <2>1. t \in Takers /\ Takers' = Takers \ { t }
    BY <1>3 DEF Takers, Take, TypeOK
  <2>2. Cardinality(Takers') = Cardinality(Takers) - 1
    BY <2>1, <1>0, OneLess
  <2>3. Len(queue') = Len(queue) - 1
    BY <1>3, Removal
  <2>4. Len(queue) <= Cardinality(Takers)
    BY <1>3 DEF NoSleepingTaker, Take
  <2> QED
    BY <2>2, <2>3, <2>4, <1>0
<1>4. ASSUME NEW t \in Threads,
             TryTake(t) \/ \E i \in Items : TakeItem(t, i)
      PROVE  Len(queue') <= Cardinality(Takers')
  <2>1. Takers' = Takers /\ notEmpty' = notEmpty
    BY <1>4 DEF Takers, TryTake, TakeItem
  <2>2. Len(queue') = Len(queue) - 1
    BY <1>4, Removal
  <2> QED
    BY <2>1, <2>2, <1>0 DEF NoSleepingTaker
<1>5. ASSUME NEW t \in Threads, WaitNotEmpty(t)
      PROVE  Len(queue') <= Cardinality(Takers')
  <2>1. Len(queue') = 0
    BY <1>5 DEF WaitNotEmpty
  <2>2. t \in Takers /\ Takers' = Takers \ { t }
    BY <1>5 DEF Takers, WaitNotEmpty, TypeOK
  <2>3. Cardinality(Takers) # 0
    BY <2>2, <1>0, FS_EmptySet
  <2>4. Cardinality(Takers') = Cardinality(Takers) - 1
    BY <2>2, <1>0, OneLess
  <2> QED
    BY <2>1, <2>3, <2>4, <1>0
<1>6. ASSUME NEW t \in Threads, CallTake(t)
      PROVE  Len(queue') <= Cardinality(Takers')
  <2>1. t \notin Takers /\ Takers' = Takers \cup { t }
    BY <1>6 DEF Takers, CallTake, TypeOK
  <2>2. Cardinality(Takers') = Cardinality(Takers) + 1
    BY <2>1, <1>0, OneMore
  <2> QED
    BY <1>6, <2>2, <1>0 DEF CallTake, NoSleepingTaker
<1>7. ASSUME NEW t \in Threads,
             WaitNotFull(t) \/ \E i \in Items : CallAdd(t, i)
      PROVE  Len(queue') <= Cardinality(Takers')
  <2>1. Takers' = Takers
    BY <1>7 DEF Takers, WaitNotFull, CallAdd, TypeOK
  <2> QED
    BY <1>7, <2>1 DEF WaitNotFull, CallAdd, NoSleepingTaker
<1>8. ASSUME NEW t \in Threads, SpuriousWakeup(t)
      PROVE  Len(queue') <= Cardinality(Takers')
  <2>1. queue' = queue /\ call' = call
    BY <1>8 DEF SpuriousWakeup
  <2>2. CASE t \in notEmpty /\ notEmpty' = notEmpty \ { t }
    <3>1. t \notin Takers /\ Takers' = Takers \cup { t }
      BY <2>1, <2>2 DEF Takers, TypeOK
    <3>2. Cardinality(Takers') = Cardinality(Takers) + 1
      BY <3>1, <1>0, OneMore
    <3> QED
      BY <2>1, <2>2, <3>2, <1>0 DEF NoSleepingTaker
  <2>3. CASE notEmpty' = notEmpty
    BY <2>1, <2>3 DEF Takers, NoSleepingTaker
  <2> QED
    BY <1>8, <2>2, <2>3 DEF SpuriousWakeup
<1> QED
  BY <1>1, <1>2, <1>3, <1>4, <1>5, <1>6, <1>7, <1>8 DEF Next, Step, Call

(* No step leaves an adder asleep beside room nobody is to use. *)
LEMMA AdderStep ==
  ASSUME TypeOK, NoSleepingAdder, [Next]_vars
  PROVE  NoSleepingAdder'
<1> SUFFICES ASSUME notFull' # { }
             PROVE  capacity - Len(queue') <= Cardinality(Adders')
  BY DEF NoSleepingAdder
<1> USE CapacityAssumption
<1>0. /\ Len(queue) \in Nat
      /\ IsFiniteSet(Adders) /\ Cardinality(Adders) \in Nat
      /\ TypeOK'
  BY Contenders, TypeStep DEF TypeOK
<1>1. CASE UNCHANGED vars
  BY <1>1 DEF vars, NoSleepingAdder, Adders
<1>2. ASSUME NEW t \in Threads, Add(t)
      PROVE  capacity - Len(queue') <= Cardinality(Adders')
  <2>1. t \in Adders /\ Adders' = Adders \ { t }
    BY <1>2 DEF Adders, Add, TypeOK
  <2>2. Cardinality(Adders') = Cardinality(Adders) - 1
    BY <2>1, <1>0, OneLess
  <2>3. Len(queue') = Len(queue) + 1
    BY <1>2, AppendProperties DEF Add, TypeOK
  <2>4. capacity - Len(queue) <= Cardinality(Adders)
    BY <1>2 DEF NoSleepingAdder, Add
  <2> QED
    BY <2>2, <2>3, <2>4, <1>0
<1>3. ASSUME NEW t \in Threads,
             Take(t) \/ TryTake(t) \/ \E i \in Items : TakeItem(t, i)
      PROVE  capacity - Len(queue') <= Cardinality(Adders')
  <2>1. PICK u \in notFull : notFull' = notFull \ { u }
    BY <1>3 DEF Take, TryTake, TakeItem, AfterNotifyOne
  <2>2. \A v \in Threads : call'[v] = "add" <=> call[v] = "add"
    BY <1>3 DEF Take, TryTake, TakeItem, TypeOK
  <2>3. u \notin Adders /\ Adders' = Adders \cup { u }
    BY <2>1, <2>2 DEF Adders, TypeOK
  <2>4. Cardinality(Adders') = Cardinality(Adders) + 1
    BY <2>3, <1>0, OneMore
  <2>5. Len(queue') = Len(queue) - 1
    BY <1>3, Removal
  <2>6. capacity - Len(queue) <= Cardinality(Adders)
    BY <2>1 DEF NoSleepingAdder
  <2> QED
    BY <2>4, <2>5, <2>6, <1>0
<1>4. ASSUME NEW t \in Threads, WaitNotFull(t)
      PROVE  capacity - Len(queue') <= Cardinality(Adders')
  <2>1. capacity - Len(queue') <= 0
    BY <1>4, <1>0 DEF WaitNotFull, HasRoom
  <2>2. t \in Adders /\ Adders' = Adders \ { t }
    BY <1>4 DEF Adders, WaitNotFull, TypeOK
  <2>3. Cardinality(Adders) # 0
    BY <2>2, <1>0, FS_EmptySet
  <2>4. Cardinality(Adders') = Cardinality(Adders) - 1
    BY <2>2, <1>0, OneLess
  <2>5. Len(queue') = Len(queue)
    BY <1>4 DEF WaitNotFull
  <2> QED
    BY <2>1, <2>3, <2>4, <2>5, <1>0
<1>5. ASSUME NEW t \in Threads, NEW i \in Items, CallAdd(t, i)
      PROVE  capacity - Len(queue') <= Cardinality(Adders')
  <2>1. t \notin Adders /\ Adders' = Adders \cup { t }
    BY <1>5 DEF Adders, CallAdd, TypeOK
  <2>2. Cardinality(Adders') = Cardinality(Adders) + 1
    BY <2>1, <1>0, OneMore
  <2>3. queue' = queue /\ notFull' = notFull
    BY <1>5 DEF CallAdd
  <2>4. capacity - Len(queue) <= Cardinality(Adders)
    BY <2>3 DEF NoSleepingAdder
  <2> QED
    BY <2>2, <2>3, <2>4, <1>0
<1>6. ASSUME NEW t \in Threads, CallTake(t) \/ WaitNotEmpty(t)
      PROVE  capacity - Len(queue') <= Cardinality(Adders')
  <2>1. Adders' = Adders
    BY <1>6 DEF Adders, CallTake, WaitNotEmpty, TypeOK
  <2> QED
    BY <1>6, <2>1 DEF CallTake, WaitNotEmpty, NoSleepingAdder
<1>7. ASSUME NEW t \in Threads, SpuriousWakeup(t)
      PROVE  capacity - Len(queue') <= Cardinality(Adders')
  <2>1. queue' = queue /\ call' = call
    BY <1>7 DEF SpuriousWakeup
  <2>2. CASE t \in notFull /\ notFull' = notFull \ { t }
    <3>1. t \notin Adders /\ Adders' = Adders \cup { t }
      BY <2>1, <2>2 DEF Adders, TypeOK
    <3>2. Cardinality(Adders') = Cardinality(Adders) + 1
      BY <3>1, <1>0, OneMore
    <3>3. capacity - Len(queue) <= Cardinality(Adders)
      BY <2>2 DEF NoSleepingAdder
    <3> QED
      BY <2>1, <3>2, <3>3, <1>0
  <2>3. CASE notFull' = notFull
    BY <2>1, <2>3 DEF Adders, NoSleepingAdder
  <2> QED
    BY <1>7, <2>2, <2>3 DEF SpuriousWakeup
<1> QED
  BY <1>1, <1>2, <1>3, <1>4, <1>5, <1>6, <1>7 DEF Next, Step, Call

-----------------------------------------------------------------------------
(* The inductive invariant holds throughout.                               *)
THEOREM Invariance == Spec => []Inv
<1>1. Init => Inv
  BY CapacityAssumption, EmptySeq
     DEF Init, Inv, TypeOK, WithinCapacity, NoSleepingTaker, NoSleepingAdder
<1>2. Inv /\ [Next]_vars => Inv'
  BY TypeStep, CapacityStep, TakerStep, AdderStep DEF Inv
<1> QED
  BY <1>1, <1>2, PTL DEF Spec

(***************************************************************************)
(* A thread that sleeps is in the call it sleeps in, and the queue holds   *)
(* items only.                                                             *)
(***************************************************************************)
THEOREM TypeCorrect == Spec => []TypeOK
BY Invariance, PTL DEF Inv

(***************************************************************************)
(* The queue never outgrows its capacity, though add tests for room before *)
(* it sleeps and again after, with other threads in between.               *)
(***************************************************************************)
THEOREM NeverOverfull == Spec => []WithinCapacity
BY Invariance, PTL DEF Inv

(***************************************************************************)
(* add's and take's notifications suffice: nobody sleeps in take() while   *)
(* there is an item that no awake thread is on its way to take.            *)
(***************************************************************************)
THEOREM TakersWoken == Spec => []NoSleepingTaker
BY Invariance, PTL DEF Inv

(***************************************************************************)
(* The same for add and free places, which tryTake and take(item) make as  *)
(* well as take().                                                         *)
(***************************************************************************)
THEOREM AddersWoken == Spec => []NoSleepingAdder
BY Invariance, PTL DEF Inv
=============================================================================
