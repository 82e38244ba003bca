---------------------------- MODULE BlockingQueue ----------------------------
(***************************************************************************)
(* BlockingQueue<T>: a bounded queue as a monitor, with one mutex and one  *)
(* condition variable per direction.  The Listener keeps its clients in    *)
(* one.                                                                    *)
(*                                                                         *)
(* Every member function holds the mutex from its first line to its        *)
(* return, notifies while it holds it, and reads nothing outside it, so a  *)
(* call is one step, except that add and take() may wait: evaluating the   *)
(* predicate and joining the wait set is one step, and so is the rest of   *)
(* the call, taken when the thread has the mutex again.  A thread with a   *)
(* call to finish that is in neither wait set contends for the mutex.      *)
(*                                                                         *)
(* tryTake and take() remove the front element by queue.pop(), which       *)
(* std::deque does not have: the two compile only while nobody uses them.  *)
(* They are modelled as removing the element they have just moved out.     *)
(***************************************************************************)
EXTENDS SequencesExt, FiniteSetsExt

CONSTANTS Threads,    \* the threads that use the queue
          Items,      \* what they put into it
          capacity

ASSUME CapacityAssumption == capacity \in Nat
ASSUME ThreadsAssumption  == IsFiniteSet(Threads)

VARIABLES
  queue,
  call,        \* the waiting call a thread is in: "none", "add" or "take"
  item,        \* the argument of a thread's last add
  notEmpty,    \* the wait set of the condition variable of this name
  notFull      \* and of this one

vars == << queue, call, item, notEmpty, notFull >>

TypeOK ==
  /\ queue \in Seq(Items)
  /\ call \in [ Threads -> { "none", "add", "take" } ]
  /\ item \in [ Threads -> Items ]
  /\ notEmpty \subseteq { t \in Threads : call[t] = "take" }
  /\ notFull \subseteq { t \in Threads : call[t] = "add" }

Init ==
  /\ queue = << >>
  /\ call = [ t \in Threads |-> "none" ]
  /\ item \in [ Threads -> Items ]
  /\ notEmpty = { } /\ notFull = { }

-----------------------------------------------------------------------------
(***************************************************************************)
(* notify_one on the condition variable whose wait set is waiting: any one *)
(* of the waiting threads leaves it, and contends for the mutex.           *)
(***************************************************************************)
AfterNotifyOne(waiting) ==
  IF waiting = { } THEN { { } } ELSE { waiting \ { t } : t \in waiting }

(* The thread enters add with the item i. *)
CallAdd(t, i) ==
  /\ call[t] = "none"
  /\ call' = [ call EXCEPT ![t] = "add" ]
  /\ item' = [ item EXCEPT ![t] = i ]
  /\ UNCHANGED << queue, notEmpty, notFull >>

CallTake(t) ==
  /\ call[t] = "none"
  /\ call' = [ call EXCEPT ![t] = "take" ]
  /\ UNCHANGED << queue, item, notEmpty, notFull >>

(* Mutant: the queue may grow by one too many. *)
HasRoomForOneMore == Len(queue) <= capacity

HasRoom == Len(queue) < capacity

(* Mutant: add waits on the other condition variable. *)
WaitForAnItem(t) ==
  /\ call[t] = "add" /\ t \notin notFull
  /\ ~HasRoom
  /\ notEmpty' = notEmpty \cup { t }
  /\ UNCHANGED << queue, call, item, notFull >>

(***************************************************************************)
(* add: what follows the lock, or the return from the wait.                *)
(***************************************************************************)
WaitNotFull(t) ==
  /\ call[t] = "add" /\ t \notin notFull
  /\ ~HasRoom
  /\ notFull' = notFull \cup { t }
  /\ UNCHANGED << queue, call, item, notEmpty >>

(* Mutant: a notification is sent only when the queue was empty. *)
AddNotifyingWhenEmpty(t) ==
  /\ call[t] = "add" /\ t \notin notFull
  /\ HasRoom
  /\ queue' = Append(queue, item[t])
  /\ notEmpty' \in IF queue = << >> THEN AfterNotifyOne(notEmpty)
                                    ELSE { notEmpty }
  /\ call' = [ call EXCEPT ![t] = "none" ]
  /\ UNCHANGED << item, notFull >>

Add(t) ==
  /\ call[t] = "add" /\ t \notin notFull
  /\ HasRoom
  /\ queue' = Append(queue, item[t])
  /\ notEmpty' \in AfterNotifyOne(notEmpty)
  /\ call' = [ call EXCEPT ![t] = "none" ]
  /\ UNCHANGED << item, notFull >>

(***************************************************************************)
(* take().                                                                 *)
(***************************************************************************)
WaitNotEmpty(t) ==
  /\ call[t] = "take" /\ t \notin notEmpty
  /\ queue = << >>
  /\ notEmpty' = notEmpty \cup { t }
  /\ UNCHANGED << queue, call, item, notFull >>

Take(t) ==
  /\ call[t] = "take" /\ t \notin notEmpty
  /\ queue # << >>
  /\ queue' = Tail(queue)
  /\ notFull' \in AfterNotifyOne(notFull)
  /\ call' = [ call EXCEPT ![t] = "none" ]
  /\ UNCHANGED << item, notEmpty >>

(***************************************************************************)
(* tryTake, and take of a given item, where there is one to take; else     *)
(* they change nothing.  take(item) erases the first equal element.        *)
(***************************************************************************)
TryTake(t) ==
  /\ call[t] = "none"
  /\ queue # << >>
  /\ queue' = Tail(queue)
  /\ notFull' \in AfterNotifyOne(notFull)
  /\ UNCHANGED << call, item, notEmpty >>

IsFirst(k, i) == /\ queue[k] = i
                 /\ \A j \in 1 .. k - 1 : queue[j] # i

(* Mutant: the erased element makes room that nobody is told of. *)
TakeItemSilently(t, i) ==
  /\ call[t] = "none"
  /\ \E k \in 1 .. Len(queue) :
        IsFirst(k, i) /\ queue' = RemoveAt(queue, k)
  /\ UNCHANGED << call, item, notEmpty, notFull >>

TakeItem(t, i) ==
  /\ call[t] = "none"
  /\ \E k \in 1 .. Len(queue) :
        IsFirst(k, i) /\ queue' = RemoveAt(queue, k)
  /\ notFull' \in AfterNotifyOne(notFull)
  /\ UNCHANGED << call, item, notEmpty >>

SpuriousWakeup(t) ==
  \/ /\ t \in notEmpty
     /\ notEmpty' = notEmpty \ { t }
     /\ UNCHANGED << queue, call, item, notFull >>
  \/ /\ t \in notFull
     /\ notFull' = notFull \ { t }
     /\ UNCHANGED << queue, call, item, notEmpty >>

(* What a contending thread does once it has the mutex. *)
Step(t) == WaitNotFull(t) \/ Add(t) \/ WaitNotEmpty(t) \/ Take(t)

Call(t) == \/ CallTake(t) \/ TryTake(t)
           \/ \E i \in Items : CallAdd(t, i) \/ TakeItem(t, i)

Next == \E t \in Threads : Step(t) \/ Call(t) \/ SpuriousWakeup(t)

Spec == Init /\ [][Next]_vars

(***************************************************************************)
(* A thread that contends for the mutex gets it, if it contends for ever.  *)
(* Nobody has to call anything.                                            *)
(***************************************************************************)
FairSpec == Spec /\ \A t \in Threads : WF_vars(Step(t))

-----------------------------------------------------------------------------
Takers == { t \in Threads : call[t] = "take" } \ notEmpty
Adders == { t \in Threads : call[t] = "add" } \ notFull

WithinCapacity == Len(queue) <= capacity

(***************************************************************************)
(* No lost wakeup in either direction, though notify_one wakes one thread  *)
(* and another may steal the item or the room before it runs: while a      *)
(* thread sleeps in take(), every item in the queue has a thread of its    *)
(* own on the way to take it; while one sleeps in add, so has every free   *)
(* place.                                                                  *)
(***************************************************************************)
NoSleepingTaker == notEmpty # { } => Len(queue) <= Cardinality(Takers)

NoSleepingAdder ==
  notFull # { } => capacity - Len(queue) <= Cardinality(Adders)

(***************************************************************************)
(* If from some time on there is always an item and always a thread in     *)
(* take(), items are taken for ever; and if there is always room and       *)
(* always a thread in add, items are added for ever.  notify_one may       *)
(* choose its thread unfairly, so no given thread is promised its turn.    *)
(***************************************************************************)
TakersServed ==
  <>[](queue # << >> /\ \E t \in Threads : call[t] = "take")
    => []<><< \E t \in Threads : Take(t) >>_vars

AddersServed ==
  <>[](HasRoom /\ \E t \in Threads : call[t] = "add")
    => []<><< \E t \in Threads : Add(t) >>_vars
=============================================================================
