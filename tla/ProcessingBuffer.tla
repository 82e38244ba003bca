-------------------------- MODULE ProcessingBuffer --------------------------
(***************************************************************************)
(* Parlo::ProcessingBuffer: the queue of received bytes, the worker thread *)
(* that cuts it into packets, and the thread that owns the object.         *)
(*                                                                         *)
(* The owner (the asio thread that runs receiveAsync's completion handler, *)
(* or a test) calls setOnPacketProcessedHandler, addData and the           *)
(* destructor, one after the other.  The worker runs processPackets.  The  *)
(* two meet at the mutex, the condition variable cv and the atomic         *)
(* stopProcessing.  Each value of a program counter is a point where the   *)
(* other thread can run in between:                                        *)
(*                                                                         *)
(*   worker   test the loop condition; lock or relock the mutex; evaluate  *)
(*            the predicate of cv.wait; block (the wait released the mutex *)
(*            and is in cv's wait set); check, header, payload, handler,   *)
(*            sleep: the loop body, which holds the mutex throughout;      *)
(*            exit; terminated (an exception left the thread function and  *)
(*            std::terminate ended the process).                           *)
(*   owner    idle; lock, push, notify: addData; notifyAll, join: the      *)
(*            destructor; destroyed.                                       *)
(***************************************************************************)
EXTENDS Packet, SequencesExt

CONSTANTS
  Inputs,          \* the byte streams a peer may send; each behaviour has one
  ReadSizes,       \* how many bytes of the stream one addData call may carry
  MAX_PACKET_SIZE  \* Parlo.h; the largest chunk addData takes

ASSUME InputsAssumption == \A s \in Inputs : s \in Seq(Byte)
ASSUME SizesAssumption  == /\ ReadSizes \subseteq Nat \ {0}
                           /\ MAX_PACKET_SIZE \in Nat \ {0}

VARIABLES
  internalBuffer, hasReadHeader, currentID, isCompressed, currentLength,
  stopProcessing, handlerSet,
  mutex,            \* who holds the mutex
  worker, owner,    \* the two program counters
  chunk,            \* the data argument of the addData call in progress
  constructed,      \* the Packet objects built so far; the last is the
                    \* local variable packet of processPackets
  input, fed,       \* the peer's bytes, and how many the owner has read
  accepted,         \* history: the bytes addData has put in the buffer
  delivered,        \* history: the packets the handler was called with
  deliveredAtStop   \* history: how many of them when the stop flag was set

header  == << hasReadHeader, currentID, isCompressed, currentLength >>
history == << accepted, delivered, deliveredAtStop >>
peer    == << input, fed, chunk >>
vars    == << internalBuffer, header, stopProcessing, handlerSet, mutex,
              worker, owner, constructed, peer, history >>

Critical == { "evaluate", "block", "check", "header", "payload",
              "handler", "sleep" }
WorkerPC == Critical \cup { "test", "lock", "blocked", "relock", "exit",
                            "terminated" }
OwnerPC  == { "idle", "lock", "push", "notify", "notifyAll", "join",
              "destroyed" }

TypeOK ==
  /\ internalBuffer \in Seq(Byte)
  /\ hasReadHeader \in BOOLEAN
  /\ currentID \in Byte
  /\ isCompressed \in BOOLEAN
  /\ currentLength \in Word
  /\ stopProcessing \in BOOLEAN
  /\ handlerSet \in BOOLEAN
  /\ mutex \in { "free", "worker", "owner" }
  /\ worker \in WorkerPC
  /\ owner \in OwnerPC
  /\ constructed \in Seq(PacketObject)
  /\ input \in Inputs
  /\ fed \in 0 .. Len(input)
  /\ chunk \in Seq(Byte)
  /\ accepted \in Seq(Byte)
  /\ delivered \in Seq(PacketObject)
  /\ deliveredAtStop \in Nat

(***************************************************************************)
(* Impl::Impl has started the worker; NetworkClient and the tests have not *)
(* yet set a handler.                                                      *)
(***************************************************************************)
Init ==
  /\ internalBuffer = << >>
  /\ hasReadHeader = FALSE /\ currentID = 0
  /\ isCompressed = FALSE  /\ currentLength = 0
  /\ stopProcessing = FALSE
  /\ handlerSet = FALSE
  /\ mutex = "free"
  /\ worker = "test"
  /\ owner = "idle"
  /\ constructed = << >>
  /\ input \in Inputs
  /\ fed = 0 /\ chunk = << >>
  /\ accepted = << >> /\ delivered = << >> /\ deliveredAtStop = 0

-----------------------------------------------------------------------------
(* The owner.                                                              *)

OwnerAt(pc) == owner = pc /\ worker # "terminated"

(***************************************************************************)
(* setOnPacketProcessedHandler writes the handler without the mutex.  Every *)
(* caller does so before the first byte is added.                          *)
(***************************************************************************)
SetOnPacketProcessedHandler ==
  /\ OwnerAt("idle")
  /\ fed = 0
  /\ handlerSet' = TRUE
  /\ UNCHANGED << internalBuffer, header, stopProcessing, mutex, worker,
                  owner, constructed, peer, history >>

(***************************************************************************)
(* addData with the next n bytes of the stream.  A chunk larger than       *)
(* MAX_PACKET_SIZE throws std::overflow_error before anything is touched;  *)
(* receiveAsync catches it, logs and reads on, so the chunk is lost.       *)
(***************************************************************************)
AddData(n) ==
  /\ OwnerAt("idle")
  /\ fed + n <= Len(input)
  /\ n <= MAX_PACKET_SIZE
  /\ chunk' = SubSeq(input, fed + 1, fed + n)
  /\ fed' = fed + n
  /\ owner' = "lock"
  /\ UNCHANGED << internalBuffer, header, stopProcessing, handlerSet, mutex,
                  worker, constructed, input, history >>

AddTooMuchData(n) ==
  /\ OwnerAt("idle")
  /\ fed + n <= Len(input)
  /\ n > MAX_PACKET_SIZE
  /\ fed' = fed + n
  /\ UNCHANGED << internalBuffer, header, stopProcessing, handlerSet, mutex,
                  worker, owner, constructed, input, chunk, history >>

(* Mutant: the lock_guard of addData is missing. *)
LockForPushUnguarded ==
  /\ OwnerAt("lock")
  /\ owner' = "push"
  /\ UNCHANGED << internalBuffer, header, stopProcessing, handlerSet, mutex,
                  worker, constructed, peer, history >>

LockForPush ==
  /\ OwnerAt("lock")
  /\ mutex = "free"
  /\ mutex' = "owner"
  /\ owner' = "push"
  /\ UNCHANGED << internalBuffer, header, stopProcessing, handlerSet, worker,
                  constructed, peer, history >>

(* Mutant: the bytes of a chunk go in front of those that wait. *)
BufferAfterPushInFront == chunk \o internalBuffer

BufferAfterPush == internalBuffer \o chunk

PushAndUnlock ==
  /\ OwnerAt("push")
  /\ internalBuffer' = BufferAfterPush
  /\ accepted' = accepted \o chunk
  /\ chunk' = << >>
  /\ mutex' = "free"
  /\ owner' = "notify"
  /\ UNCHANGED << header, stopProcessing, handlerSet, worker, constructed,
                  input, fed, delivered, deliveredAtStop >>

(***************************************************************************)
(* notify_one and notify_all on cv, in whose wait set only the worker can  *)
(* be: a blocked worker will try to get the mutex back, any other notices  *)
(* nothing.                                                                *)
(***************************************************************************)
Notified == IF worker = "blocked" THEN "relock" ELSE worker

NotifyOne ==
  /\ OwnerAt("notify")
  /\ worker' = Notified
  /\ owner' = "idle"
  /\ UNCHANGED << internalBuffer, header, stopProcessing, handlerSet, mutex,
                  constructed, peer, history >>

(***************************************************************************)
(* ~ProcessingBuffer: set the flag without the mutex, notify, join.        *)
(***************************************************************************)
Destroy ==
  /\ OwnerAt("idle")
  /\ stopProcessing' = TRUE
  /\ deliveredAtStop' = Len(delivered)
  /\ owner' = "notifyAll"
  /\ UNCHANGED << internalBuffer, header, handlerSet, mutex, worker,
                  constructed, peer, accepted, delivered >>

NotifyAll ==
  /\ OwnerAt("notifyAll")
  /\ worker' = Notified
  /\ owner' = "join"
  /\ UNCHANGED << internalBuffer, header, stopProcessing, handlerSet, mutex,
                  constructed, peer, history >>

Join ==
  /\ OwnerAt("join")
  /\ worker = "exit"
  /\ owner' = "destroyed"
  /\ UNCHANGED << internalBuffer, header, stopProcessing, handlerSet, mutex,
                  worker, constructed, peer, history >>

OwnerStep == LockForPush \/ PushAndUnlock \/ NotifyOne \/ NotifyAll \/ Join
OwnerCall == \/ SetOnPacketProcessedHandler
             \/ \E n \in ReadSizes : AddData(n) \/ AddTooMuchData(n)
             \/ Destroy

-----------------------------------------------------------------------------
(* The worker: processPackets.                                             *)

LoopTest ==
  /\ worker = "test"
  /\ worker' = IF stopProcessing THEN "exit" ELSE "lock"
  /\ UNCHANGED << internalBuffer, header, stopProcessing, handlerSet, mutex,
                  owner, constructed, peer, history >>

(***************************************************************************)
(* The unique_lock, and the reacquisition inside cv.wait.                  *)
(***************************************************************************)
LockForWork ==
  /\ worker \in { "lock", "relock" }
  /\ mutex = "free"
  /\ mutex' = "worker"
  /\ worker' = "evaluate"
  /\ UNCHANGED << internalBuffer, header, stopProcessing, handlerSet, owner,
                  constructed, peer, history >>

(* Mutant: the worker looks every 10 ms and does not wait. *)
WaitPredicatePolling == TRUE

(* Mutant: wait until a whole header could have come. *)
WaitPredicateHeader == Len(internalBuffer) >= STANDARD \/ stopProcessing

WaitPredicate == internalBuffer # << >> \/ stopProcessing

(***************************************************************************)
(* cv.wait reads stopProcessing here and blocks one step later: the mutex  *)
(* keeps addData out in between, but not the destructor.                   *)
(***************************************************************************)
EvaluatePredicate ==
  /\ worker = "evaluate"
  /\ worker' = IF WaitPredicate THEN "check" ELSE "block"
  /\ UNCHANGED << internalBuffer, header, stopProcessing, handlerSet, mutex,
                  owner, constructed, peer, history >>

Block ==
  /\ worker = "block"
  /\ mutex' = "free"
  /\ worker' = "blocked"
  /\ UNCHANGED << internalBuffer, header, stopProcessing, handlerSet, owner,
                  constructed, peer, history >>

(***************************************************************************)
(* A condition variable may wake a thread nobody notified.                 *)
(***************************************************************************)
SpuriousWakeup ==
  /\ worker = "blocked"
  /\ worker' = "relock"
  /\ UNCHANGED << internalBuffer, header, stopProcessing, handlerSet, mutex,
                  owner, constructed, peer, history >>

MustStop == stopProcessing

CheckStop ==
  /\ worker = "check"
  /\ IF MustStop THEN worker' = "exit"   /\ mutex' = "free"
                 ELSE worker' = "header" /\ UNCHANGED mutex
  /\ UNCHANGED << internalBuffer, header, stopProcessing, handlerSet, owner,
                  constructed, peer, history >>

(* Mutant: the flag is read the wrong way round. *)
HeaderFlagInverted(b) == b = 0

HeaderFlag(b) == b # 0        \* isCompressed is a bool

(***************************************************************************)
(* readHeader, called once four bytes have come and none is in force.      *)
(***************************************************************************)
ReadHeader ==
  /\ worker = "header"
  /\ Len(internalBuffer) >= STANDARD
  /\ ~hasReadHeader
  /\ currentID' = internalBuffer[1]
  /\ isCompressed' = HeaderFlag(internalBuffer[2])
  /\ currentLength' = JoinLength(internalBuffer[3], internalBuffer[4])
  /\ hasReadHeader' = TRUE
  /\ internalBuffer' = SubSeq(internalBuffer, STANDARD + 1, Len(internalBuffer))
  /\ worker' = "payload"
  /\ UNCHANGED << stopProcessing, handlerSet, mutex, owner, constructed,
                  peer, history >>

SkipHeader ==
  /\ worker = "header"
  /\ Len(internalBuffer) < STANDARD \/ hasReadHeader
  /\ worker' = "payload"
  /\ UNCHANGED << internalBuffer, header, stopProcessing, handlerSet, mutex,
                  owner, constructed, peer, history >>

(***************************************************************************)
(* size() >= size_t(currentLength - STANDARD): below STANDARD the          *)
(* difference is negative and as a size_t exceeds every size().            *)
(***************************************************************************)
PayloadArrived == /\ currentLength >= STANDARD
                  /\ Len(internalBuffer) >= currentLength - STANDARD

AwaitPayload ==
  /\ worker = "payload"
  /\ ~(hasReadHeader /\ PayloadArrived)
  /\ worker' = "sleep"
  /\ UNCHANGED << internalBuffer, header, stopProcessing, handlerSet, mutex,
                  owner, constructed, peer, history >>

(***************************************************************************)
(* Pop the payload and construct the Packet.  For an empty payload the     *)
(* constructor throws, and nothing in the thread catches it.               *)
(***************************************************************************)
ExtractPacket ==
  /\ worker = "payload"
  /\ hasReadHeader /\ PayloadArrived
  /\ hasReadHeader' = FALSE
  /\ LET size == currentLength - STANDARD
         data == SubSeq(internalBuffer, 1, size)
     IN /\ internalBuffer' =
             SubSeq(internalBuffer, size + 1, Len(internalBuffer))
        /\ IF Constructible(data)
           THEN /\ constructed' = Append(constructed,
                                    TCPPacket(currentID, data, isCompressed))
                /\ worker' = "handler"
           ELSE /\ worker' = "terminated"
                /\ UNCHANGED constructed
  /\ UNCHANGED << currentID, isCompressed, currentLength, stopProcessing,
                  handlerSet, mutex, owner, peer, history >>

(***************************************************************************)
(* The handler runs inside the worker's critical section.                  *)
(***************************************************************************)
CallHandler ==
  /\ worker = "handler"
  /\ delivered' = IF handlerSet THEN Append(delivered, Last(constructed))
                                ELSE delivered
  /\ worker' = "sleep"
  /\ UNCHANGED << internalBuffer, header, stopProcessing, handlerSet, mutex,
                  owner, constructed, peer, accepted, deliveredAtStop >>

(* Mutant: all packets that have come are cut in one go. *)
SleepAndUnlockWhenEmpty ==
  /\ worker = "sleep"
  /\ IF internalBuffer # << >> THEN worker' = "header" /\ UNCHANGED mutex
                               ELSE worker' = "test" /\ mutex' = "free"
  /\ UNCHANGED << internalBuffer, header, stopProcessing, handlerSet, owner,
                  constructed, peer, history >>

(***************************************************************************)
(* sleep_for(10ms), and only then does the unique_lock go out of scope.    *)
(***************************************************************************)
SleepAndUnlock ==
  /\ worker = "sleep"
  /\ mutex' = "free"
  /\ worker' = "test"
  /\ UNCHANGED << internalBuffer, header, stopProcessing, handlerSet, owner,
                  constructed, peer, history >>

WorkerStep == \/ LoopTest \/ LockForWork \/ EvaluatePredicate \/ Block
              \/ CheckStop \/ ReadHeader \/ SkipHeader \/ AwaitPayload
              \/ ExtractPacket \/ CallHandler \/ SleepAndUnlock

Next == OwnerCall \/ OwnerStep \/ WorkerStep \/ SpuriousWakeup

Spec == Init /\ [][Next]_vars

(***************************************************************************)
(* Both threads keep running.  std::mutex promises no fairness, so getting *)
(* it is only weakly fair; nobody is obliged to add data or to destroy the *)
(* object, and no wakeup is promised without a notification.               *)
(***************************************************************************)
FairSpec == Spec /\ WF_vars(WorkerStep) /\ WF_vars(OwnerStep)

-----------------------------------------------------------------------------
(* What the buffer promises, whatever the peer sends.                      *)

(***************************************************************************)
(* The bytes in the queue are the last ones addData accepted, in order:    *)
(* the worker only ever takes bytes from the front, and the two threads'   *)
(* pushes and pops lose, repeat and reorder none.                          *)
(***************************************************************************)
popped == Len(accepted) - Len(internalBuffer)

BufferIsSuffix ==
  /\ Len(internalBuffer) <= Len(accepted)
  /\ \A i \in 1 .. Len(internalBuffer) :
        internalBuffer[i] = accepted[popped + i]

(***************************************************************************)
(* addData's wakeup is never lost: a worker blocked in cv.wait while bytes *)
(* are in the queue has a notify_one coming.                               *)
(***************************************************************************)
NoLostWakeup ==
  worker = "blocked" /\ internalBuffer # << >> => owner = "notify"

(***************************************************************************)
(* Once the destructor has set the flag, the worker calls the handler at   *)
(* most once more: for the packet it was already cutting.                  *)
(***************************************************************************)
AtMostOneAfterStop ==
  stopProcessing => Len(delivered) <= deliveredAtStop + 1

(***************************************************************************)
(* However the stream is cut into chunks, and whatever chunk was dropped,  *)
(* all the handler has been called with are the first frames of the        *)
(* accepted bytes, in order, none left out; none from one on whose length  *)
(* field is not above STANDARD.                                            *)
(***************************************************************************)
OnlyWholeFrames == IsPrefix(delivered, FramesIn(accepted))

(***************************************************************************)
(* The worker brings the process down only for a header that announces     *)
(* exactly no payload; a length field below STANDARD never does.           *)
(***************************************************************************)
CrashOnlyOnEmptyPayload ==
  worker = "terminated" =>
    LengthAt(accepted, popped - STANDARD) = STANDARD

(***************************************************************************)
(* std::mutex promises no fairness, so addData may wait for it for ever.   *)
(* It does so only beside a worker that is kept awake, by spurious wakeups *)
(* without end or by bytes that are not yet a whole packet and that it     *)
(* looks at again and again, all that is whole having been cut; never      *)
(* beside a worker that waits for bytes, or that has a packet to cut.      *)
(***************************************************************************)
Starving == owner = "lock" /\ worker # "terminated"

StarvesOnlyOnARest ==
  <>[]Starving =>
    \/ <>[](internalBuffer # << >> /\ constructed = FramesIn(accepted))
    \/ []<><<SpuriousWakeup>>_vars

(***************************************************************************)
(* The destructor returns.                                                 *)
(***************************************************************************)
DestructorReturns ==
  owner = "notifyAll" ~> owner = "destroyed" \/ worker = "terminated"
=============================================================================
