----------------------- MODULE ProcessingBuffer_proofs -----------------------
(***************************************************************************)
(* The safety of ProcessingBuffer, for every stream, every way of cutting  *)
(* it and every MAX_PACKET_SIZE.                                           *)
(***************************************************************************)
EXTENDS ProcessingBuffer, Stream_proofs

USE DEF STANDARD

(***************************************************************************)
(* Bytes and lengths.                                                      *)
(***************************************************************************)
(* Two bytes make a 16-bit length. *)
LEMMA JoinLengthType ==
  ASSUME NEW low \in Byte, NEW high \in Byte
  PROVE  JoinLength(low, high) \in Word
<1>1. high * 256 + low \in Nat
  BY DEF Byte
<1> QED
  BY <1>1, Uint16Type DEF JoinLength

(***************************************************************************)
(* The payload that has arrived is a part of the buffer.                   *)
(***************************************************************************)
LEMMA PayloadSize ==
  ASSUME TypeOK, PayloadArrived
  PROVE  currentLength - STANDARD \in 0 .. Len(internalBuffer)
<1>1. currentLength >= STANDARD
      /\ Len(internalBuffer) >= currentLength - STANDARD
  BY DEF PayloadArrived
<1>2. currentLength \in Nat /\ Len(internalBuffer) \in Nat
  BY LenProperties, WordIsNat DEF TypeOK
<1> QED
  BY <1>1, <1>2

-----------------------------------------------------------------------------
(***************************************************************************)
(* The inductive invariant.  The mutex is held exactly where the program   *)
(* counters say; a thread that ended the process never gave it back.       *)
(***************************************************************************)
LockInv ==
  /\ worker \in Critical => mutex = "worker"
  /\ mutex = "worker" => worker \in Critical \cup { "terminated" }
  /\ mutex = "owner" <=> owner = "push"

(***************************************************************************)
(* The worker's decision to block still holds when it does: addData cannot *)
(* come in between.                                                        *)
(***************************************************************************)
BlockInv == worker = "block" => internalBuffer = << >>

(***************************************************************************)
(* Only past CheckStop can the worker still deliver a packet.              *)
(***************************************************************************)
Pending == IF worker \in { "header", "payload", "handler" } THEN 1 ELSE 0

StopInv ==
  stopProcessing => Len(delivered) + Pending <= deliveredAtStop + 1

HandlerInv == worker = "handler" => constructed # << >>

(***************************************************************************)
(* The header in force is made of the last four bytes popped: nothing else *)
(* is popped until its payload has come.  If the process has ended, it was *)
(* on a header that announced no payload.                                  *)
(***************************************************************************)
HeaderInForce ==
  /\ currentID = accepted[popped - STANDARD + 1]
  /\ isCompressed = (accepted[popped - STANDARD + 2] # 0)
  /\ currentLength = LengthAt(accepted, popped - STANDARD)

HeaderInv ==
  /\ hasReadHeader => popped >= STANDARD /\ HeaderInForce
  /\ worker = "terminated" =>
       popped >= STANDARD /\ LengthAt(accepted, popped - STANDARD) = STANDARD

(***************************************************************************)
(* The packets constructed are those the accepted bytes begin with, up to  *)
(* the header in force or to the bytes not yet popped.                     *)
(***************************************************************************)
Border == IF hasReadHeader \/ worker = "terminated" THEN popped - STANDARD
                                                    ELSE popped

ConstructedInv == BeginsWith(accepted, constructed, Border)

(***************************************************************************)
(* The handler, set before the first byte came, has been called with every *)
(* packet but the one the worker is about to call it with.                 *)
(***************************************************************************)
HandedInv ==
  /\ fed = 0 => accepted = << >> /\ chunk = << >> /\ constructed = << >>
  /\ ~handlerSet => delivered = << >>
  /\ handlerSet => constructed = IF worker = "handler"
                                 THEN Append(delivered, Last(constructed))
                                 ELSE delivered

IInv == /\ TypeOK /\ BufferIsSuffix
        /\ LockInv /\ BlockInv /\ NoLostWakeup
        /\ StopInv /\ HandlerInv /\ HeaderInv
        /\ ConstructedInv /\ HandedInv

(* The strengthened invariant holds when the buffer is constructed. *)
LEMMA InitIInv == Init => IInv
<1> SUFFICES ASSUME Init PROVE IInv
  OBVIOUS
<1>1. 0 \in Byte /\ 0 \in Word
  BY DEF Byte, Word, MaxUint16
<1>2. input \in Seq(Byte)
  BY InputsAssumption DEF Init
<1>3. Len(input) \in Nat /\ fed \in 0 .. Len(input)
  BY <1>2 DEF Init
<1>4. /\ << >> \in Seq(Byte)
      /\ << >> \in Seq(PacketObject)
  OBVIOUS
<1>5. TypeOK
  BY <1>1, <1>3, <1>4 DEF Init, TypeOK, WorkerPC, OwnerPC
<1>6. BufferIsSuffix
  BY DEF Init, BufferIsSuffix
<1>7. ConstructedInv
  BY BeginsWithNothing DEF Init, ConstructedInv, Border, popped
<1>8. HandedInv
  BY DEF Init, HandedInv
<1> QED
  BY <1>5, <1>6, <1>7, <1>8
  DEF Init, IInv, LockInv, BlockInv, NoLostWakeup, StopInv, HandlerInv,
      HeaderInv, Critical

(***************************************************************************)
(* Types.                                                                  *)
(***************************************************************************)
LEMMA TypeStep == TypeOK /\ HandlerInv /\ [Next]_vars => TypeOK'
<1> SUFFICES ASSUME TypeOK, HandlerInv, [Next]_vars PROVE TypeOK'
  OBVIOUS
<1> USE DEF header, peer, history
<1>1. CASE SetOnPacketProcessedHandler
  BY <1>1 DEF TypeOK, SetOnPacketProcessedHandler
<1>2. CASE \E n \in ReadSizes : AddData(n)
  <2> PICK n \in ReadSizes : AddData(n)
    BY <1>2
  <2>1. input \in Seq(Byte) /\ n \in Nat \ {0}
    BY InputsAssumption, SizesAssumption DEF TypeOK
  <2>2. fed + n \in 0 .. Len(input)
    BY <2>1 DEF AddData, TypeOK
  <2>3. SubSeq(input, fed + 1, fed + n) \in Seq(Byte)
    BY <2>1, <2>2, SubSeqProperties, ElementOfSeq DEF TypeOK
  <2> QED
    BY <2>2, <2>3 DEF AddData, TypeOK, OwnerPC
<1>3. CASE \E n \in ReadSizes : AddTooMuchData(n)
  <2> PICK n \in ReadSizes : AddTooMuchData(n)
    BY <1>3
  <2>1. input \in Seq(Byte) /\ n \in Nat \ {0}
    BY InputsAssumption, SizesAssumption DEF TypeOK
  <2>2. fed + n \in 0 .. Len(input)
    BY <2>1 DEF AddTooMuchData, TypeOK
  <2> QED
    BY <2>2 DEF AddTooMuchData, TypeOK
<1>4. CASE LockForPush
  BY <1>4 DEF TypeOK, LockForPush, OwnerPC
<1>5. CASE PushAndUnlock
  <2>1. internalBuffer \o chunk \in Seq(Byte) /\ accepted \o chunk \in Seq(Byte)
    BY DEF TypeOK
  <2> QED
    BY <1>5, <2>1 DEF TypeOK, PushAndUnlock, BufferAfterPush, OwnerPC
<1>6. CASE NotifyOne
  BY <1>6 DEF TypeOK, NotifyOne, Notified, OwnerPC, WorkerPC
<1>7. CASE Destroy
  BY <1>7 DEF TypeOK, Destroy, OwnerPC
<1>8. CASE NotifyAll
  BY <1>8 DEF TypeOK, NotifyAll, Notified, OwnerPC, WorkerPC
<1>9. CASE Join
  BY <1>9 DEF TypeOK, Join, OwnerPC
<1>10. CASE LoopTest
  BY <1>10 DEF TypeOK, LoopTest, WorkerPC
<1>11. CASE LockForWork
  BY <1>11 DEF TypeOK, LockForWork, WorkerPC, Critical
<1>12. CASE EvaluatePredicate
  BY <1>12 DEF TypeOK, EvaluatePredicate, WorkerPC, Critical
<1>13. CASE Block
  BY <1>13 DEF TypeOK, Block, WorkerPC
<1>14. CASE SpuriousWakeup
  BY <1>14 DEF TypeOK, SpuriousWakeup, WorkerPC
<1>15. CASE CheckStop
  BY <1>15 DEF TypeOK, CheckStop, WorkerPC, Critical
<1>16. CASE ReadHeader
  <2>1. /\ \A i \in 1 .. 4 : internalBuffer[i] \in Byte
        /\ STANDARD \in 0 .. Len(internalBuffer)
    BY <1>16, ElementOfSeq DEF TypeOK, ReadHeader
  <2>2. JoinLength(internalBuffer[3], internalBuffer[4]) \in Word
    BY <2>1, JoinLengthType
  <2>3. SubSeq(internalBuffer, STANDARD + 1, Len(internalBuffer)) \in Seq(Byte)
    BY <2>1, CutType DEF TypeOK
  <2> QED
    BY <1>16, <2>1, <2>2, <2>3
    DEF TypeOK, ReadHeader, HeaderFlag, WorkerPC, Critical
<1>17. CASE SkipHeader
  BY <1>17 DEF TypeOK, SkipHeader, WorkerPC, Critical
<1>18. CASE AwaitPayload
  BY <1>18 DEF TypeOK, AwaitPayload, WorkerPC, Critical
<1>19. CASE ExtractPacket
  <2> DEFINE size == currentLength - STANDARD
             data == SubSeq(internalBuffer, 1, size)
             rest == SubSeq(internalBuffer, size + 1, Len(internalBuffer))
             next == TCPPacket(currentID, data, isCompressed)
  <2>1. size \in 0 .. Len(internalBuffer)
    BY <1>19, PayloadSize DEF ExtractPacket
  <2>2. data \in Seq(Byte) /\ rest \in Seq(Byte)
    BY <2>1, CutType DEF TypeOK
  <2>3. next \in PacketObject
    BY <2>2, TCPPacketType DEF TypeOK
  <2>4. /\ internalBuffer' = rest
        /\ hasReadHeader' = FALSE
        /\ worker' \in { "handler", "terminated" }
        /\ \/ constructed' = constructed
           \/ constructed' = Append(constructed, next)
    BY <1>19 DEF ExtractPacket
  <2> HIDE DEF size, data, rest, next
  <2>5. constructed' \in Seq(PacketObject)
    <3>1. constructed \in Seq(PacketObject)
      BY DEF TypeOK
    <3>2. Append(constructed, next) \in Seq(PacketObject)
      BY <2>3, <3>1, AppendProperties
    <3> QED
      BY <2>4, <3>1, <3>2
  <2> QED
    BY <1>19, <2>2, <2>4, <2>5
    DEF TypeOK, ExtractPacket, WorkerPC, Critical
<1>20. CASE CallHandler
  <2>1. Last(constructed) \in PacketObject
    BY <1>20, ElementOfSeq, EmptySeq
    DEF TypeOK, HandlerInv, CallHandler, Last
  <2>2. delivered' \in Seq(PacketObject)
    BY <1>20, <2>1 DEF TypeOK, CallHandler
  <2> QED
    BY <1>20, <2>2 DEF TypeOK, CallHandler, WorkerPC, Critical
<1>21. CASE SleepAndUnlock
  BY <1>21 DEF TypeOK, SleepAndUnlock, WorkerPC
<1>22. CASE UNCHANGED vars
  BY <1>22 DEF TypeOK, vars
<1> QED
  BY <1>1, <1>2, <1>3, <1>4, <1>5, <1>6, <1>7, <1>8, <1>9, <1>10, <1>11,
     <1>12, <1>13, <1>14, <1>15, <1>16, <1>17, <1>18, <1>19, <1>20, <1>21,
     <1>22
  DEF Next, OwnerCall, OwnerStep, WorkerStep

(***************************************************************************)
(* The worker pops from the front, addData pushes at the back.             *)
(***************************************************************************)
LEMMA SuffixPop ==
  ASSUME TypeOK, BufferIsSuffix, NEW n \in 0 .. Len(internalBuffer),
         internalBuffer' = SubSeq(internalBuffer, n + 1, Len(internalBuffer)),
         accepted' = accepted
  PROVE  BufferIsSuffix'
<1>1. /\ Len(internalBuffer) \in Nat /\ Len(accepted) \in Nat
      /\ Len(internalBuffer') = Len(internalBuffer) - n
      /\ \A i \in 1 .. Len(internalBuffer) - n :
            internalBuffer'[i] = internalBuffer[n + i]
  BY CutType DEF TypeOK
<1>2. /\ popped = Len(accepted) - Len(internalBuffer)
      /\ popped' = Len(accepted') - Len(internalBuffer')
  BY DEF popped
<1>3. ASSUME NEW i \in 1 .. Len(internalBuffer')
      PROVE  internalBuffer'[i] = accepted'[popped' + i]
  <2>1. internalBuffer'[i] = internalBuffer[n + i]
    BY <1>1
  <2>2. n + i \in 1 .. Len(internalBuffer)
    BY <1>1
  <2>3. internalBuffer[n + i] = accepted[popped + (n + i)]
    BY <2>2 DEF BufferIsSuffix
  <2>4. popped + (n + i) = popped' + i
    BY <1>1, <1>2
  <2> QED
    BY <2>1, <2>3, <2>4
<1> QED
  BY <1>1, <1>3 DEF BufferIsSuffix

(* Every step keeps the buffer the end of what was accepted. *)
LEMMA SuffixStep ==
  TypeOK /\ BufferIsSuffix /\ [Next]_vars => BufferIsSuffix'
<1> SUFFICES ASSUME TypeOK, BufferIsSuffix, [Next]_vars
             PROVE  BufferIsSuffix'
  OBVIOUS
<1>1. CASE PushAndUnlock
  <2>1. /\ internalBuffer' = internalBuffer \o chunk
        /\ accepted' = accepted \o chunk
    BY <1>1 DEF PushAndUnlock, BufferAfterPush
  <2>2. /\ Len(internalBuffer') = Len(internalBuffer) + Len(chunk)
        /\ Len(accepted') = Len(accepted) + Len(chunk)
        /\ \A i \in 1 .. Len(internalBuffer') : internalBuffer'[i] =
             IF i <= Len(internalBuffer) THEN internalBuffer[i]
                                         ELSE chunk[i - Len(internalBuffer)]
        /\ \A i \in 1 .. Len(accepted') : accepted'[i] =
             IF i <= Len(accepted) THEN accepted[i]
                                   ELSE chunk[i - Len(accepted)]
    BY <2>1, ConcatProperties DEF TypeOK
  <2>3. /\ Len(internalBuffer) \in Nat /\ Len(accepted) \in Nat
        /\ Len(chunk) \in Nat
    BY DEF TypeOK
  <2>4. popped' = popped /\ popped = Len(accepted) - Len(internalBuffer)
    BY <2>2, <2>3 DEF popped
  <2>5. ASSUME NEW i \in 1 .. Len(internalBuffer')
        PROVE  internalBuffer'[i] = accepted'[popped' + i]
    <3>1. CASE i <= Len(internalBuffer)
      <4>1. /\ i \in 1 .. Len(internalBuffer)
            /\ popped + i \in 1 .. Len(accepted')
            /\ popped + i <= Len(accepted)
        BY <2>2, <2>3, <2>4, <3>1 DEF BufferIsSuffix
      <4>2. internalBuffer'[i] = internalBuffer[i]
        BY <2>2, <3>1
      <4>3. accepted'[popped + i] = accepted[popped + i]
        BY <2>2, <4>1
      <4> QED
        BY <2>4, <4>1, <4>2, <4>3 DEF BufferIsSuffix
    <3>2. CASE i > Len(internalBuffer)
      <4>1. internalBuffer'[i] = chunk[i - Len(internalBuffer)]
        BY <2>2, <2>3, <3>2
      <4>2. /\ popped' + i \in 1 .. Len(accepted')
            /\ popped' + i > Len(accepted)
            /\ (popped' + i) - Len(accepted) = i - Len(internalBuffer)
        BY <2>2, <2>3, <2>4, <3>2 DEF BufferIsSuffix
      <4>3. accepted'[popped' + i] = chunk[(popped' + i) - Len(accepted)]
        BY <2>2, <2>3, <4>2
      <4> QED
        BY <4>1, <4>2, <4>3
    <3> QED
      BY <2>2, <2>3, <3>1, <3>2
  <2> QED
    BY <2>2, <2>3, <2>5 DEF BufferIsSuffix
<1>2. CASE ReadHeader
  BY <1>2, SuffixPop DEF ReadHeader, TypeOK, peer, history
<1>3. CASE ExtractPacket
  <2>1. currentLength - STANDARD \in 0 .. Len(internalBuffer)
    BY <1>3, PayloadSize DEF ExtractPacket
  <2> QED
    BY <1>3, <2>1, SuffixPop DEF ExtractPacket, history
<1>4. CASE ~(PushAndUnlock \/ ReadHeader \/ ExtractPacket)
  <2>1. UNCHANGED << internalBuffer, accepted >>
    BY <1>4
    DEF Next, vars, header, peer, history, OwnerCall, OwnerStep, WorkerStep,
        SetOnPacketProcessedHandler, AddData, AddTooMuchData, LockForPush,
        NotifyOne, Destroy, NotifyAll, Join, LoopTest, LockForWork,
        EvaluatePredicate, Block, SpuriousWakeup, CheckStop, SkipHeader,
        AwaitPayload, CallHandler, SleepAndUnlock
  <2> QED
    BY <2>1 DEF BufferIsSuffix, popped
<1> QED
  BY <1>1, <1>2, <1>3, <1>4

(***************************************************************************)
(* The mutex, the wakeups and the stop flag.                               *)
(***************************************************************************)
ControlInv == LockInv /\ BlockInv /\ NoLostWakeup /\ StopInv /\ HandlerInv

(* Every step keeps what the threads know in step with the lock. *)
LEMMA ControlStep == TypeOK /\ ControlInv /\ [Next]_vars => ControlInv'
<1> SUFFICES ASSUME TypeOK, ControlInv, [Next]_vars PROVE ControlInv'
  OBVIOUS
<1> USE DEF header, peer, history, ControlInv, LockInv, BlockInv,
            NoLostWakeup, StopInv, HandlerInv, Pending, Critical, OwnerAt
<1>0. Len(delivered) \in Nat /\ deliveredAtStop \in Nat
  BY DEF TypeOK
<1>1. CASE SetOnPacketProcessedHandler
  BY <1>1 DEF SetOnPacketProcessedHandler
<1>2. CASE \E n \in ReadSizes : AddData(n) \/ AddTooMuchData(n)
  BY <1>2 DEF AddData, AddTooMuchData
<1>3. CASE LockForPush
  BY <1>3 DEF LockForPush
<1>4. CASE PushAndUnlock
  BY <1>4 DEF PushAndUnlock
<1>5. CASE NotifyOne
  BY <1>5 DEF NotifyOne, Notified
<1>6. CASE Destroy
  BY <1>0, <1>6 DEF Destroy
<1>7. CASE NotifyAll
  BY <1>7 DEF NotifyAll, Notified
<1>8. CASE Join
  BY <1>8 DEF Join
<1>9. CASE LoopTest
  BY <1>9 DEF LoopTest
<1>10. CASE LockForWork
  BY <1>10 DEF LockForWork
<1>11. CASE EvaluatePredicate
  BY <1>11 DEF EvaluatePredicate, WaitPredicate
<1>12. CASE Block
  BY <1>12 DEF Block
<1>13. CASE SpuriousWakeup
  BY <1>13 DEF SpuriousWakeup
<1>14. CASE CheckStop
  BY <1>14 DEF CheckStop, MustStop
<1>15. CASE ReadHeader
  BY <1>15 DEF ReadHeader
<1>16. CASE SkipHeader
  BY <1>16 DEF SkipHeader
<1>17. CASE AwaitPayload
  BY <1>0, <1>17 DEF AwaitPayload
<1>18. CASE ExtractPacket
  BY <1>0, <1>18 DEF ExtractPacket, TypeOK
<1>19. CASE CallHandler
  BY <1>0, <1>19 DEF CallHandler, TypeOK
<1>20. CASE SleepAndUnlock
  BY <1>20 DEF SleepAndUnlock
<1>21. CASE UNCHANGED vars
  BY <1>21 DEF vars
<1> QED
  BY <1>1, <1>2, <1>3, <1>4, <1>5, <1>6, <1>7, <1>8, <1>9, <1>10, <1>11,
     <1>12, <1>13, <1>14, <1>15, <1>16, <1>17, <1>18, <1>19, <1>20, <1>21
  DEF Next, OwnerCall, OwnerStep, WorkerStep

-----------------------------------------------------------------------------
(***************************************************************************)
(* The header in force.                                                    *)
(***************************************************************************)
(* A push adds to what was accepted, and pops nothing. *)
LEMMA PushAdds ==
  ASSUME TypeOK, BufferIsSuffix, PushAndUnlock
  PROVE  /\ popped' = popped /\ popped \in 0 .. Len(accepted)
         /\ accepted' \in Seq(Byte) /\ Len(accepted) <= Len(accepted')
         /\ \A i \in 1 .. Len(accepted) : accepted'[i] = accepted[i]
<1>1. /\ internalBuffer' = internalBuffer \o chunk
      /\ accepted' = accepted \o chunk
  BY DEF PushAndUnlock, BufferAfterPush
<1>2. /\ Len(internalBuffer') = Len(internalBuffer) + Len(chunk)
      /\ Len(accepted') = Len(accepted) + Len(chunk)
      /\ \A i \in 1 .. Len(accepted) : accepted'[i] = accepted[i]
      /\ accepted' \in Seq(Byte)
  BY <1>1, ConcatProperties DEF TypeOK
<1>3. /\ Len(internalBuffer) \in Nat /\ Len(accepted) \in Nat
      /\ Len(chunk) \in Nat
  BY DEF TypeOK
<1>4. popped' = popped /\ popped = Len(accepted) - Len(internalBuffer)
  BY <1>2, <1>3 DEF popped
<1> QED
  BY <1>2, <1>3, <1>4 DEF BufferIsSuffix

(* What was popped is not touched by a push, so a header stays what it was. *)
LEMMA HeaderKept ==
  ASSUME TypeOK, BufferIsSuffix, PushAndUnlock, popped >= STANDARD
  PROVE  /\ LengthAt(accepted, popped - STANDARD)' =
              LengthAt(accepted, popped - STANDARD)
         /\ HeaderInForce => HeaderInForce'
<1>1. /\ popped' = popped
      /\ \A i \in 1 .. STANDARD : accepted'[popped - STANDARD + i]
                                   = accepted[popped - STANDARD + i]
  <2>1. Len(accepted) \in Nat
    BY DEF TypeOK
  <2>2. \A i \in 1 .. STANDARD : popped - STANDARD + i \in 1 .. Len(accepted)
    BY <2>1, PushAdds
  <2> QED
    BY <2>2, PushAdds
<1>2. /\ accepted'[popped - STANDARD + 1] = accepted[popped - STANDARD + 1]
      /\ accepted'[popped - STANDARD + 2] = accepted[popped - STANDARD + 2]
      /\ LengthAt(accepted', popped - STANDARD)
           = LengthAt(accepted, popped - STANDARD)
  BY <1>1 DEF LengthAt
<1>3. UNCHANGED << currentID, isCompressed, currentLength >>
  BY DEF PushAndUnlock, header
<1>4. /\ popped' - STANDARD = popped - STANDARD
      /\ LengthAt(accepted, popped - STANDARD)'
           = LengthAt(accepted', popped' - STANDARD)
  BY <1>1 DEF LengthAt
<1> QED
  BY <1>1, <1>2, <1>3, <1>4 DEF HeaderInForce, LengthAt

(* Every step keeps the header in force what was popped last. *)
LEMMA InForceStep ==
  TypeOK /\ BufferIsSuffix /\ HeaderInv /\ [Next]_vars => HeaderInv'
<1> SUFFICES ASSUME TypeOK, BufferIsSuffix, HeaderInv, [Next]_vars
             PROVE  HeaderInv'
  OBVIOUS
<1>0. Len(accepted) \in Nat /\ Len(internalBuffer) \in Nat
  BY DEF TypeOK
<1>1. CASE PushAndUnlock
  <2>1. /\ hasReadHeader' = hasReadHeader /\ currentLength' = currentLength
        /\ worker' = worker
    BY <1>1 DEF PushAndUnlock, header
  <2>2. /\ hasReadHeader' => popped >= STANDARD
        /\ worker' = "terminated" => popped >= STANDARD
    BY <2>1 DEF HeaderInv
  <2>3. popped' = popped
    BY <1>1, PushAdds
  <2> QED
    BY <1>1, <2>1, <2>2, <2>3, HeaderKept DEF HeaderInv
<1>2. CASE ReadHeader
  <2>1. /\ Len(internalBuffer) >= STANDARD
        /\ internalBuffer' =
             SubSeq(internalBuffer, STANDARD + 1, Len(internalBuffer))
        /\ currentLength' = JoinLength(internalBuffer[3], internalBuffer[4])
        /\ currentID' = internalBuffer[1]
        /\ isCompressed' = (internalBuffer[2] # 0)
        /\ accepted' = accepted /\ worker' = "payload"
    BY <1>2 DEF ReadHeader, HeaderFlag, history
  <2>2. Len(internalBuffer') = Len(internalBuffer) - STANDARD
    <3>1. STANDARD \in 0 .. Len(internalBuffer)
      BY <1>0, <2>1
    <3> QED
      BY <2>1, <3>1, CutType DEF TypeOK
  <2>3. popped \in Nat /\ popped' = popped + STANDARD
    <3>1. /\ popped = Len(accepted) - Len(internalBuffer)
          /\ popped' = Len(accepted) - Len(internalBuffer')
          /\ Len(internalBuffer) <= Len(accepted)
      BY <2>1 DEF popped, BufferIsSuffix
    <3> QED
      BY <1>0, <2>2, <3>1
  <2>4. /\ internalBuffer[1] = accepted[popped + 1]
        /\ internalBuffer[2] = accepted[popped + 2]
        /\ internalBuffer[3] = accepted[popped + 3]
        /\ internalBuffer[4] = accepted[popped + 4]
    BY <1>0, <2>1 DEF BufferIsSuffix
  <2>5. internalBuffer[3] \in Byte /\ internalBuffer[4] \in Byte
    BY <1>0, <2>1, ElementOfSeq DEF TypeOK
  <2>6. currentLength' = accepted[popped + 3] + 256 * accepted[popped + 4]
    BY <2>1, <2>4, <2>5, JoinLengthOfBytes
  <2>7. popped' - STANDARD = popped /\ popped' >= STANDARD
    BY <2>3
  <2> QED
    BY <2>1, <2>4, <2>6, <2>7 DEF HeaderInv, HeaderInForce, LengthAt
<1>3. CASE ExtractPacket
  <2>1. /\ hasReadHeader /\ PayloadArrived /\ ~hasReadHeader'
        /\ accepted' = accepted
        /\ internalBuffer' = SubSeq(internalBuffer,
                               (currentLength - STANDARD) + 1,
                               Len(internalBuffer))
        /\ worker' = "terminated" =>
             ~Constructible(SubSeq(internalBuffer, 1, currentLength - STANDARD))
    BY <1>3 DEF ExtractPacket, history
  <2>2. currentLength - STANDARD \in 0 .. Len(internalBuffer)
    BY <2>1, PayloadSize
  <2>3. SUFFICES ASSUME worker' = "terminated"
                 PROVE  /\ popped' >= STANDARD
                        /\ LengthAt(accepted, popped - STANDARD)' = STANDARD
    BY <2>1 DEF HeaderInv
  <2>4. SubSeq(internalBuffer, 1, currentLength - STANDARD) = << >>
    BY <2>1, <2>3 DEF Constructible
  <2>5. currentLength - STANDARD = 0
    <3>1. Len(SubSeq(internalBuffer, 1, currentLength - STANDARD))
            = currentLength - STANDARD
      BY <2>2, CutType DEF TypeOK
    <3> QED
      BY <2>4, <3>1
  <2>6. Len(internalBuffer') = Len(internalBuffer)
    <3>1. Len(internalBuffer') = Len(internalBuffer) - (currentLength - STANDARD)
      BY <2>1, <2>2, CutType DEF TypeOK
    <3> QED
      BY <1>0, <2>5, <3>1
  <2>7. popped' = popped
    BY <2>1, <2>6 DEF popped
  <2>8. currentLength \in Nat
    BY WordIsNat DEF TypeOK
  <2> QED
    BY <2>1, <2>5, <2>7, <2>8 DEF HeaderInv, HeaderInForce, LengthAt
<1>4. CASE ~(PushAndUnlock \/ ReadHeader \/ ExtractPacket)
  <2>1. /\ UNCHANGED << internalBuffer, accepted, header >>
        /\ worker' = "terminated" => worker = "terminated"
    BY <1>4
    DEF Next, vars, header, peer, history, OwnerCall, OwnerStep, WorkerStep,
        SetOnPacketProcessedHandler, AddData, AddTooMuchData, LockForPush,
        NotifyOne, Destroy, NotifyAll, Join, LoopTest, LockForWork,
        EvaluatePredicate, Block, SpuriousWakeup, CheckStop, SkipHeader,
        AwaitPayload, CallHandler, SleepAndUnlock, Notified
  <2> QED
    BY <2>1 DEF HeaderInv, HeaderInForce, popped, LengthAt, header
<1> QED
  BY <1>1, <1>2, <1>3, <1>4

-----------------------------------------------------------------------------
(***************************************************************************)
(* The packets constructed, and those handed over.                         *)
(***************************************************************************)
(* The payload the worker pops is the rest of a frame of accepted bytes.   *)
LEMMA PoppedFrame ==
  ASSUME TypeOK, BufferIsSuffix, HeaderInv, hasReadHeader, PayloadArrived,
         NEW size, size = currentLength - STANDARD, size # 0
  PROVE  HoldsFrame(accepted, popped - STANDARD,
                    TCPPacket(currentID, SubSeq(internalBuffer, 1, size),
                              isCompressed),
                    popped + size)
<1>1. size \in Nat \ {0} /\ size <= Len(internalBuffer)
  BY PayloadSize
<1>2. /\ Len(accepted) \in Nat /\ Len(internalBuffer) \in Nat
      /\ popped = Len(accepted) - Len(internalBuffer) /\ popped >= STANDARD
      /\ HeaderInForce
  BY DEF TypeOK, popped, HeaderInv
<1>3. currentLength \in Nat
  BY WordIsNat DEF TypeOK
<1>4. PICK offset \in Nat : offset = popped - STANDARD
  <2>1. popped - STANDARD \in Nat
    BY <1>2
  <2> QED
    BY <2>1
<1>5. PICK next \in Nat : next = popped + size
  BY <1>1, <1>2
<1>6. /\ offset + STANDARD < next /\ next <= Len(accepted)
      /\ offset + STANDARD <= next /\ next - offset - STANDARD = size
      /\ offset + STANDARD = popped /\ next - offset = currentLength
  BY <1>1, <1>2, <1>3, <1>4, <1>5
<1>7. SubSeq(internalBuffer, 1, size)
        = SubSeq(accepted, offset + STANDARD + 1, next)
  <2>1. PICK a \in Seq(Byte) :
          /\ a = SubSeq(internalBuffer, 1, size) /\ Len(a) = size
          /\ \A j \in 1 .. size : a[j] = internalBuffer[j]
    <3>1. size \in 0 .. Len(internalBuffer) /\ internalBuffer \in Seq(Byte)
      BY <1>1, <1>2 DEF TypeOK
    <3>2. /\ SubSeq(internalBuffer, 1, size) \in Seq(Byte)
          /\ Len(SubSeq(internalBuffer, 1, size)) = size
          /\ \A j \in 1 .. size :
               SubSeq(internalBuffer, 1, size)[j] = internalBuffer[j]
      BY <3>1, CutType
    <3> QED
      BY <3>2
  <2>2. PICK b \in Seq(Byte) :
          /\ b = SubSeq(accepted, offset + STANDARD + 1, next)
          /\ Len(b) = size
          /\ \A j \in 1 .. size : b[j] = accepted[offset + STANDARD + j]
    <3>1. accepted \in Seq(Byte)
      BY DEF TypeOK
    <3>2. /\ SubSeq(accepted, offset + STANDARD + 1, next) \in Seq(Byte)
          /\ Len(SubSeq(accepted, offset + STANDARD + 1, next))
               = next - offset - STANDARD
          /\ \A j \in 1 .. next - offset - STANDARD :
               SubSeq(accepted, offset + STANDARD + 1, next)[j]
                 = accepted[offset + STANDARD + j]
      BY <1>4, <1>5, <1>6, <3>1, PayloadType
    <3> QED
      BY <1>6, <3>2
  <2>3. \A j \in 1 .. size : internalBuffer[j] = accepted[popped + j]
    <3>1. 1 .. size \subseteq 1 .. Len(internalBuffer)
      BY <1>1, <1>2
    <3>2. \A j \in 1 .. Len(internalBuffer) :
             internalBuffer[j] = accepted[popped + j]
      BY Zenon DEF BufferIsSuffix
    <3> QED
      BY <3>1, <3>2, Zenon
  <2>4. \A j \in 1 .. Len(a) : a[j] = b[j]
    BY <1>6, <2>1, <2>2, <2>3
  <2>5. a = b
    BY <2>1, <2>2, <2>4, SeqEqual
  <2> QED
    BY <2>1, <2>2, <2>5
<1>8. /\ LengthAt(accepted, offset) = next - offset
      /\ TCPPacket(currentID, SubSeq(internalBuffer, 1, size), isCompressed)
           = TCPPacket(accepted[offset + 1],
                       SubSeq(accepted, offset + STANDARD + 1, next),
                       accepted[offset + 2] # 0)
  BY <1>2, <1>4, <1>6, <1>7 DEF HeaderInForce
<1>9. HoldsFrame(accepted, offset,
        TCPPacket(currentID, SubSeq(internalBuffer, 1, size), isCompressed),
        next)
  BY <1>6, <1>8 DEF HoldsFrame
<1> QED
  BY <1>4, <1>5, <1>9

(* Every step keeps the packets constructed those of the accepted bytes. *)
LEMMA ConstructedStep ==
  TypeOK /\ BufferIsSuffix /\ HeaderInv /\ ConstructedInv /\ [Next]_vars
    => ConstructedInv'
<1> SUFFICES ASSUME TypeOK, BufferIsSuffix, HeaderInv, ConstructedInv,
                    [Next]_vars
             PROVE  ConstructedInv'
  OBVIOUS
<1>0. /\ Len(accepted) \in Nat /\ Len(internalBuffer) \in Nat
      /\ popped = Len(accepted) - Len(internalBuffer)
      /\ accepted \in Seq(Byte) /\ constructed \in Seq(PacketObject)
  BY DEF TypeOK, popped
<1>1. CASE PushAndUnlock
  <2>1. UNCHANGED << constructed, hasReadHeader, worker >>
    BY <1>1 DEF PushAndUnlock, header
  <2>2. Border' = Border
    BY <1>1, <2>1, PushAdds DEF Border
  <2>3. BeginsWith(accepted', constructed, Border)
    BY <1>0, <1>1, PushAdds, BeginsWithStill DEF ConstructedInv
  <2> QED
    BY <2>1, <2>2, <2>3 DEF ConstructedInv
<1>2. CASE ReadHeader
  <2>1. /\ worker = "header" /\ ~hasReadHeader /\ hasReadHeader'
        /\ Len(internalBuffer) >= STANDARD
        /\ internalBuffer' =
             SubSeq(internalBuffer, STANDARD + 1, Len(internalBuffer))
        /\ UNCHANGED << accepted, constructed >>
    BY <1>2 DEF ReadHeader, history
  <2>2. Len(internalBuffer') = Len(internalBuffer) - STANDARD
    <3>1. STANDARD \in 0 .. Len(internalBuffer)
      BY <1>0, <2>1
    <3> QED
      BY <2>1, <3>1, CutType DEF TypeOK
  <2>3. Border' = Border
    BY <1>0, <2>1, <2>2 DEF Border, popped
  <2> QED
    BY <2>1, <2>3 DEF ConstructedInv
<1>3. CASE ExtractPacket
  <2>1. PICK size : size = currentLength - STANDARD
    OBVIOUS
  <2>2. size \in 0 .. Len(internalBuffer)
    <3>1. TypeOK /\ PayloadArrived
      BY <1>3 DEF ExtractPacket
    <3> QED
      BY <2>1, <3>1, PayloadSize, Zenon
  <2>3. PICK data \in Seq(Byte) :
          /\ data = SubSeq(internalBuffer, 1, size) /\ Len(data) = size
    <3>1. /\ SubSeq(internalBuffer, 1, size) \in Seq(Byte)
          /\ Len(SubSeq(internalBuffer, 1, size)) = size
      BY <2>2, CutType DEF TypeOK
    <3> QED
      BY <3>1
  <2>4. /\ hasReadHeader /\ ~hasReadHeader' /\ PayloadArrived
        /\ worker = "payload"
        /\ internalBuffer' =
             SubSeq(internalBuffer, size + 1, Len(internalBuffer))
        /\ IF Constructible(data)
           THEN /\ constructed' = Append(constructed,
                                    TCPPacket(currentID, data, isCompressed))
                /\ worker' = "handler"
           ELSE worker' = "terminated" /\ UNCHANGED constructed
        /\ accepted' = accepted
    BY <1>3, <2>1, <2>3 DEF ExtractPacket, history
  <2>5. Len(internalBuffer') = Len(internalBuffer) - size
    <3>1. Len(SubSeq(internalBuffer, size + 1, Len(internalBuffer)))
            = Len(internalBuffer) - size
      BY <2>2, CutType DEF TypeOK
    <3> QED
      BY <2>4, <3>1
  <2>6. popped' = popped + size
    <3>1. popped' = Len(accepted) - Len(internalBuffer')
      BY <2>4 DEF popped
    <3>2. size \in Nat
      BY <2>2
    <3> QED
      BY <1>0, <2>5, <3>1, <3>2
  <2>7. CASE Constructible(data)
    <3>1. size # 0
      BY <2>3, <2>7 DEF Constructible
    <3>2. PICK next : next = TCPPacket(currentID, data, isCompressed)
      OBVIOUS
    <3>3. HoldsFrame(accepted, Border, next, popped')
      <4>1. HoldsFrame(accepted, popped - STANDARD, next, popped')
        BY <2>1, <2>3, <2>4, <2>6, <3>1, <3>2, PoppedFrame
      <4>2. Border = popped - STANDARD
        BY <2>4 DEF Border
      <4> QED
        BY <4>1, <4>2
    <3>4. next \in PacketObject
      BY <1>0, <3>3, HoldsFrameType
    <3>5. constructed' = Append(constructed, next) /\ Border' = popped'
      BY <2>4, <2>7, <3>2 DEF Border
    <3>6. BeginsWith(accepted, Append(constructed, next), popped')
      BY <1>0, <3>3, <3>4, BeginsWithMore DEF ConstructedInv
    <3> QED
      BY <2>4, <3>5, <3>6 DEF ConstructedInv
  <2>8. CASE ~Constructible(data)
    <3>1. size = 0
      BY <2>3, <2>8 DEF Constructible
    <3>2. popped' = popped
      BY <1>0, <2>6, <3>1
    <3>3. Border' = Border /\ constructed' = constructed
      BY <2>4, <2>8, <3>2 DEF Border
    <3> QED
      BY <2>4, <3>3 DEF ConstructedInv
  <2> QED
    BY <2>7, <2>8
<1>4. CASE ~(PushAndUnlock \/ ReadHeader \/ ExtractPacket)
  <2>1. /\ UNCHANGED << internalBuffer, accepted, header, constructed >>
        /\ worker' = "terminated" <=> worker = "terminated"
    BY <1>4
    DEF Next, vars, header, peer, history, OwnerCall, OwnerStep, WorkerStep,
        SetOnPacketProcessedHandler, AddData, AddTooMuchData, LockForPush,
        NotifyOne, Destroy, NotifyAll, Join, LoopTest, LockForWork,
        EvaluatePredicate, Block, SpuriousWakeup, CheckStop, SkipHeader,
        AwaitPayload, CallHandler, SleepAndUnlock, Notified
  <2>2. Border' = Border
    BY <2>1 DEF Border, popped, header
  <2> QED
    BY <2>1, <2>2 DEF ConstructedInv
<1> QED
  BY <1>1, <1>2, <1>3, <1>4

(* Every step keeps the packets handed over those constructed. *)
LEMMA HandedStep ==
  TypeOK /\ BufferIsSuffix /\ HeaderInv /\ HandlerInv /\ HandedInv /\ [Next]_vars
    => HandedInv'
<1> SUFFICES ASSUME TypeOK, BufferIsSuffix, HeaderInv, HandlerInv, HandedInv,
                    [Next]_vars
             PROVE  HandedInv'
  OBVIOUS
<1> USE DEF header, peer, history, HandedInv
<1>1. CASE SetOnPacketProcessedHandler
  BY <1>1 DEF SetOnPacketProcessedHandler, HandlerInv
<1>2. CASE \E n \in ReadSizes : AddData(n) \/ AddTooMuchData(n)
  <2> PICK n \in ReadSizes : AddData(n) \/ AddTooMuchData(n)
    BY <1>2
  <2>1. n \in Nat \ {0} /\ fed \in Nat
    <3>1. Len(input) \in Nat
      BY InputsAssumption DEF TypeOK
    <3> QED
      BY <3>1, SizesAssumption DEF TypeOK
  <2>2. fed' # 0
    BY <2>1 DEF AddData, AddTooMuchData
  <2> QED
    BY <2>2 DEF AddData, AddTooMuchData
<1>3. CASE PushAndUnlock
  <2>1. fed' = 0 => accepted' = << >> /\ chunk' = << >>
    BY <1>3 DEF PushAndUnlock
  <2> QED
    BY <1>3, <2>1 DEF PushAndUnlock
<1>4. CASE ExtractPacket
  <2>1. PICK next : \/ /\ constructed' = Append(constructed, next)
                       /\ worker' = "handler"
                    \/ constructed' = constructed /\ worker' = "terminated"
    BY <1>4 DEF ExtractPacket
  <2>2. /\ worker = "payload" /\ hasReadHeader
        /\ UNCHANGED << fed, accepted, chunk, handlerSet, delivered >>
    BY <1>4 DEF ExtractPacket
  <2>3. accepted # << >>
    <3>1. /\ popped >= STANDARD /\ popped = Len(accepted) - Len(internalBuffer)
          /\ Len(accepted) \in Nat /\ Len(internalBuffer) \in Nat
      BY <2>2 DEF HeaderInv, popped, TypeOK
    <3> QED
      BY <3>1
  <2>4. fed' # 0
    BY <2>2, <2>3
  <2>5. Append(constructed, next)[Len(constructed) + 1] = next
        /\ Len(Append(constructed, next)) = Len(constructed) + 1
    BY DEF TypeOK
  <2>6. constructed' = Append(constructed, next) => Last(constructed') = next
    BY <2>5 DEF Last
  <2> QED
    BY <2>1, <2>2, <2>4, <2>6
<1>5. CASE CallHandler
  BY <1>5 DEF CallHandler
<1>6. CASE ~(\/ SetOnPacketProcessedHandler \/ PushAndUnlock \/ ExtractPacket
            \/ CallHandler \/ \E n \in ReadSizes : AddData(n) \/ AddTooMuchData(n))
  <2>1. /\ UNCHANGED << fed, accepted, chunk, constructed, handlerSet,
                        delivered >>
        /\ worker' = "handler" <=> worker = "handler"
    BY <1>6
    DEF Next, vars, OwnerCall, OwnerStep, WorkerStep, LockForPush,
        NotifyOne, Destroy, NotifyAll, Join, LoopTest, LockForWork,
        EvaluatePredicate, Block, SpuriousWakeup, CheckStop, ReadHeader,
        SkipHeader, AwaitPayload, SleepAndUnlock, Notified
  <2> QED
    BY <2>1
<1> QED
  BY <1>1, <1>2, <1>3, <1>4, <1>5, <1>6

(* The packets handed over begin those constructed. *)
LEMMA DeliveredFirst ==
  ASSUME TypeOK, HandedInv
  PROVE  /\ Len(delivered) <= Len(constructed)
         /\ \A i \in 1 .. Len(delivered) : delivered[i] = constructed[i]
<1>1. /\ delivered \in Seq(PacketObject) /\ constructed \in Seq(PacketObject)
      /\ Len(delivered) \in Nat /\ Len(constructed) \in Nat
  BY DEF TypeOK
<1>2. CASE delivered = << >> \/ delivered = constructed
  BY <1>1, <1>2
<1>3. CASE constructed = Append(delivered, Last(constructed))
  BY <1>1, <1>3
<1> QED
  BY <1>2, <1>3 DEF HandedInv

(* They are frames of the accepted bytes. *)
LEMMA DeliveredAreFrames ==
  ASSUME TypeOK, BufferIsSuffix, HeaderInv, ConstructedInv, HandedInv
  PROVE  OnlyWholeFrames
<1>1. /\ delivered \in Seq(PacketObject) /\ constructed \in Seq(PacketObject)
      /\ accepted \in Seq(Byte)
  BY DEF TypeOK
<1>2. Border \in 0 .. Len(accepted)
  <2>1. /\ popped = Len(accepted) - Len(internalBuffer)
        /\ Len(accepted) \in Nat /\ Len(internalBuffer) \in Nat
        /\ Len(internalBuffer) <= Len(accepted)
    BY DEF TypeOK, popped, BufferIsSuffix
  <2> QED
    BY <2>1 DEF Border, HeaderInv
<1>3. PICK rest \in Seq(PacketObject) : rest = FramesFrom(accepted)[Border]
  BY <1>1, <1>2, FramesFromType
<1>4. FramesIn(accepted) = constructed \o rest
  BY <1>1, <1>3, BeginsWithFrames DEF ConstructedInv
<1>5. /\ constructed \o rest \in Seq(PacketObject)
      /\ Len(constructed \o rest) = Len(constructed) + Len(rest)
      /\ \A i \in 1 .. Len(constructed) :
           (constructed \o rest)[i] = constructed[i]
      /\ Len(rest) \in Nat /\ Len(constructed) \in Nat /\ Len(delivered) \in Nat
  BY <1>1, <1>3, ConcatProperties
<1>6. /\ Len(delivered) <= Len(constructed \o rest)
      /\ \A i \in 1 .. Len(delivered) :
           (constructed \o rest)[i] = delivered[i]
  BY <1>5, DeliveredFirst
<1>7. IsPrefix(delivered, constructed \o rest)
  BY <1>1, <1>5, <1>6, BeginsPrefix
<1> QED
  BY <1>4, <1>7 DEF OnlyWholeFrames

-----------------------------------------------------------------------------
(* The strengthening of the properties below is an invariant. *)
THEOREM Invariance == Spec => []IInv
<1>1. IInv /\ [Next]_vars => IInv'
  BY TypeStep, SuffixStep, ControlStep, InForceStep, ConstructedStep, HandedStep
  DEF IInv, ControlInv
<1> QED
  BY InitIInv, <1>1, PTL DEF Spec

(***************************************************************************)
(* Every variable keeps its C++ type, the 16-bit length included.          *)
(***************************************************************************)
THEOREM TypeCorrect == Spec => []TypeOK
BY Invariance, PTL DEF IInv

(***************************************************************************)
(* No interleaving of addData with the worker loses, repeats or reorders   *)
(* a byte.                                                                 *)
(***************************************************************************)
THEOREM BytesKept == Spec => []BufferIsSuffix
BY Invariance, PTL DEF IInv

(***************************************************************************)
(* The worker never sleeps on data that nobody will wake it for.           *)
(***************************************************************************)
THEOREM WakeupKept == Spec => []NoLostWakeup
BY Invariance, PTL DEF IInv

(***************************************************************************)
(* The destructor lets the worker deliver at most one more packet.         *)
(***************************************************************************)
THEOREM StopsInTime == Spec => []AtMostOneAfterStop
<1>1. IInv => AtMostOneAfterStop
  BY DEF IInv, TypeOK, StopInv, Pending, AtMostOneAfterStop
<1> QED
  BY <1>1, Invariance, PTL

(***************************************************************************)
(* Whatever the peer sends and however it is cut, the only header that     *)
(* ends the process is one with a length field of exactly STANDARD.        *)
(***************************************************************************)
THEOREM OnlyEmptyPayloadsCrash == Spec => []CrashOnlyOnEmptyPayload
BY Invariance, PTL DEF IInv, HeaderInv, CrashOnlyOnEmptyPayload

(***************************************************************************)
(* Whatever the peer sends, however it is cut and whatever chunk is lost,  *)
(* the handler is called with frames of the accepted bytes, each once and  *)
(* in order.                                                               *)
(***************************************************************************)
THEOREM FramesDelivered == Spec => []OnlyWholeFrames
BY Invariance, DeliveredAreFrames, PTL DEF IInv
=============================================================================
