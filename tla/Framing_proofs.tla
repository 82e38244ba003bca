--------------------------- MODULE Framing_proofs ---------------------------
(***************************************************************************)
(* What the peer builds is what the handler sees, for every sequence of    *)
(* packets and every way the stream is cut and the threads interleave; and *)
(* the buffer implements the abstract channel.                             *)
(***************************************************************************)
EXTENDS Framing, ProcessingBuffer_proofs

USE DEF STANDARD

-----------------------------------------------------------------------------
(***************************************************************************)
(* The inductive invariant on top of IInv.  What addData took, and what it *)
(* is about to take, is a prefix of the stream.                            *)
(***************************************************************************)
StreamInv ==
  /\ owner \notin { "lock", "push" } => chunk = << >>
  /\ Len(accepted) + Len(chunk) = fed
  /\ \A i \in 1 .. Len(accepted) : accepted[i] = input[i]
  /\ \A i \in 1 .. Len(chunk) : chunk[i] = input[Len(accepted) + i]

(***************************************************************************)
(* The worker is at the border of packet Len(constructed) + 1, or past the *)
(* header of that packet, which the header variables then describe.        *)
(***************************************************************************)
Next1 == Len(constructed) + 1

FrameInv ==
  /\ Len(constructed) <= Len(Packets)
  /\ \A i \in 1 .. Len(constructed) : constructed[i] = Packets[i]
  /\ popped = Start[Next1] + (IF hasReadHeader THEN STANDARD ELSE 0)
  /\ hasReadHeader =>
       /\ Next1 <= Len(Packets)
       /\ currentID = Packets[Next1].id
       /\ isCompressed = (Packets[Next1].isCompressed = 1)
       /\ currentLength = STANDARD + Len(Packets[Next1].data)

(***************************************************************************)
(* A handler set in time has been called for every packet but the one the  *)
(* worker is about to call it for.                                         *)
(***************************************************************************)
DeliveryInv ==
  /\ handlerSet => Len(constructed) =
                     Len(delivered) + (IF worker = "handler" THEN 1 ELSE 0)
  /\ ~handlerSet => delivered = << >>
  /\ \A i \in 1 .. Len(delivered) : delivered[i] = Packets[i]

(***************************************************************************)
(* The destructor is the owner's last call, and deliveredAtStop dates from *)
(* its start.                                                              *)
(***************************************************************************)
ClosingInv ==
  /\ stopProcessing => owner \in { "notifyAll", "join", "destroyed" }
  /\ stopProcessing => deliveredAtStop <= Len(delivered)

FInv == StreamInv /\ FrameInv /\ DeliveryInv /\ ClosingInv

-----------------------------------------------------------------------------
(* A length of at most 65535 is not cut by uint16_t. *)
LEMMA SmallLength ==
  ASSUME NEW n \in Nat, n <= MaxUint16
  PROVE  n \in Word /\ Uint16(n) = n
<1>1. n \in Word
  <2>1. MaxUint16 \in Nat
    BY DEF MaxUint16
  <2> QED
    BY <2>1 DEF Word
<1>2. Uint16(n) = n
  BY DEF MaxUint16, Uint16
<1> QED
  BY <1>1, <1>2

(***************************************************************************)
(* What the assumptions on the constants say of one packet.                *)
(***************************************************************************)
LEMMA PacketFacts ==
  ASSUME NEW k \in 1 .. Len(Packets)
  PROVE  /\ Len(Packets) \in Nat
         /\ Packets[k] \in PacketObject
         /\ Packets[k].data \in Seq(Byte)
         /\ Len(Packets[k].data) \in Nat \ { 0 }
         /\ STANDARD + Len(Packets[k].data) \in Word
         /\ Packets[k].length = STANDARD + Len(Packets[k].data)
         /\ Packets[k] = TCPPacket(Packets[k].id, Packets[k].data,
                                   Packets[k].isCompressed = 1)
         /\ Start[k] \in Nat /\ Start[k + 1] \in Nat
         /\ Start[k + 1] = Start[k] + STANDARD + Len(Packets[k].data)
<1> DEFINE p == Packets[k]
<1>1. /\ Packets \in Seq(PacketObject) /\ Len(Packets) \in Nat
      /\ k \in DOMAIN Packets
  BY PacketsAssumption
<1>2. p \in PacketObject
  BY <1>1, ElementOfSeq
<1>3. p.data \in Seq(Byte)
  BY <1>2 DEF PacketObject
<1>4. /\ p.data # << >> /\ STANDARD + Len(p.data) <= MaxUint16
      /\ p = TCPPacket(p.id, p.data, p.isCompressed = 1)
  BY <1>1, PacketsAssumption DEF Constructible
<1>5. Len(p.data) \in Nat \ { 0 }
  BY <1>3, <1>4, EmptySeq
<1>6. STANDARD + Len(p.data) \in Word
  BY <1>4, <1>5, SmallLength
<1>7. p.length = Uint16(STANDARD + Len(p.data))
  BY <1>4 DEF TCPPacket
<1>8. Uint16(STANDARD + Len(p.data)) = STANDARD + Len(p.data)
  BY <1>4, <1>5, SmallLength
<1>9. /\ Start[k] \in Nat /\ Start[k + 1] \in Nat
      /\ Start[k + 1] = Start[k] + STANDARD + Len(p.data)
  BY <1>1, StartAssumption
<1> QED
  BY <1>1, <1>2, <1>3, <1>4, <1>5, <1>6, <1>7, <1>8, <1>9

(***************************************************************************)
(* Where the header and the payload of a packet are in the stream.         *)
(***************************************************************************)
LEMMA StreamBytes ==
  ASSUME NEW k \in 1 .. Len(Packets), input \in Inputs
  PROVE  /\ input[Start[k] + 1] = Packets[k].id
         /\ input[Start[k] + 2] = Packets[k].isCompressed
         /\ JoinLength(input[Start[k] + 3], input[Start[k] + 4])
              = STANDARD + Len(Packets[k].data)
         /\ \A j \in 1 .. Len(Packets[k].data) :
              input[Start[k] + STANDARD + j] = Packets[k].data[j]
<1> DEFINE p == Packets[k]
<1>1. /\ p \in PacketObject /\ Len(p.data) \in Nat /\ Start[k] \in Nat
      /\ p.length \in Word /\ p.length = STANDARD + Len(p.data)
  BY PacketFacts
<1>2. \A j \in 1 .. STANDARD + Len(p.data) :
        input[Start[k] + j] = BuildPacket(p)[j]
  BY StreamAssumption, PacketsAssumption
<1> HIDE DEF p
<1>3. /\ input[Start[k] + 1] = p.id
      /\ input[Start[k] + 2] = p.isCompressed
      /\ input[Start[k] + 3] = LowByte(p.length)
      /\ input[Start[k] + 4] = HighByte(p.length)
  BY <1>1, <1>2, WireLayout
<1>4. JoinLength(input[Start[k] + 3], input[Start[k] + 4]) = p.length
  BY <1>1, <1>3, LengthRoundTrip
<1>5. ASSUME NEW j \in 1 .. Len(p.data)
      PROVE  input[Start[k] + STANDARD + j] = p.data[j]
  <2>1. input[Start[k] + (STANDARD + j)] = BuildPacket(p)[STANDARD + j]
    BY <1>1, <1>2
  <2>2. BuildPacket(p)[STANDARD + j] = p.data[j]
    BY <1>1, WireLayout
  <2>3. Start[k] + (STANDARD + j) = Start[k] + STANDARD + j
    BY <1>1
  <2> QED
    BY <2>1, <2>2, <2>3
<1> QED
  BY <1>1, <1>3, <1>4, <1>5 DEF p

-----------------------------------------------------------------------------
(* Nothing has been read, built or delivered at the start. *)
LEMMA InitFInv == Init => FInv
<1> SUFFICES ASSUME Init PROVE FInv
  OBVIOUS
<1>1. Len(Packets) \in Nat /\ Start[1] = 0
  BY PacketsAssumption, StartAssumption
<1> QED
  BY <1>1 DEF Init, FInv, StreamInv, FrameInv, Next1, popped, DeliveryInv,
              ClosingInv

(***************************************************************************)
(* addData takes the stream up in order.                                   *)
(***************************************************************************)
LEMMA StreamStep == TypeOK /\ StreamInv /\ [Next]_vars => StreamInv'
<1> SUFFICES ASSUME TypeOK, StreamInv, [Next]_vars PROVE StreamInv'
  OBVIOUS
<1>0. /\ Len(accepted) \in Nat /\ Len(chunk) \in Nat /\ fed \in Nat
      /\ input \in Seq(Byte)
  BY InputsAssumption DEF TypeOK
<1>1. CASE \E n \in ReadSizes : AddData(n)
  <2> PICK n \in ReadSizes : AddData(n)
    BY <1>1
  <2>1. n \in Nat /\ chunk = << >> /\ Len(chunk) = 0 /\ Len(accepted) = fed
    BY <1>0, SizesAssumption DEF AddData, OwnerAt, StreamInv
  <2>2. /\ Len(chunk') = n
        /\ \A i \in 1 .. n : chunk'[i] = input[fed + i]
    <3>1. \A i \in fed + 1 .. fed + n : input[i] \in Byte
      BY <1>0, <2>1, ElementOfSeq DEF AddData
    <3>2. /\ Len(SubSeq(input, fed + 1, fed + n)) = n
          /\ \A i \in 1 .. n :
               SubSeq(input, fed + 1, fed + n)[i] = input[fed + i]
      BY <1>0, <2>1, <3>1, SubSeqProperties
    <3> QED
      BY <3>2 DEF AddData
  <2> QED
    BY <1>0, <2>1, <2>2 DEF AddData, StreamInv, history
<1>2. CASE \E n \in ReadSizes : AddTooMuchData(n)
  <2>1. \A n \in ReadSizes : ~AddTooMuchData(n)
    BY SizesAssumption, ReadsFitAssumption DEF AddTooMuchData
  <2> QED
    BY <1>2, <2>1
<1>3. CASE PushAndUnlock
  <2>1. /\ Len(accepted') = Len(accepted) + Len(chunk)
        /\ \A i \in 1 .. Len(accepted) + Len(chunk) : accepted'[i] =
             IF i <= Len(accepted) THEN accepted[i]
                                   ELSE chunk[i - Len(accepted)]
    BY <1>3, ConcatProperties DEF PushAndUnlock, TypeOK
  <2>2. ASSUME NEW i \in 1 .. Len(accepted')
        PROVE  accepted'[i] = input[i]
    <3>1. CASE i <= Len(accepted)
      BY <1>0, <2>1, <3>1 DEF StreamInv
    <3>2. CASE i > Len(accepted)
      <4>1. /\ i - Len(accepted) \in 1 .. Len(chunk)
            /\ Len(accepted) + (i - Len(accepted)) = i
        BY <1>0, <2>1, <3>2
      <4>2. accepted'[i] = chunk[i - Len(accepted)]
        BY <1>0, <2>1, <3>2
      <4> QED
        BY <4>1, <4>2 DEF StreamInv
    <3> QED
      BY <1>0, <2>1, <3>1, <3>2
  <2>3. /\ chunk' = << >> /\ Len(chunk') = 0
        /\ fed' = fed /\ input' = input
    BY <1>3 DEF PushAndUnlock
  <2> QED
    BY <1>0, <2>1, <2>2, <2>3 DEF StreamInv
<1>4. CASE ~(\/ \E n \in ReadSizes : AddData(n) \/ AddTooMuchData(n)
             \/ PushAndUnlock)
  <2>1. /\ UNCHANGED << accepted, peer >>
        /\ owner' \in { "lock", "push" } <=> owner \in { "lock", "push" }
    BY <1>4
    DEF Next, vars, header, history, OwnerCall, OwnerStep, WorkerStep,
        OwnerAt, SetOnPacketProcessedHandler, LockForPush, NotifyOne,
        Destroy, NotifyAll, Join, LoopTest, LockForWork, EvaluatePredicate,
        Block, SpuriousWakeup, CheckStop, ReadHeader, SkipHeader,
        AwaitPayload, ExtractPacket, CallHandler, SleepAndUnlock
  <2> QED
    BY <2>1 DEF StreamInv, peer
<1> QED
  BY <1>1, <1>2, <1>3, <1>4

(***************************************************************************)
(* The byte the worker reads next, as a byte of the stream.                *)
(***************************************************************************)
LEMMA BufferByte ==
  ASSUME TypeOK, BufferIsSuffix, StreamInv,
         NEW i \in 1 .. Len(internalBuffer)
  PROVE  internalBuffer[i] = input[popped + i]
<1>1. Len(internalBuffer) \in Nat /\ Len(accepted) \in Nat
  BY DEF TypeOK
<1>2. internalBuffer[i] = accepted[popped + i]
  BY DEF BufferIsSuffix
<1>3. popped + i \in 1 .. Len(accepted)
  BY <1>1 DEF popped, BufferIsSuffix
<1> QED
  BY <1>2, <1>3 DEF StreamInv

(***************************************************************************)
(* Before a header, and while a byte is left, a packet is left.            *)
(***************************************************************************)
LEMMA PacketLeft ==
  ASSUME TypeOK, StreamInv, FrameInv, internalBuffer # << >>, ~hasReadHeader
  PROVE  Next1 \in 1 .. Len(Packets)
<1>1. /\ Len(constructed) \in Nat /\ Len(Packets) \in Nat
      /\ Len(accepted) \in Nat /\ Len(chunk) \in Nat /\ fed \in Nat
      /\ fed <= Len(input) /\ Len(input) = Start[Len(Packets) + 1]
      /\ Len(input) \in Nat
  BY InputsAssumption, StreamAssumption, PacketsAssumption DEF TypeOK
<1>2. Len(internalBuffer) \in Nat \ { 0 }
  BY EmptySeq DEF TypeOK
<1>3. popped < Start[Len(Packets) + 1]
  BY <1>1, <1>2 DEF popped, StreamInv
<1>4. Len(constructed) # Len(Packets)
  BY <1>1, <1>3 DEF FrameInv, Next1
<1> QED
  BY <1>1, <1>4 DEF FrameInv, Next1

(***************************************************************************)
(* readHeader finds the header of the next packet, and the worker cuts out *)
(* exactly that packet.                                                    *)
(***************************************************************************)
LEMMA HeaderStep ==
  ASSUME TypeOK, BufferIsSuffix, StreamInv, FrameInv, ReadHeader
  PROVE  FrameInv'
<1> DEFINE k == Next1
<1>1. /\ ~hasReadHeader /\ internalBuffer # << >>
      /\ Len(internalBuffer) \in Nat /\ Len(internalBuffer) >= STANDARD
      /\ Len(accepted) \in Nat /\ Len(constructed) \in Nat
  BY EmptySeq DEF ReadHeader, TypeOK
<1>2. k \in 1 .. Len(Packets)
  BY <1>1, PacketLeft
<1>3. /\ Packets[k].isCompressed \in { 0, 1 }
      /\ Start[k] \in Nat
  BY <1>2, PacketFacts DEF PacketObject
<1>4. popped = Start[k]
  BY <1>1, <1>3 DEF FrameInv
<1>5. \A i \in 1 .. 4 : internalBuffer[i] = input[Start[k] + i]
  BY <1>1, <1>4, BufferByte
<1>6. /\ internalBuffer[1] = Packets[k].id
      /\ internalBuffer[2] = Packets[k].isCompressed
      /\ JoinLength(internalBuffer[3], internalBuffer[4])
           = STANDARD + Len(Packets[k].data)
  BY <1>2, <1>5, StreamBytes DEF TypeOK
<1>7. /\ hasReadHeader' = TRUE
      /\ currentID' = Packets[k].id
      /\ isCompressed' = (Packets[k].isCompressed = 1)
      /\ currentLength' = STANDARD + Len(Packets[k].data)
      /\ UNCHANGED << accepted, constructed >>
      /\ internalBuffer' =
           SubSeq(internalBuffer, STANDARD + 1, Len(internalBuffer))
  BY <1>3, <1>6 DEF ReadHeader, HeaderFlag, history
<1>8. Len(internalBuffer') = Len(internalBuffer) - STANDARD
  <2>1. STANDARD \in 0 .. Len(internalBuffer) /\ internalBuffer \in Seq(Byte)
    BY <1>1 DEF TypeOK
  <2>2. Len(SubSeq(internalBuffer, STANDARD + 1, Len(internalBuffer)))
          = Len(internalBuffer) - STANDARD
    BY <2>1, CutType
  <2> QED
    BY <1>7, <2>2
<1>9. popped' = Start[k] + STANDARD
  <2>1. /\ popped = Len(accepted) - Len(internalBuffer)
        /\ popped' = Len(accepted') - Len(internalBuffer')
    BY DEF popped
  <2> QED
    BY <1>1, <1>3, <1>4, <1>7, <1>8, <2>1
<1>10. Next1' = k
  BY <1>7 DEF Next1
<1> HIDE DEF k
<1> QED
  BY <1>1, <1>2, <1>7, <1>9, <1>10 DEF FrameInv

(* The packet the worker cuts out is the next one of the stream. *)
LEMMA PayloadStep ==
  ASSUME TypeOK, BufferIsSuffix, StreamInv, FrameInv, ExtractPacket
  PROVE  /\ FrameInv'
         /\ constructed' = Append(constructed, Packets[Next1])
         /\ worker' = "handler"
<1> DEFINE k    == Next1
           size == currentLength - STANDARD
           data == SubSeq(internalBuffer, 1, size)
<1>1. /\ Len(internalBuffer) \in Nat /\ Len(accepted) \in Nat
      /\ constructed \in Seq(PacketObject) /\ Len(constructed) \in Nat
      /\ internalBuffer \in Seq(Byte)
      /\ isCompressed \in BOOLEAN
  BY DEF TypeOK
<1>2. /\ hasReadHeader
      /\ k \in 1 .. Len(Packets)
      /\ currentID = Packets[k].id
      /\ isCompressed = (Packets[k].isCompressed = 1)
      /\ currentLength = STANDARD + Len(Packets[k].data)
      /\ popped = Start[k] + STANDARD
  BY <1>1 DEF ExtractPacket, FrameInv, Next1
<1>3. /\ Packets[k].data \in Seq(Byte)
      /\ Len(Packets[k].data) \in Nat \ { 0 }
      /\ Start[k] \in Nat /\ Start[k + 1] \in Nat
      /\ Start[k + 1] = Start[k] + STANDARD + Len(Packets[k].data)
      /\ Packets[k] = TCPPacket(Packets[k].id, Packets[k].data,
                                Packets[k].isCompressed = 1)
      /\ Packets[k] \in PacketObject
      /\ Len(Packets) \in Nat
  BY <1>2, PacketFacts
<1>4. size = Len(Packets[k].data) /\ size \in 0 .. Len(internalBuffer)
  BY <1>1, <1>2, <1>3 DEF ExtractPacket, PayloadArrived
<1>5. data = Packets[k].data
  <2>1. /\ data \in Seq(Byte) /\ Len(data) = size
        /\ \A i \in 1 .. size : data[i] = internalBuffer[i]
    BY <1>1, <1>4, CutType
  <2>2. ASSUME NEW i \in 1 .. size
        PROVE  data[i] = Packets[k].data[i]
    <3>1. internalBuffer[i] = input[popped + i]
      BY <1>1, <1>4, BufferByte
    <3>2. input[Start[k] + STANDARD + i] = Packets[k].data[i]
      BY <1>2, <1>4, StreamBytes DEF TypeOK
    <3> QED
      BY <1>2, <2>1, <3>1, <3>2
  <2> HIDE DEF data, size
  <2> QED
    BY <1>3, <1>4, <2>1, <2>2, SeqEqual
<1>6. Constructible(data)
  BY <1>3, <1>5, EmptySeq DEF Constructible
<1>7. /\ hasReadHeader' = FALSE
      /\ internalBuffer' =
           SubSeq(internalBuffer, size + 1, Len(internalBuffer))
      /\ constructed' = Append(constructed,
                               TCPPacket(currentID, data, isCompressed))
      /\ worker' = "handler"
      /\ accepted' = accepted
  BY <1>6 DEF ExtractPacket, history
<1>8. constructed' = Append(constructed, Packets[k])
  BY <1>2, <1>3, <1>5, <1>7
<1>9. /\ Len(constructed') = Len(constructed) + 1
      /\ \A i \in 1 .. Len(constructed) : constructed'[i] = constructed[i]
      /\ constructed'[k] = Packets[k]
  BY <1>1, <1>3, <1>8, AppendProperties DEF Next1
<1>10. Len(internalBuffer') = Len(internalBuffer) - size
  BY <1>1, <1>4, <1>7, CutType
<1>11. popped' = Start[k + 1]
  <2>1. /\ popped = Len(accepted) - Len(internalBuffer)
        /\ popped' = Len(accepted') - Len(internalBuffer')
    BY DEF popped
  <2> HIDE DEF size, k
  <2>2. popped' = popped + size
    BY <1>1, <1>3, <1>4, <1>7, <1>10, <2>1
  <2> QED
    BY <1>2, <1>3, <1>4, <2>2
<1>12. Next1' = k + 1 /\ k = Len(constructed) + 1
  BY <1>1, <1>9 DEF Next1
<1>13. FrameInv'
  <2> HIDE DEF k
  <2>1. Len(constructed') <= Len(Packets)
    BY <1>1, <1>2, <1>3, <1>9, <1>12
  <2>2. ASSUME NEW i \in 1 .. Len(constructed')
        PROVE  constructed'[i] = Packets[i]
    BY <1>1, <1>9, <1>12 DEF FrameInv
  <2>3. popped' = Start[Next1'] + (IF hasReadHeader' THEN STANDARD ELSE 0)
    BY <1>3, <1>7, <1>11, <1>12
  <2> QED
    BY <1>7, <2>1, <2>2, <2>3 DEF FrameInv
<1> QED
  BY <1>7, <1>8, <1>13

(* Every step keeps the header variables in step with the stream. *)
LEMMA FrameStep ==
  TypeOK /\ BufferIsSuffix /\ StreamInv /\ FrameInv /\ [Next]_vars
    => FrameInv'
<1> SUFFICES ASSUME TypeOK, BufferIsSuffix, StreamInv, FrameInv, [Next]_vars
             PROVE  FrameInv'
  OBVIOUS
<1>1. CASE ReadHeader
  BY <1>1, HeaderStep
<1>2. CASE ExtractPacket
  BY <1>2, PayloadStep
<1>3. CASE ~(ReadHeader \/ ExtractPacket)
  <2>1. /\ UNCHANGED << header, constructed >>
        /\ \/ UNCHANGED << internalBuffer, accepted >>
           \/ /\ internalBuffer' = internalBuffer \o chunk
              /\ accepted' = accepted \o chunk
    BY <1>3
    DEF Next, vars, peer, history, OwnerCall, OwnerStep, WorkerStep,
        SetOnPacketProcessedHandler, AddData, AddTooMuchData, LockForPush,
        PushAndUnlock, BufferAfterPush, NotifyOne, Destroy, NotifyAll, Join,
        LoopTest, LockForWork, EvaluatePredicate, Block, SpuriousWakeup,
        CheckStop, SkipHeader, AwaitPayload, CallHandler, SleepAndUnlock
  <2>2. /\ popped = Len(accepted) - Len(internalBuffer)
        /\ popped' = Len(accepted') - Len(internalBuffer')
    BY DEF popped
  <2>3. popped' = popped
    <3>1. CASE UNCHANGED << internalBuffer, accepted >>
      BY <2>2, <3>1
    <3>2. CASE /\ internalBuffer' = internalBuffer \o chunk
               /\ accepted' = accepted \o chunk
      <4>1. /\ Len(internalBuffer') = Len(internalBuffer) + Len(chunk)
            /\ Len(accepted') = Len(accepted) + Len(chunk)
            /\ Len(internalBuffer) \in Nat /\ Len(accepted) \in Nat
            /\ Len(chunk) \in Nat
        BY <3>2, ConcatProperties DEF TypeOK
      <4> QED
        BY <2>2, <4>1
    <3> QED
      BY <2>1, <3>1, <3>2
  <2> QED
    BY <2>1, <2>3 DEF FrameInv, Next1, header
<1> QED
  BY <1>1, <1>2, <1>3

(***************************************************************************)
(* A handler set before the first byte has missed no packet.               *)
(***************************************************************************)
LEMMA NothingYet ==
  ASSUME TypeOK, BufferIsSuffix, StreamInv, FrameInv, fed = 0
  PROVE  Len(constructed) = 0
<1>1. /\ Len(constructed) \in Nat /\ Len(accepted) \in Nat
      /\ Len(internalBuffer) \in Nat /\ Len(chunk) \in Nat
      /\ Len(Packets) \in Nat
  BY PacketsAssumption DEF TypeOK
<1>2. popped <= 0
  BY <1>1 DEF popped, StreamInv
<1> SUFFICES ASSUME Len(constructed) # 0 PROVE FALSE
  OBVIOUS
<1> DEFINE k == Len(constructed)
<1>3. k \in 1 .. Len(Packets)
  BY <1>1 DEF FrameInv
<1>4. Start[k + 1] \in Nat /\ Start[k + 1] > 0
  BY <1>3, PacketFacts
<1> QED
  BY <1>2, <1>4 DEF FrameInv, Next1

(* Every step keeps what was delivered the packets before the next. *)
LEMMA DeliveryStep ==
  IInv /\ FInv /\ [Next]_vars => DeliveryInv'
<1> SUFFICES ASSUME IInv, FInv, [Next]_vars PROVE DeliveryInv'
  OBVIOUS
<1> USE DEF FInv
<1>0. /\ TypeOK /\ BufferIsSuffix /\ HandlerInv
      /\ Len(constructed) \in Nat /\ Len(delivered) \in Nat
      /\ constructed \in Seq(PacketObject) /\ delivered \in Seq(PacketObject)
  BY DEF IInv, TypeOK
<1>1. CASE SetOnPacketProcessedHandler
  <2>1. /\ fed = 0 /\ UNCHANGED << worker, constructed, delivered >>
    BY <1>1 DEF SetOnPacketProcessedHandler, history
  <2>2. Len(constructed) = 0 /\ worker # "handler"
    BY <1>0, <2>1, NothingYet, EmptySeq DEF HandlerInv
  <2>3. Len(delivered) = 0
    BY <1>0, <2>2 DEF DeliveryInv
  <2> QED
    BY <1>1, <2>1, <2>2, <2>3
    DEF DeliveryInv, SetOnPacketProcessedHandler
<1>2. CASE ExtractPacket
  <2>1. /\ constructed' = Append(constructed, Packets[Next1])
        /\ worker' = "handler" /\ worker # "handler"
        /\ UNCHANGED << handlerSet, delivered >>
    BY <1>0, <1>2, PayloadStep DEF ExtractPacket, history
  <2>2. Len(constructed') = Len(constructed) + 1
    BY <1>0, <2>1
  <2> QED
    BY <1>0, <2>1, <2>2 DEF DeliveryInv
<1>3. CASE CallHandler
  <2>1. /\ worker = "handler" /\ worker' = "sleep"
        /\ UNCHANGED << handlerSet, constructed >>
    BY <1>3 DEF CallHandler
  <2>2. CASE ~handlerSet
    BY <1>3, <2>1, <2>2 DEF CallHandler, DeliveryInv
  <2>3. CASE handlerSet
    <3>1. Len(constructed) = Len(delivered) + 1
      BY <2>1, <2>3 DEF DeliveryInv
    <3>2. Last(constructed) = Packets[Len(delivered) + 1]
      BY <1>0, <3>1 DEF Last, FrameInv
    <3>3. Last(constructed) \in PacketObject
      BY <1>0, <3>1, ElementOfSeq DEF Last
    <3>4. delivered' = Append(delivered, Last(constructed))
      BY <1>3, <2>3 DEF CallHandler
    <3>5. /\ Len(delivered') = Len(delivered) + 1
          /\ \A i \in 1 .. Len(delivered) : delivered'[i] = delivered[i]
          /\ delivered'[Len(delivered) + 1] = Last(constructed)
      BY <1>0, <3>3, <3>4, AppendProperties
    <3> QED
      BY <1>0, <2>1, <2>3, <3>1, <3>2, <3>5 DEF DeliveryInv
  <2> QED
    BY <2>2, <2>3
<1>4. CASE ~(SetOnPacketProcessedHandler \/ ExtractPacket \/ CallHandler)
  <2>1. /\ UNCHANGED << handlerSet, constructed, delivered >>
        /\ worker' = "handler" <=> worker = "handler"
    BY <1>4
    DEF Next, vars, header, peer, history, OwnerCall, OwnerStep, WorkerStep,
        AddData, AddTooMuchData, LockForPush, PushAndUnlock, NotifyOne,
        Destroy, NotifyAll, Join, Notified, LoopTest, LockForWork,
        EvaluatePredicate, Block, SpuriousWakeup, CheckStop, ReadHeader,
        SkipHeader, AwaitPayload, SleepAndUnlock
  <2> QED
    BY <2>1 DEF DeliveryInv
<1> QED
  BY <1>1, <1>2, <1>3, <1>4

(* Once the flag is set only the destructor runs, and deliveries stay. *)
LEMMA ClosingStep ==
  TypeOK /\ ClosingInv /\ [Next]_vars => ClosingInv'
<1> SUFFICES ASSUME TypeOK, ClosingInv, [Next]_vars PROVE ClosingInv'
  OBVIOUS
<1>0. Len(delivered) \in Nat /\ deliveredAtStop \in Nat
  BY DEF TypeOK
<1>1. CASE Destroy
  BY <1>0, <1>1 DEF Destroy, ClosingInv
<1>2. CASE CallHandler
  <2>1. Len(delivered') >= Len(delivered) /\ Len(delivered') \in Nat
    BY <1>0, <1>2 DEF CallHandler, TypeOK
  <2> QED
    BY <1>0, <1>2, <2>1 DEF CallHandler, ClosingInv
<1>3. CASE ~(Destroy \/ CallHandler)
  <2>1. /\ UNCHANGED << stopProcessing, delivered, deliveredAtStop >>
        /\ owner \in { "notifyAll", "join", "destroyed" } =>
             owner' \in { "notifyAll", "join", "destroyed" }
    BY <1>3
    DEF Next, vars, header, peer, history, OwnerCall, OwnerStep, WorkerStep,
        OwnerAt, SetOnPacketProcessedHandler, AddData, AddTooMuchData,
        LockForPush, PushAndUnlock, NotifyOne, NotifyAll, Join, LoopTest,
        LockForWork, EvaluatePredicate, Block, SpuriousWakeup, CheckStop,
        ReadHeader, SkipHeader, AwaitPayload, ExtractPacket, SleepAndUnlock
  <2> QED
    BY <2>1 DEF ClosingInv
<1> QED
  BY <1>1, <1>2, <1>3

-----------------------------------------------------------------------------
(* The strengthening of InOrder is an invariant of the threads. *)
THEOREM FramingInvariance == Spec => [](IInv /\ FInv)
<1>1. IInv /\ FInv /\ [Next]_vars => FInv'
  BY StreamStep, FrameStep, DeliveryStep, ClosingStep DEF FInv, IInv
<1> QED
  BY InitFInv, <1>1, Invariance, PTL DEF Spec

(***************************************************************************)
(* The packets the handler sees are the packets the peer built.            *)
(***************************************************************************)
THEOREM DeliveredInOrder == Spec => []InOrder
<1>1. IInv /\ FInv => InOrder
  <2> SUFFICES ASSUME IInv, FInv PROVE InOrder
    OBVIOUS
  <2>1. /\ Len(constructed) \in Nat /\ Len(delivered) \in Nat
        /\ Len(accepted) \in Nat /\ Len(internalBuffer) \in Nat
        /\ Len(Packets) \in Nat
    BY PacketsAssumption DEF IInv, TypeOK
  <2>2. Start[Next1] \in Nat /\ Start[Next1] <= Len(accepted)
    <3>1. Next1 \in 1 .. Len(Packets) + 1
      BY <2>1 DEF FInv, FrameInv, Next1
    <3>2. Start[Next1] \in Nat
      BY <3>1, StartAssumption
    <3>3. Start[Next1] <= popped /\ popped <= Len(accepted)
      BY <2>1, <3>2 DEF FInv, FrameInv, IInv, popped
    <3> QED
      BY <2>1, <3>2, <3>3 DEF popped
  <2>3. CASE ~handlerSet
    <3>1. Len(delivered) = 0
      BY <2>3 DEF FInv, DeliveryInv
    <3> QED
      BY <2>1, <3>1, StartAssumption DEF InOrder, FInv, DeliveryInv
  <2>4. CASE handlerSet /\ worker # "handler"
    <3>1. Len(delivered) = Len(constructed)
      BY <2>1, <2>4 DEF FInv, DeliveryInv
    <3> QED
      BY <2>1, <2>2, <3>1
      DEF InOrder, FInv, DeliveryInv, FrameInv, Next1
  <2>5. CASE handlerSet /\ worker = "handler"
    <3> DEFINE k == Len(delivered) + 1
    <3>1. Len(constructed) = k
      BY <2>1, <2>5 DEF FInv, DeliveryInv
    <3>2. k \in 1 .. Len(Packets)
      BY <2>1, <3>1 DEF FInv, FrameInv
    <3>3. /\ Start[k] \in Nat /\ Start[k + 1] \in Nat
          /\ Start[k] <= Start[k + 1]
      BY <3>2, PacketFacts
    <3>4. Start[k + 1] <= Len(accepted)
      BY <2>2, <3>1 DEF Next1
    <3> QED
      BY <2>1, <3>2, <3>3, <3>4 DEF InOrder, FInv, DeliveryInv
  <2> QED
    BY <2>3, <2>4, <2>5
<1> QED
  BY <1>1, FramingInvariance, PTL

-----------------------------------------------------------------------------
(***************************************************************************)
(* The refinement.  addData's push is an arrival, the call of the handler  *)
(* a delivery, the setting of the flag the beginning of the end; all other *)
(* steps are invisible above.                                              *)
(***************************************************************************)
LEMMA PushIsArrival ==
  ASSUME TypeOK, FInv, PushAndUnlock
  PROVE  [Channel!Next]_Channel!vars
<1>1. /\ Len(accepted) \in Nat /\ Len(chunk) \in Nat
      /\ fed <= Len(input) /\ Len(input) = Start[Len(Packets) + 1]
      /\ Len(input) \in Nat /\ fed \in Nat
      /\ Len(accepted) + Len(chunk) = fed
  BY InputsAssumption, StreamAssumption DEF TypeOK, FInv, StreamInv
<1>2. Len(accepted') = Len(accepted) + Len(chunk)
  BY ConcatProperties DEF PushAndUnlock, TypeOK
<1>3. ~stopProcessing
  BY DEF PushAndUnlock, OwnerAt, FInv, ClosingInv
<1>4. UNCHANGED << delivered, stopProcessing, deliveredAtStop >>
  BY DEF PushAndUnlock
<1>5. CASE Len(chunk) = 0
  BY <1>1, <1>2, <1>4, <1>5 DEF Channel!vars
<1>6. CASE Len(chunk) # 0
  <2>1. Len(accepted') \in Len(accepted) + 1 .. Start[Len(Packets) + 1]
    BY <1>1, <1>2, <1>6
  <2>2. Channel!Arrive
    BY <1>3, <1>4, <2>1 DEF Channel!Arrive
  <2> QED
    BY <2>2 DEF Channel!Next
<1> QED
  BY <1>5, <1>6

(* A call of the handler is a Deliver of the channel. *)
LEMMA CallIsDelivery ==
  ASSUME IInv, FInv, CallHandler
  PROVE  [Channel!Next]_Channel!vars
<1> USE DEF FInv
<1>1. /\ Len(delivered) \in Nat /\ Len(accepted) \in Nat
      /\ Len(internalBuffer) \in Nat
      /\ Len(constructed) \in Nat /\ deliveredAtStop \in Nat
      /\ constructed \in Seq(PacketObject) /\ delivered \in Seq(PacketObject)
  BY DEF IInv, TypeOK
<1>2. /\ worker = "handler"
      /\ UNCHANGED << accepted, stopProcessing, deliveredAtStop >>
  BY DEF CallHandler
<1>3. CASE ~handlerSet
  BY <1>2, <1>3 DEF CallHandler, Channel!vars
<1>4. CASE handlerSet
  <2> DEFINE k == Len(delivered) + 1
  <2>1. Len(constructed) = k
    BY <1>1, <1>2, <1>4 DEF DeliveryInv
  <2>2. k \in 1 .. Len(Packets) /\ k <= Len(Packets)
    BY <1>1, <2>1, PacketsAssumption DEF FrameInv
  <2>3. Start[k + 1] \in Nat
    BY <2>2, PacketFacts
  <2>4. Start[k + 1] <= Len(accepted)
    <3>1. Start[k + 1] <= popped
      BY <1>1, <2>1, <2>3 DEF FrameInv, Next1
    <3> QED
      BY <1>1, <2>3, <3>1 DEF popped, IInv
  <2>5. Last(constructed) = Packets[k] /\ Last(constructed) \in PacketObject
    BY <1>1, <2>1, ElementOfSeq DEF Last, FrameInv
  <2>6. delivered' = Append(delivered, Packets[k])
    BY <1>4, <2>5 DEF CallHandler
  <2>7. Len(delivered') = Len(delivered) + 1
    BY <1>1, <2>5, <2>6, AppendProperties
  <2>8. stopProcessing => Len(delivered) = deliveredAtStop
    BY <1>1, <1>2 DEF IInv, StopInv, Pending, ClosingInv
  <2>9. (IF stopProcessing THEN Len(delivered) - deliveredAtStop ELSE 0) = 0
    BY <1>1, <2>8
  <2>10. (IF stopProcessing' THEN Len(delivered') - deliveredAtStop' ELSE 0)
           = IF stopProcessing THEN 1 ELSE 0
    BY <1>1, <1>2, <2>7, <2>8
  <2>11. Channel!Deliver
    BY <1>2, <2>2, <2>4, <2>6, <2>9, <2>10 DEF Channel!Deliver
  <2> QED
    BY <2>11 DEF Channel!Next
<1> QED
  BY <1>3, <1>4

(***************************************************************************)
(* The threads, the lock and the headers implement PacketChannel.          *)
(***************************************************************************)
THEOREM BufferImplementsChannel == Spec => ImplementsChannel
<1>1. Init => Channel!Init
  BY DEF Init, Channel!Init
<1>2. IInv /\ FInv /\ [Next]_vars => [Channel!Next]_Channel!vars
  <2> SUFFICES ASSUME IInv, FInv, [Next]_vars
               PROVE  [Channel!Next]_Channel!vars
    OBVIOUS
  <2>1. CASE PushAndUnlock
    BY <2>1, PushIsArrival DEF IInv
  <2>2. CASE CallHandler
    BY <2>2, CallIsDelivery
  <2>3. CASE Destroy
    <3>1. /\ ~stopProcessing /\ stopProcessing'
          /\ UNCHANGED << accepted, delivered >>
          /\ deliveredAtStop' = Len(delivered)
          /\ Len(delivered) \in Nat
      BY <2>3 DEF Destroy, OwnerAt, FInv, ClosingInv, IInv, TypeOK
    <3>2. Channel!Close
      BY <3>1 DEF Channel!Close
    <3> QED
      BY <3>2 DEF Channel!Next
  <2>4. CASE ~(PushAndUnlock \/ CallHandler \/ Destroy)
    <3>1. UNCHANGED << accepted, delivered, stopProcessing, deliveredAtStop >>
      BY <2>4
      DEF Next, vars, header, peer, history, OwnerCall, OwnerStep, WorkerStep,
          SetOnPacketProcessedHandler, AddData, AddTooMuchData, LockForPush,
          NotifyOne, NotifyAll, Join, LoopTest, LockForWork,
          EvaluatePredicate, Block, SpuriousWakeup, CheckStop, ReadHeader,
          SkipHeader, AwaitPayload, ExtractPacket, SleepAndUnlock
    <3> QED
      BY <3>1 DEF Channel!vars
  <2> QED
    BY <2>1, <2>2, <2>3, <2>4
<1> QED
  BY <1>1, <1>2, FramingInvariance, PTL DEF Spec, ImplementsChannel, Channel!Spec
=============================================================================
