---------------------------- MODULE Sending_proofs ----------------------------
(***************************************************************************)
(* For every size of packet, clock, socket and order of the callers: what  *)
(* sendAsync takes is a packet that states its size, and while the writes  *)
(* do not meet the wire carries what was taken, in order.                  *)
(***************************************************************************)
EXTENDS Sending, InternalPackets_proofs, Stream_proofs

-----------------------------------------------------------------------------
(* Sequences.                                                              *)

(* A cut of a sequence in two. *)
LEMMA Cut ==
  ASSUME NEW s \in Seq(Byte), NEW n \in Nat, n <= Len(s)
  PROVE  /\ SubSeq(s, 1, n) \in Seq(Byte)
         /\ Behind(s, n) \in Seq(Byte) /\ Len(Behind(s, n)) = Len(s) - n
         /\ SubSeq(s, 1, n) \o Behind(s, n) = s
<1>1. Len(s) \in Nat /\ \A i \in 1 .. Len(s) : s[i] \in Byte
  OBVIOUS
<1>2. SubSeq(s, 1, n) \in Seq(Byte)
  BY <1>1, SubSeqProperties
<1>3. SubSeq(s, n + 1, Len(s)) \in Seq(Byte)
  BY <1>1, SubSeqProperties
<1>4. Len(SubSeq(s, n + 1, Len(s))) = Len(s) - n
  BY <1>1, SubSeqProperties
<1>5. SubSeq(s, 1, n) \o SubSeq(s, n + 1, Len(s)) = SubSeq(s, 1, Len(s))
  <2>1. 1 \in 1 .. Len(s) + 1 /\ n \in 1 - 1 .. Len(s) /\ Len(s) \in n .. Len(s)
    BY <1>1
  <2> QED
    BY <2>1, ConcatAdjacentSubSeq
<1>6. SubSeq(s, 1, Len(s)) = s
  BY SubSeqFull
<1> QED
  BY <1>2, <1>3, <1>4, <1>5, <1>6 DEF Behind

(* Three sequences may be joined from either end. *)
LEMMA JoinedInTwoWays ==
  \A s, t, u \in Seq(Byte) : (s \o t) \o u = s \o (t \o u)
BY ConcatAssociative

(* A prefix stays one when more is appended. *)
LEMMA PrefixOfConcat ==
  ASSUME NEW s \in Seq(Byte), NEW t \in Seq(Byte), NEW u \in Seq(Byte),
         IsPrefix(s, t)
  PROVE  IsPrefix(s, t \o u)
<1>1. /\ Len(s) \in Nat /\ Len(t) \in Nat /\ Len(u) \in Nat
      /\ Len(s) <= Len(t) /\ SubSeq(s, 1, Len(s)) = SubSeq(t, 1, Len(s))
  BY DEF IsPrefix
<1>2. Len(t \o u) = Len(t) + Len(u)
  BY ConcatProperties
<1>3. SubSeq(t \o u, 1, Len(s)) = SubSeq(t, 1, Len(s))
  <2>1. CASE Len(s) = 0
    BY <2>1, SubSeqEmpty
  <2>2. CASE Len(s) > 0
    BY <1>1, <2>2, SubSeqOfConcat1
  <2> QED
    BY <1>1, <2>1, <2>2
<1> QED
  BY <1>1, <1>2, <1>3 DEF IsPrefix

(* A sequence is a prefix of itself, and of what it begins. *)
LEMMA OwnPrefix ==
  ASSUME NEW s \in Seq(Byte), NEW t \in Seq(Byte)
  PROVE  IsPrefix(s, s) /\ IsPrefix(s, s \o t)
<1>1. IsPrefix(s, s)
  BY DEF IsPrefix
<1> QED
  BY <1>1, PrefixOfConcat

(* A sequence is one shorter without one of its elements. *)
LEMMA RemoveOne ==
  ASSUME NEW S, NEW s \in Seq(S), NEW i \in DOMAIN s
  PROVE  /\ RemoveAt(s, i) \in Seq(S)
         /\ Len(RemoveAt(s, i)) = Len(s) - 1
<1>1. /\ i \in Nat /\ Len(s) \in Nat /\ 1 <= i /\ i <= Len(s)
      /\ \A k \in 1 .. Len(s) : s[k] \in S
  OBVIOUS
<1>2. SubSeq(s, 1, i - 1) \in Seq(S) /\ Len(SubSeq(s, 1, i - 1)) = i - 1
  BY <1>1, SubSeqProperties
<1>3. /\ SubSeq(s, i + 1, Len(s)) \in Seq(S)
      /\ Len(SubSeq(s, i + 1, Len(s))) = Len(s) - i
  BY <1>1, SubSeqProperties
<1> DEFINE front == SubSeq(s, 1, i - 1)
           back == SubSeq(s, i + 1, Len(s))
<1>4. RemoveAt(s, i) = front \o back
  BY DEF RemoveAt
<1> HIDE DEF front, back
<1>5. front \o back \in Seq(S) /\ Len(front \o back) = Len(front) + Len(back)
  BY <1>2, <1>3, ConcatProperties DEF front, back
<1>6. Len(front) = i - 1 /\ Len(back) = Len(s) - i
  BY <1>2, <1>3 DEF front, back
<1> QED
  BY <1>1, <1>4, <1>5, <1>6

-----------------------------------------------------------------------------
(* Packets that are sent.                                                  *)

(* A packet that fits in its length field states its size there. *)
IsPacket(data) ==
  /\ data \in Seq(Byte) /\ Len(data) > 4
  /\ Len(data) <= 65535 => LengthAt(data, 0) = Len(data)

(* What buildPacket makes states its size, if 16 bits can hold that. *)
LEMMA BuiltPacket ==
  ASSUME NEW id \in Byte, NEW data \in Seq(Byte), data # << >>
  PROVE  IsPacket(BuildPacket(TCPPacket(id, data, FALSE)))
<1> DEFINE size == 4 + Len(data)
           length == Uint16(size)
           head == << id, 0, LowByte(length), HighByte(length) >>
           packet == head \o data
<1>1. Len(data) \in Nat /\ Len(data) > 0
  BY EmptySeq
<1>2. BuildPacket(TCPPacket(id, data, FALSE)) = packet
  BY DEF BuildPacket, TCPPacket, STANDARD
<1>3. length \in Int
  BY <1>1 DEF Uint16
<1>4. /\ LowByte(length) \in Byte /\ HighByte(length) \in Byte
      /\ LowByte(length) + 256 * HighByte(length) = length % 65536
  <2> HIDE DEF length
  <2> QED BY <1>3, WordSplit
<1>5. size <= 65535 => length = size /\ length % 65536 = size
  BY <1>1 DEF Uint16
<1> HIDE DEF length
<1>6. head \in Seq(Byte) /\ Len(head) = 4
  BY <1>4 DEF Byte
<1>7. head[3] = LowByte(length) /\ head[4] = HighByte(length)
  OBVIOUS
<1> HIDE DEF head
<1>8. /\ head \o data \in Seq(Byte) /\ Len(head \o data) = Len(head) + Len(data)
      /\ \A i \in Nat : i >= 1 /\ i <= Len(head) => (head \o data)[i] = head[i]
  BY <1>6, Concat
<1>9. /\ packet \in Seq(Byte) /\ Len(packet) = size
       /\ packet[3] = LowByte(length) /\ packet[4] = HighByte(length)
  BY <1>6, <1>7, <1>8
<1> HIDE DEF packet
<1>10. LengthAt(packet, 0) = packet[3] + 256 * packet[4]
  BY DEF LengthAt
<1>11. size <= 65535 => LengthAt(packet, 0) = size
  BY <1>4, <1>5, <1>9, <1>10
<1>12. IsPacket(packet)
  BY <1>1, <1>9, <1>11 DEF IsPacket
<1> QED
  BY <1>2, <1>12

(* What the application sends is laid out as a packet. *)
LEMMA AppPacketsArePackets ==
  ASSUME NEW id \in AppIDs, NEW payload \in Payloads
  PROVE  IsPacket(BuildPacket(TCPPacket(id, payload, FALSE)))
<1>1. id \in Byte
  BY SendingAssumption DEF Byte, Heartbeat
<1>2. payload \in Seq(Byte) /\ payload # << >>
  BY SendingAssumption DEF Constructible
<1> QED
  BY <1>1, <1>2, BuiltPacket

(* What sendHeartbeatAsync sends is laid out as a packet. *)
LEMMA PulsesArePackets ==
  ASSUME NEW since \in Int, NEW now \in Int
  PROVE  IsPacket(BuildPacket(TCPPacket(Heartbeat,
           HeartbeatToByteArray([ timeSinceLast |-> since,
                                  sentTimestamp |-> now ]), FALSE)))
<1> DEFINE bytes == Int64Bytes(since) \o Int64Bytes(now)
<1>1. HeartbeatToByteArray([ timeSinceLast |-> since,
                             sentTimestamp |-> now ]) = bytes
  BY DEF HeartbeatToByteArray
<1>2. bytes \in Seq(Byte) /\ Len(bytes) = 16
  BY TwoIntegers
<1> HIDE DEF bytes
<1>3. bytes # << >>
  BY <1>2
<1>4. Heartbeat \in Byte
  BY DEF Byte, Heartbeat
<1> QED
  BY <1>1, <1>2, <1>3, <1>4, BuiltPacket

(* What disconnectAsync sends is laid out as a packet. *)
LEMMA GoodbyesArePackets ==
  ASSUME NEW now \in Int
  PROVE  IsPacket(BuildPacket(TCPPacket(CGoodbye,
           GoodbyeToByteArray([ timeout |-> ClientTimeout,
                                sentTime |-> now ]), FALSE)))
<1> DEFINE seconds == now \div 1000
           bytes == Int64Bytes(ClientTimeout) \o Int64Bytes(seconds)
<1>1. GoodbyeToByteArray([ timeout |-> ClientTimeout,
                           sentTime |-> now ]) = bytes
  BY DEF GoodbyeToByteArray
<1>2. seconds \in Int /\ ClientTimeout \in Int
  BY DEF ClientTimeout
<1> HIDE DEF seconds
<1>3. bytes \in Seq(Byte) /\ Len(bytes) = 16
  BY <1>2, TwoIntegers
<1> HIDE DEF bytes
<1>4. bytes # << >>
  BY <1>3
<1>5. CGoodbye \in Byte
  BY DEF Byte, CGoodbye
<1> QED
  BY <1>1, <1>3, <1>4, <1>5, BuiltPacket

-----------------------------------------------------------------------------
(***************************************************************************)
(* The inductive invariant.  That the wire is a prefix of what was given   *)
(* does not carry over: while the socket is open, what sendAsync was given *)
(* is on the wire but for the rest of the one write that is outstanding.   *)
(***************************************************************************)
Rest == IF writes = << >> THEN << >> ELSE writes[1].rest

OpenInv ==
  orderly => /\ IsPrefix(wire, given)
             /\ socket = "open" => given = wire \o Rest

StreamInv ==
  /\ writes \in Seq(Write)
  /\ wire \in Seq(Byte) /\ given \in Seq(Byte)
  /\ taken \in Seq(Seq(Byte)) /\ Len(taken) <= MaxCalls
  /\ orderly \in BOOLEAN /\ (orderly => Len(writes) <= 1)
  /\ LengthIsTold
  /\ OpenInv

ControlInv ==
  /\ connected \in BOOLEAN
  /\ socket \in { "open", "broken", "closed" }
  /\ lastHeartbeatSent \in Times \cup { 0 }
  /\ disconnecting \in { "idle", "goodbye", "close", "join", "done" }

(***************************************************************************)
(* What was given is packets and nothing else: those that were taken, one  *)
(* behind the other.  A goodbye among them says what a GoodbyePacket said  *)
(* that was built, and there is one if one was built.                      *)
(***************************************************************************)
SaysGoodbye(p) ==
  p.id = CGoodbye => \E bye \in built : ReadsBackAs(p.data, bye)

AreTaken(packets) ==
  /\ packets \in Seq(PacketObject) /\ Len(packets) = Len(taken)
  /\ BeginsWith(given, packets, Len(given))
  /\ \A k \in 1 .. Len(packets) :
       taken[k] = BuildPacket(packets[k]) /\ SaysGoodbye(packets[k])
  /\ (\E bye \in built : "timeout" \in DOMAIN bye)
       => \E k \in 1 .. Len(packets) : packets[k].id = CGoodbye

PacketsInv == \E packets : AreTaken(packets)

IInv == ControlInv /\ StreamInv /\ PacketsInv

(* The strengthened invariant holds on a fresh connection. *)
LEMMA InitIInv == Init => IInv
<1> SUFFICES ASSUME Init PROVE IInv
  OBVIOUS
<1>1. ControlInv
  BY DEF Init, ControlInv
<1>2. /\ writes = << >> /\ wire = << >> /\ given = << >> /\ taken = << >>
      /\ orderly = TRUE
  BY DEF Init
<1>3. LengthIsTold
  BY <1>2 DEF LengthIsTold
<1>4. OpenInv
  <2>1. << >> \in Seq(Byte) /\ << >> \o << >> = << >>
    BY ConcatEmptySeq
  <2>2. IsPrefix(<< >>, << >>)
    BY <2>1, OwnPrefix
  <2> QED
    BY <1>2, <2>1, <2>2 DEF OpenInv, Rest
<1>5. MaxCalls >= 0
  BY SendingAssumption
<1>6. /\ writes \in Seq(Write) /\ wire \in Seq(Byte) /\ given \in Seq(Byte)
      /\ taken \in Seq(Seq(Byte)) /\ Len(taken) <= MaxCalls
      /\ Len(writes) <= 1
  BY <1>2, <1>5
<1>7. PacketsInv
  <2>1. BeginsWith(given, << >>, 0) /\ Len(given) = 0 /\ built = { }
    BY <1>2, BeginsWithNothing DEF Init
  <2>2. << >> \in Seq(PacketObject) /\ Len(<< >>) = 0 /\ Len(taken) = 0
    BY <1>2
  <2>3. AreTaken(<< >>)
    BY <2>1, <2>2 DEF AreTaken
  <2> QED
    BY <2>3 DEF PacketsInv
<1> QED
  BY <1>1, <1>2, <1>3, <1>4, <1>6, <1>7 DEF IInv, StreamInv

-----------------------------------------------------------------------------
(* A packet of the maximum size has a length of 16 bits. *)
LEMMA MaxSize == MAX_PACKET_SIZE \in Int /\ MAX_PACKET_SIZE <= 65535
<1>1. MaxUint16 \in Nat
  BY DEF MaxUint16
<1>2. MAX_PACKET_SIZE \in Int /\ MAX_PACKET_SIZE <= MaxUint16
  BY <1>1, SendingAssumption
<1> QED
  BY <1>2 DEF MaxUint16

(* A size up to the maximum does not wrap when it is put in the header. *)
LEMMA SizeDoesNotWrap ==
  ASSUME NEW size \in Nat, size <= MAX_PACKET_SIZE
  PROVE  Uint16(size) = size
<1>1. size <= 65535
  BY MaxSize
<1>2. size % 65536 = size
  BY <1>1
<1> QED
  BY <1>2 DEF Uint16

(* What sendAsync accepts states its size. *)
LEMMA AcceptedIsTold ==
  ASSUME NEW data, IsPacket(data), NEW rtt, Accepts(data, rtt)
  PROVE  /\ data \in Seq(Byte) /\ Len(data) \in Nat /\ Len(data) > 4
         /\ LengthAt(data, 0) = Len(data)
<1>1. data \in Seq(Byte) /\ Len(data) > 4 /\ Len(data) <= MAX_PACKET_SIZE
  BY DEF IsPacket, Accepts
<1>2. Len(data) \in Nat
  BY <1>1
<1>3. Len(data) <= 65535
  BY <1>1, <1>2, MaxSize
<1> QED
  BY <1>1, <1>2, <1>3 DEF IsPacket

(* The socket takes no more than there is, and nothing when not open. *)
LEMMA PartsOf ==
  ASSUME NEW data \in Seq(Byte), NEW n \in Parts(data)
  PROVE  n \in Nat /\ n <= Len(data) /\ (socket # "open" => n = 0)
<1>1. Len(data) \in Nat
  OBVIOUS
<1> QED
  BY <1>1 DEF Parts

(* Starting a write keeps the stream in order. *)
LEMMA StartKeepsStream ==
  ASSUME StreamInv, NEW data, IsPacket(data), NEW lasting \in BOOLEAN,
         SendAsync(data, lasting), UNCHANGED socket
  PROVE  StreamInv'
<1>1. PICK rtt \in RTTs : /\ Accepts(data, rtt) /\ StartWrite(data, lasting)
                         /\ Len(taken) < MaxCalls
  BY DEF SendAsync
<1>2. /\ data \in Seq(Byte) /\ Len(data) \in Nat /\ Len(data) > 4
      /\ LengthAt(data, 0) = Len(data)
  BY <1>1, AcceptedIsTold
<1>3. PICK n \in Parts(data) :
        /\ wire' = wire \o SubSeq(data, 1, n)
        /\ writes' = IF n = Len(data) THEN writes
                     ELSE Append(writes, [ rest |-> Behind(data, n),
                                           lasting |-> lasting ])
  BY <1>1 DEF StartWrite
<1>4. n \in Nat /\ n <= Len(data) /\ (socket # "open" => n = 0)
  BY <1>2, PartsOf
<1>5. /\ SubSeq(data, 1, n) \in Seq(Byte)
      /\ Behind(data, n) \in Seq(Byte)
      /\ Len(Behind(data, n)) = Len(data) - n
      /\ SubSeq(data, 1, n) \o Behind(data, n) = data
  BY <1>2, <1>4, Cut
<1>6. /\ Len(taken) < MaxCalls /\ taken' = Append(taken, data)
      /\ given' = given \o data /\ orderly' = (orderly /\ writes = << >>)
  BY <1>1 DEF StartWrite
<1>7. /\ writes \in Seq(Write) /\ wire \in Seq(Byte) /\ given \in Seq(Byte)
      /\ taken \in Seq(Seq(Byte)) /\ orderly \in BOOLEAN
  BY DEF StreamInv
<1>8. /\ taken' \in Seq(Seq(Byte)) /\ Len(taken') = Len(taken) + 1
      /\ \A i \in 1 .. Len(taken) : taken'[i] = taken[i]
      /\ taken'[Len(taken) + 1] = data
  BY <1>2, <1>6, <1>7, AppendProperties
<1>9. Len(taken') <= MaxCalls
  BY <1>6, <1>7, <1>8, SendingAssumption
<1>10. LengthIsTold'
  <2>1. ASSUME NEW k \in 1 .. Len(taken) + 1
        PROVE  Len(taken'[k]) > 4 /\ LengthAt(taken'[k], 0) = Len(taken'[k])
    <3>1. CASE k = Len(taken) + 1
      BY <1>2, <1>8, <3>1
    <3>2. CASE k \in 1 .. Len(taken)
      BY <1>7, <1>8, <3>2 DEF StreamInv, LengthIsTold, STANDARD
    <3> QED
      BY <1>7, <3>1, <3>2
  <2>2. DOMAIN (taken') = 1 .. Len(taken) + 1
    BY <1>8
  <2> QED
    BY <2>1, <2>2 DEF LengthIsTold, STANDARD
<1> DEFINE write == [ rest |-> Behind(data, n), lasting |-> lasting ]
<1>11. n # Len(data) => write \in Write
  BY <1>2, <1>4, <1>5 DEF Write
<1>12. /\ n # Len(data) => /\ writes' \in Seq(Write)
                           /\ Len(writes') = Len(writes) + 1
                           /\ writes = << >> => writes'[1] = write
       /\ n = Len(data) => writes' = writes
  <2>1. CASE n = Len(data)
    BY <1>3, <2>1
  <2>2. CASE n # Len(data)
    <3>1. writes' = Append(writes, write) /\ write \in Write
      BY <1>3, <1>11, <2>2
    <3> HIDE DEF write
    <3>2. /\ writes' \in Seq(Write) /\ Len(writes') = Len(writes) + 1
          /\ writes'[Len(writes) + 1] = write
      BY <1>7, <3>1, AppendProperties
    <3> QED
      BY <2>2, <3>2
  <2> QED
    BY <2>1, <2>2
<1>13. writes' \in Seq(Write)
  BY <1>7, <1>12
<1>14. orderly' => orderly /\ writes = << >> /\ Len(writes') <= 1
  <2>1. orderly' => orderly /\ writes = << >>
    BY <1>6
  <2>2. writes = << >> => Len(writes) = 0
    OBVIOUS
  <2> HIDE DEF write
  <2>3. writes = << >> => Len(writes') <= 1
    <3>1. CASE n = Len(data)
      BY <1>12, <2>2, <3>1
    <3>2. CASE n # Len(data)
      <4>1. Len(writes') = Len(writes) + 1
        BY <1>12, <3>2
      <4> QED
        BY <2>2, <4>1
    <3> QED
      BY <3>1, <3>2
  <2> QED
    BY <2>1, <2>3
<1>15. wire' \in Seq(Byte) /\ given' \in Seq(Byte) /\ orderly' \in BOOLEAN
  BY <1>2, <1>3, <1>5, <1>6, <1>7, ConcatProperties
<1>16. ASSUME orderly'
       PROVE  IsPrefix(wire', given') /\ (socket' = "open" => given' = wire' \o Rest')
  <2>1. orderly /\ writes = << >>
    BY <1>14, <1>16
  <2>2. CASE socket = "open"
    <3>1. given = wire
      <4>1. given = wire \o << >>
        BY <2>1, <2>2 DEF StreamInv, OpenInv, Rest
      <4> QED
        BY <1>7, <4>1, ConcatEmptySeq
    <3>2. Rest' = Behind(data, n)
      <4>1. CASE n = Len(data)
        <5>1. Behind(data, n) = << >>
          BY <1>2, <1>5, <4>1, EmptySeq
        <5> QED
          BY <1>12, <2>1, <4>1, <5>1 DEF Rest
      <4>2. CASE n # Len(data)
        <5>1. writes'[1] = write
          BY <1>12, <2>1, <4>2
        <5>2. writes' # << >>
          <6>1. Len(writes') = Len(writes) + 1 /\ Len(writes) \in Nat
            BY <1>7, <1>12, <4>2
          <6> QED
            BY <6>1
        <5> QED
          BY <5>1, <5>2 DEF Rest
      <4> QED
        BY <4>1, <4>2
    <3>3. given' = wire \o data
      BY <1>6, <3>1
    <3>4. given' = (wire \o SubSeq(data, 1, n)) \o Behind(data, n)
      <4> DEFINE front == SubSeq(data, 1, n)
                 back  == Behind(data, n)
      <4>1. front \in Seq(Byte) /\ back \in Seq(Byte) /\ front \o back = data
        BY <1>5
      <4> HIDE DEF front, back
      <4>2. (wire \o front) \o back = wire \o (front \o back)
        BY <1>7, <4>1, JoinedInTwoWays, Zenon
      <4>3. given' = (wire \o front) \o back
        BY <3>3, <4>1, <4>2
      <4> QED
        BY <4>3 DEF front, back
    <3>5. given' = wire' \o Behind(data, n)
      BY <1>3, <3>4
    <3>6. IsPrefix(wire', given')
      BY <1>5, <1>15, <3>5, OwnPrefix
    <3> QED
      BY <3>2, <3>5, <3>6
  <2>3. CASE socket # "open"
    <3>1. IsPrefix(wire, given)
      BY <2>1 DEF StreamInv, OpenInv
    <3>2. wire' = wire
      <4>1. SubSeq(data, 1, n) = << >>
        BY <1>4, <2>3, SubSeqEmpty
      <4> QED
        BY <1>3, <1>7, <4>1, ConcatEmptySeq
    <3>3. IsPrefix(wire', given')
      BY <1>2, <1>6, <1>7, <3>1, <3>2, PrefixOfConcat
    <3> QED
      BY <2>3, <3>3
  <2> QED
    BY <2>2, <2>3
<1>17. OpenInv'
  BY <1>16 DEF OpenInv
<1> QED
  BY <1>8, <1>9, <1>10, <1>13, <1>14, <1>15, <1>17 DEF StreamInv

(* Writing the next part of a write keeps the stream in order. *)
LEMMA ContinueKeepsStream ==
  ASSUME StreamInv, NEW i \in DOMAIN writes, ContinueWrite(i)
  PROVE  StreamInv'
<1> DEFINE write == writes[i]
           rest  == write.rest
<1>1. /\ writes \in Seq(Write) /\ wire \in Seq(Byte) /\ given \in Seq(Byte)
      /\ taken \in Seq(Seq(Byte)) /\ Len(taken) <= MaxCalls
      /\ orderly \in BOOLEAN /\ (orderly => Len(writes) <= 1)
      /\ LengthIsTold
  BY DEF StreamInv
<1>2. write \in Write
  BY <1>1
<1>3. rest \in Seq(Byte) /\ rest # << >> /\ write.lasting \in BOOLEAN
  <2> HIDE DEF write
  <2> QED BY <1>2 DEF Write
<1>4. PICK n \in Parts(rest) \ { 0 } :
        /\ \/ wire' = wire \o SubSeq(rest, 1, n)
           \/ ~write.lasting /\ wire' = wire \o [ k \in 1 .. n |-> Junk ]
        /\ writes' = IF n = Len(rest) THEN RemoveAt(writes, i)
                     ELSE [ writes EXCEPT ![i].rest = Behind(rest, n) ]
        /\ orderly' = (orderly /\ write.lasting)
  BY DEF ContinueWrite
<1>5. socket = "open" /\ UNCHANGED << socket, taken, given >>
  BY DEF ContinueWrite
<1>6. /\ writes' = IF n = Len(rest) THEN RemoveAt(writes, i)
                   ELSE [ writes EXCEPT ![i] = [ rest |-> Behind(rest, n),
                                                 lasting |-> write.lasting ] ]
  <2>1. write = [ rest |-> write.rest, lasting |-> write.lasting ]
    <3> HIDE DEF write
    <3> QED BY <1>2 DEF Write
  <2>2. [ write EXCEPT !.rest = Behind(rest, n) ] =
          [ rest |-> Behind(rest, n), lasting |-> write.lasting ]
    <3> HIDE DEF write
    <3> QED BY <2>1
  <2>3. [ writes EXCEPT ![i].rest = Behind(rest, n) ] =
          [ writes EXCEPT ![i] = [ write EXCEPT !.rest = Behind(rest, n) ] ]
    OBVIOUS
  <2> QED
    BY <1>4, <2>2, <2>3
<1> HIDE DEF write
<1> HIDE DEF rest
<1>7. n \in Nat /\ n > 0 /\ n <= Len(rest) /\ Len(rest) \in Nat
  BY <1>3, <1>4, PartsOf
<1>8. /\ SubSeq(rest, 1, n) \in Seq(Byte)
      /\ Behind(rest, n) \in Seq(Byte)
      /\ Len(Behind(rest, n)) = Len(rest) - n
      /\ SubSeq(rest, 1, n) \o Behind(rest, n) = rest
  BY <1>3, <1>7, Cut
<1> DEFINE left == [ rest |-> Behind(rest, n), lasting |-> write.lasting ]
<1>9. n # Len(rest) => left \in Write
  BY <1>3, <1>7, <1>8 DEF Write
<1>10. n # Len(rest) => left.rest = Behind(rest, n)
  OBVIOUS
<1> HIDE DEF left
<1>11. /\ n = Len(rest) => /\ writes' \in Seq(Write)
                           /\ Len(writes') = Len(writes) - 1
       /\ n # Len(rest) => /\ writes' \in Seq(Write)
                           /\ Len(writes') = Len(writes)
                           /\ writes'[i] = left
  <2>1. CASE n = Len(rest)
    BY <1>1, <1>6, <2>1, RemoveOne
  <2>2. CASE n # Len(rest)
    <3>1. writes' = [ writes EXCEPT ![i] = left ]
      BY <1>6, <2>2 DEF left
    <3> QED
      BY <1>1, <1>9, <2>2, <3>1
  <2> QED
    BY <2>1, <2>2
<1>12. wire' \in Seq(Byte)
  <2>1. wire \o SubSeq(rest, 1, n) \in Seq(Byte)
    BY <1>1, <1>8, ConcatProperties
  <2>2. [ k \in 1 .. n |-> Junk ] \in Seq(Byte)
    BY <1>7, SendingAssumption
  <2>3. wire \o [ k \in 1 .. n |-> Junk ] \in Seq(Byte)
    BY <1>1, <2>2, ConcatProperties
  <2> QED
    BY <1>4, <2>1, <2>3
<1>13. /\ Len(writes) \in Nat /\ Len(writes) >= 1
       /\ i \in Int /\ 1 <= i /\ i <= Len(writes)
  BY <1>1
<1>14. orderly' => orderly /\ write.lasting
  BY <1>4
<1>15. writes' \in Seq(Write) /\ (orderly' => Len(writes') <= 1)
  BY <1>1, <1>11, <1>13, <1>14
<1>16. orderly' \in BOOLEAN /\ LengthIsTold'
  BY <1>1, <1>3, <1>4, <1>5 DEF LengthIsTold
<1>17. ASSUME orderly'
       PROVE  IsPrefix(wire', given') /\ given' = wire' \o Rest'
  <2>1. Len(writes) = 1 /\ orderly
    <3>1. orderly
      BY <1>14, <1>17
    <3>2. Len(writes) <= 1
      BY <1>1, <3>1
    <3>3. \A m \in Nat : m >= 1 /\ m <= 1 => m = 1
      OBVIOUS
    <3>4. Len(writes) = 1
      BY <1>13, <3>2, <3>3, Zenon
    <3> QED
      BY <3>1, <3>4
  <2>2. i = 1 /\ writes # << >>
    <3>1. i = 1
      BY <1>13, <2>1
    <3> QED
      BY <2>1, <3>1
  <2>3. given = wire \o rest
    BY <1>5, <2>1, <2>2 DEF StreamInv, OpenInv, Rest, rest, write
  <2>4. wire' = wire \o SubSeq(rest, 1, n)
    BY <1>4, <1>14, <1>17
  <2>5. Rest' = Behind(rest, n)
    <3>1. CASE n = Len(rest)
      <4>1. writes' = << >>
        <5>1. Len(writes') = 0 /\ writes' \in Seq(Write)
          BY <1>11, <2>1, <3>1
        <5> QED
          BY <5>1, EmptySeq
      <4>2. Behind(rest, n) = << >>
        BY <1>7, <1>8, <3>1, EmptySeq
      <4> QED
        BY <4>1, <4>2 DEF Rest
    <3>2. CASE n # Len(rest)
      <4>1. writes'[1] = left /\ Len(writes') = 1
        BY <1>11, <2>1, <2>2, <3>2
      <4>2. writes' # << >>
        BY <4>1
      <4> QED
        BY <1>10, <3>2, <4>1, <4>2 DEF Rest
    <3> QED
      BY <3>1, <3>2
  <2>6. given' = wire' \o Behind(rest, n)
    <3> DEFINE front == SubSeq(rest, 1, n)
               back  == Behind(rest, n)
    <3>1. /\ front \in Seq(Byte) /\ back \in Seq(Byte) /\ front \o back = rest
          /\ wire' = wire \o front
      BY <1>8, <2>4
    <3> HIDE DEF front, back
    <3>2. wire \in Seq(Byte)
      BY <1>1
    <3>3. (wire \o front) \o back = wire \o (front \o back)
      BY <3>1, <3>2, JoinedInTwoWays, Zenon
    <3>4. given' = wire' \o back
      BY <1>5, <2>3, <3>1, <3>3
    <3> QED
      BY <3>4 DEF back
  <2>7. IsPrefix(wire', given')
    BY <1>8, <1>12, <2>6, OwnPrefix
  <2> QED
    BY <2>5, <2>6, <2>7
<1>18. OpenInv'
  BY <1>17 DEF OpenInv
<1> QED
  BY <1>1, <1>5, <1>12, <1>15, <1>16, <1>18 DEF StreamInv

(* The end of a write with an error keeps the stream in order. *)
LEMMA FailKeepsStream ==
  ASSUME StreamInv, NEW i \in DOMAIN writes, FailWrite(i)
  PROVE  StreamInv'
<1>1. /\ writes \in Seq(Write) /\ wire \in Seq(Byte) /\ given \in Seq(Byte)
      /\ taken \in Seq(Seq(Byte)) /\ Len(taken) <= MaxCalls
      /\ orderly \in BOOLEAN /\ (orderly => Len(writes) <= 1)
      /\ LengthIsTold /\ (orderly => IsPrefix(wire, given))
  BY DEF StreamInv, OpenInv
<1>2. /\ socket # "open" /\ writes' = RemoveAt(writes, i)
      /\ UNCHANGED << socket, wire, taken, given, orderly >>
  BY DEF FailWrite
<1>3. writes' \in Seq(Write) /\ Len(writes') = Len(writes) - 1
  BY <1>1, <1>2, RemoveOne
<1>4. Len(writes) \in Nat
  BY <1>1
<1>5. orderly' => Len(writes') <= 1
  BY <1>1, <1>2, <1>3, <1>4
<1>6. LengthIsTold' /\ OpenInv'
  BY <1>1, <1>2 DEF LengthIsTold, OpenInv
<1> QED
  BY <1>1, <1>2, <1>3, <1>5, <1>6 DEF StreamInv

(* The socket does not open again; no write is touched. *)
LEMMA SocketKeepsStream ==
  ASSUME StreamInv, UNCHANGED stream, socket' = "open" => socket = "open"
  PROVE  StreamInv'
<1>1. UNCHANGED << writes, wire, taken, given, orderly >>
  BY DEF stream
<1>2. LengthIsTold'
  BY <1>1 DEF StreamInv, LengthIsTold
<1>3. OpenInv'
  BY <1>1 DEF StreamInv, OpenInv, Rest
<1> QED
  BY <1>1, <1>2, <1>3 DEF StreamInv

-----------------------------------------------------------------------------
(* Every step keeps the types of what is not the stream. *)
LEMMA ControlStep == ControlInv /\ [Next]_vars => ControlInv'
<1> SUFFICES ASSUME ControlInv, [Next]_vars PROVE ControlInv'
  OBVIOUS
<1> USE DEF ControlInv
<1>1. CASE AppSends
  BY <1>1 DEF AppSends
<1>2. CASE SendHeartbeat
  BY <1>2 DEF SendHeartbeat
<1>3. CASE DisconnectAsync
  BY <1>3 DEF DisconnectAsync
<1>4. CASE SayGoodbye
  BY <1>4 DEF SayGoodbye
<1>5. CASE CloseSocket
  BY <1>5 DEF CloseSocket
<1>6. CASE EndDisconnect
  BY <1>6 DEF EndDisconnect
<1>7. CASE IoStep
  BY <1>7 DEF IoStep, ContinueWrite, FailWrite
<1>8. CASE ConnectionBreaks
  BY <1>8 DEF ConnectionBreaks
<1>9. CASE UNCHANGED vars
  BY <1>9 DEF vars
<1> QED
  BY <1>1, <1>2, <1>3, <1>4, <1>5, <1>6, <1>7, <1>8, <1>9 DEF Next

(* Every step keeps the stream in order. *)
LEMMA StreamStep == IInv /\ [Next]_vars => StreamInv'
<1> SUFFICES ASSUME ControlInv, StreamInv, [Next]_vars PROVE StreamInv'
  BY DEF IInv
<1>1. CASE AppSends
  <2>1. PICK id \in AppIDs, payload \in Payloads, lasting \in BOOLEAN :
          SendAsync(BuildPacket(TCPPacket(id, payload, FALSE)), lasting)
    BY <1>1 DEF AppSends
  <2>2. IsPacket(BuildPacket(TCPPacket(id, payload, FALSE)))
    BY AppPacketsArePackets
  <2>3. UNCHANGED socket
    BY <1>1 DEF AppSends
  <2> QED
    BY <2>1, <2>2, <2>3, StartKeepsStream
<1>2. CASE SendHeartbeat
  <2>1. UNCHANGED socket
    BY <1>2 DEF SendHeartbeat
  <2>2. PICK now \in Times :
          LET heartbeat == [ timeSinceLast |-> Distance(now, lastHeartbeatSent),
                             sentTimestamp |-> now ]
              pulse == BuildPacket(TCPPacket(Heartbeat,
                                             HeartbeatToByteArray(heartbeat),
                                             FALSE))
          IN SendAsync(pulse, FALSE) \/ SendAsyncThrows(pulse)
    BY <1>2 DEF SendHeartbeat
  <2> DEFINE since == Distance(now, lastHeartbeatSent)
  <2>3. since \in Int /\ now \in Int
    BY SendingAssumption DEF ControlInv, Distance
  <2> HIDE DEF since
  <2> DEFINE pulse == BuildPacket(TCPPacket(Heartbeat,
               HeartbeatToByteArray([ timeSinceLast |-> since,
                                      sentTimestamp |-> now ]), FALSE))
  <2>4. SendAsync(pulse, FALSE) \/ SendAsyncThrows(pulse)
    BY <2>2 DEF since
  <2>5. IsPacket(pulse)
    BY <2>3, PulsesArePackets
  <2> HIDE DEF pulse
  <2>6. CASE SendAsync(pulse, FALSE)
    BY <2>1, <2>5, <2>6, StartKeepsStream
  <2>7. CASE SendAsyncThrows(pulse)
    BY <2>1, <2>7, SocketKeepsStream DEF SendAsyncThrows
  <2> QED
    BY <2>4, <2>6, <2>7
<1>3. CASE DisconnectAsync
  BY <1>3, SocketKeepsStream DEF DisconnectAsync
<1>4. CASE SayGoodbye
  <2>1. UNCHANGED socket
    BY <1>4 DEF SayGoodbye
  <2>2. PICK now \in Times :
          LET bye == [ timeout |-> ClientTimeout, sentTime |-> now ]
              goodbye == BuildPacket(TCPPacket(CGoodbye,
                                               GoodbyeToByteArray(bye), FALSE))
          IN SendAsync(goodbye, FALSE) \/ SendAsyncThrows(goodbye)
    BY <1>4 DEF SayGoodbye
  <2> DEFINE goodbye == BuildPacket(TCPPacket(CGoodbye,
               GoodbyeToByteArray([ timeout |-> ClientTimeout,
                                    sentTime |-> now ]), FALSE))
  <2>3. SendAsync(goodbye, FALSE) \/ SendAsyncThrows(goodbye)
    BY <2>2
  <2>4. now \in Int
    BY SendingAssumption
  <2>5. IsPacket(goodbye)
    BY <2>4, GoodbyesArePackets
  <2> HIDE DEF goodbye
  <2>6. CASE SendAsync(goodbye, FALSE)
    BY <2>1, <2>5, <2>6, StartKeepsStream
  <2>7. CASE SendAsyncThrows(goodbye)
    BY <2>1, <2>7, SocketKeepsStream DEF SendAsyncThrows
  <2> QED
    BY <2>3, <2>6, <2>7
<1>5. CASE CloseSocket
  BY <1>5, SocketKeepsStream DEF CloseSocket
<1>6. CASE EndDisconnect
  BY <1>6, SocketKeepsStream DEF EndDisconnect
<1>7. CASE IoStep
  BY <1>7, ContinueKeepsStream, FailKeepsStream DEF IoStep
<1>8. CASE ConnectionBreaks
  BY <1>8, SocketKeepsStream DEF ConnectionBreaks
<1>9. CASE UNCHANGED vars
  BY <1>9, SocketKeepsStream DEF vars
<1> QED
  BY <1>1, <1>2, <1>3, <1>4, <1>5, <1>6, <1>7, <1>8, <1>9 DEF Next

-----------------------------------------------------------------------------
(***************************************************************************)
(* The packets that are given.                                             *)
(***************************************************************************)
(* A call that is taken adds its packet to what was given. *)
LEMMA SendAddsPacket ==
  ASSUME StreamInv, PacketsInv,
         NEW id \in Byte, NEW data \in Seq(Byte), data # << >>,
         NEW lasting, SendAsync(BuildPacket(TCPPacket(id, data, FALSE)), lasting),
         built \subseteq built',
         id = CGoodbye => \E bye \in built' : ReadsBackAs(data, bye),
         \A bye \in built' \ built : "timeout" \in DOMAIN bye => id = CGoodbye
  PROVE  PacketsInv'
<1>1. PICK p : p = TCPPacket(id, data, FALSE)
  OBVIOUS
<1>2. PICK rtt \in RTTs : Accepts(BuildPacket(p), rtt)
  BY <1>1 DEF SendAsync
<1>3. /\ p \in PacketObject /\ p.id = id /\ p.data = data
      /\ p.length = STANDARD + Len(data)
  <2>1. p \in PacketObject
    BY <1>1, TCPPacketType
  <2>2. p.id = id /\ p.data = data /\ p.length = Uint16(STANDARD + Len(data))
    BY <1>1 DEF TCPPacket
  <2>3. Len(BuildPacket(p)) = STANDARD + Len(data)
    BY <2>1, <2>2, WireLayout
  <2>4. STANDARD + Len(data) <= MAX_PACKET_SIZE
    BY <1>2, <2>3 DEF Accepts
  <2>5. STANDARD + Len(data) \in Nat
    <3>1. Len(data) \in Nat
      OBVIOUS
    <3> QED
      BY <3>1 DEF STANDARD
  <2>6. Uint16(STANDARD + Len(data)) = STANDARD + Len(data)
    BY <2>4, <2>5, SizeDoesNotWrap
  <2> QED
    BY <2>1, <2>2, <2>6
<1>4. PICK packets : AreTaken(packets)
  BY DEF PacketsInv
<1>5. /\ packets \in Seq(PacketObject) /\ Len(packets) = Len(taken)
      /\ BeginsWith(given, packets, Len(given))
      /\ given \in Seq(Byte) /\ taken \in Seq(Seq(Byte))
      /\ Len(packets) \in Nat
  BY <1>4 DEF AreTaken, StreamInv
<1>6. BuildPacket(p) \in Seq(Byte)
  BY <1>3, WireLayout
<1>7. given' = given \o BuildPacket(p) /\ taken' = Append(taken, BuildPacket(p))
  BY <1>1 DEF SendAsync, StartWrite
<1>8. PICK t \in Seq(Byte) : t = given \o BuildPacket(p)
  BY <1>3, <1>5, AppendedFrame
<1>9. HoldsFrame(t, Len(given), p, Len(t))
  BY <1>3, <1>5, <1>8, AppendedFrame
<1>10. BeginsWith(t, packets, Len(given))
  <2>1. /\ Len(t) = Len(given) + Len(BuildPacket(p))
        /\ \A i \in 1 .. Len(given) + Len(BuildPacket(p)) :
             t[i] = IF i <= Len(given) THEN given[i]
                                       ELSE BuildPacket(p)[i - Len(given)]
    <3>1. PICK b \in Seq(Byte) : b = BuildPacket(p)
      BY <1>6
    <3>2. /\ Len(given \o b) = Len(given) + Len(b)
          /\ \A i \in 1 .. Len(given) + Len(b) :
               (given \o b)[i] = IF i <= Len(given) THEN given[i]
                                                    ELSE b[i - Len(given)]
      BY <1>5, ConcatProperties
    <3> QED
      BY <1>8, <3>1, <3>2
  <2>2. Len(given) \in Nat /\ Len(BuildPacket(p)) \in Nat
    BY <1>5, <1>6
  <2>3. Len(given) <= Len(t) /\ \A i \in 1 .. Len(given) : t[i] = given[i]
    BY <2>1, <2>2
  <2> QED
    BY <1>5, <2>3, BeginsWithStill
<1>11. PICK more : more = Append(packets, p)
  OBVIOUS
<1>12. BeginsWith(t, more, Len(t))
  BY <1>3, <1>5, <1>9, <1>10, <1>11, BeginsWithMore
<1>13. /\ more \in Seq(PacketObject) /\ Len(more) = Len(packets) + 1
       /\ \A k \in 1 .. Len(packets) : more[k] = packets[k]
       /\ more[Len(packets) + 1] = p
  BY <1>3, <1>5, <1>11, AppendProperties
<1>14. /\ Len(taken') = Len(taken) + 1
       /\ \A k \in 1 .. Len(taken) : taken'[k] = taken[k]
       /\ taken'[Len(taken) + 1] = BuildPacket(p)
  BY <1>5, <1>6, <1>7, AppendProperties
<1>15. ASSUME NEW k \in 1 .. Len(more)
       PROVE  /\ taken'[k] = BuildPacket(more[k])
              /\ more[k].id = CGoodbye =>
                   \E bye \in built' : ReadsBackAs(more[k].data, bye)
  <2>1. CASE k = Len(packets) + 1
    BY <1>3, <1>5, <1>13, <1>14, <2>1
  <2>2. CASE k \in 1 .. Len(packets)
    <3>1. taken[k] = BuildPacket(packets[k]) /\ SaysGoodbye(packets[k])
      BY <1>4, <2>2 DEF AreTaken
    <3> QED
      BY <1>5, <1>13, <1>14, <2>2, <3>1 DEF SaysGoodbye
  <2> QED
    BY <1>5, <1>13, <2>1, <2>2
<1>16. ASSUME NEW bye \in built', "timeout" \in DOMAIN bye
       PROVE  \E k \in 1 .. Len(more) : more[k].id = CGoodbye
  <2>1. CASE bye \in built
    <3>1. PICK k \in 1 .. Len(packets) : packets[k].id = CGoodbye
      BY <1>4, <1>16, <2>1 DEF AreTaken
    <3>2. k \in 1 .. Len(more) /\ more[k] = packets[k]
      BY <1>5, <1>13
    <3> QED
      BY <3>1, <3>2
  <2>2. CASE bye \notin built
    <3>1. id = CGoodbye
      BY <1>16, <2>2
    <3>2. Len(packets) + 1 \in 1 .. Len(more) /\ more[Len(packets) + 1].id = id
      BY <1>3, <1>5, <1>13
    <3> QED
      BY <3>1, <3>2
  <2> QED
    BY <2>1, <2>2
<1>17. AreTaken(more)'
  BY <1>5, <1>7, <1>8, <1>12, <1>13, <1>14, <1>15, <1>16
  DEF AreTaken, SaysGoodbye
<1> QED
  BY <1>17 DEF PacketsInv

(* A number is below 65536 times what its upper words are below. *)
LEMMA ShiftBelow ==
  ASSUME NEW n \in Int, NEW b, b = Shift16(n), NEW k \in Int, b < k
  PROVE  n < 65536 * k
<1>1. /\ b \in Int /\ n % 65536 \in Int /\ n % 65536 < 65536
      /\ n = 65536 * b + (n % 65536)
  BY WordOf
<1>2. PICK low \in Int : low = n % 65536
  BY <1>1
<1>3. low < 65536 /\ n = 65536 * b + low
  BY <1>1, <1>2
<1> QED
  BY <1>1, <1>3

(* What the goodbye says is what the peer will read. *)
LEMMA GoodbyeReadsBack ==
  ASSUME NEW now \in Times, NEW bye,
         bye = [ timeout |-> ClientTimeout, sentTime |-> now ]
  PROVE  /\ GoodbyeToByteArray(bye) \in Seq(Byte)
         /\ GoodbyeToByteArray(bye) # << >>
         /\ ReadsBackAs(GoodbyeToByteArray(bye), bye)
<1>1. IsInt64(now) /\ 0 <= now
  <2>1. now \in Int /\ 0 <= now
    BY SendingAssumption
  <2>2. PICK a : a = Shift16(now)
    OBVIOUS
  <2>3. PICK b : b = Shift16(a)
    OBVIOUS
  <2>4. PICK c : c = Shift16(b)
    OBVIOUS
  <2>5. a \in Int
    BY <2>1, <2>2, WordOf
  <2>6. b \in Int
    BY <2>3, <2>5, WordOf
  <2>7. c < 32768
    BY <2>2, <2>3, <2>4, TimesAssumption
  <2>8. b < 2147483648
    BY <2>4, <2>6, <2>7, ShiftBelow
  <2>9. a < 140737488355328
    BY <2>3, <2>5, <2>8, ShiftBelow
  <2>10. now < 9223372036854775808
    BY <2>1, <2>2, <2>9, ShiftBelow
  <2> QED
    BY <2>1, <2>10 DEF IsInt64
<1>2. IsInt64(ClientTimeout)
  BY DEF IsInt64, ClientTimeout
<1>3. PICK bytes : bytes = GoodbyeToByteArray(bye)
  OBVIOUS
<1>4. /\ bytes \in Seq(Byte) /\ GoodbyeIsParsed(bytes)
      /\ GoodbyeFromByteArray(bytes) =
           [ timeout |-> ClientTimeout, sentTime |-> 1000 * (now \div 1000) ]
  BY <1>1, <1>2, <1>3, GoodbyeRoundTrip
<1>5. bytes # << >>
  BY <1>4 DEF GoodbyeIsParsed, sizeofInt64
<1>6. [ bye EXCEPT !.sentTime = 1000 * (@ \div 1000) ] =
        [ timeout |-> ClientTimeout, sentTime |-> 1000 * (now \div 1000) ]
  OBVIOUS
<1>7. "timeout" \in DOMAIN bye
  OBVIOUS
<1>8. ReadsBackAs(bytes, bye)
  BY <1>4, <1>6, <1>7 DEF ReadsBackAs
<1> QED
  BY <1>3, <1>4, <1>5, <1>8

(* A step that takes nothing changes nothing about what was given. *)
LEMMA PacketsKept ==
  ASSUME PacketsInv, UNCHANGED << taken, given, built >>
  PROVE  PacketsInv'
BY DEF PacketsInv, AreTaken, SaysGoodbye

(* Every step keeps what was given a sequence of packets. *)
LEMMA PacketsStep ==
  ControlInv /\ StreamInv /\ PacketsInv /\ [Next]_vars => PacketsInv'
<1> SUFFICES ASSUME ControlInv, StreamInv, PacketsInv, [Next]_vars
             PROVE  PacketsInv'
  OBVIOUS
<1>1. CASE AppSends
  <2>1. PICK id \in AppIDs, payload \in Payloads, lasting \in BOOLEAN :
          SendAsync(BuildPacket(TCPPacket(id, payload, FALSE)), lasting)
    BY <1>1 DEF AppSends
  <2>2. id \in Byte /\ id # CGoodbye
    BY SendingAssumption DEF Byte, Heartbeat, CGoodbye
  <2>3. payload \in Seq(Byte) /\ payload # << >>
    BY SendingAssumption DEF Constructible
  <2>4. built' = built
    BY <1>1 DEF AppSends
  <2> QED
    BY <2>1, <2>2, <2>3, <2>4, SendAddsPacket
<1>2. CASE SendHeartbeat
  <2>1. PICK now \in Times :
          LET heartbeat == [ timeSinceLast |-> Distance(now, lastHeartbeatSent),
                             sentTimestamp |-> now ]
              pulse == BuildPacket(TCPPacket(Heartbeat,
                                             HeartbeatToByteArray(heartbeat),
                                             FALSE))
          IN \/ SendAsync(pulse, FALSE) /\ built' = built \cup { heartbeat }
             \/ SendAsyncThrows(pulse) /\ UNCHANGED built
    BY <1>2 DEF SendHeartbeat
  <2>2. PICK since \in Int : since = Distance(now, lastHeartbeatSent)
    <3>1. now \in Nat /\ lastHeartbeatSent \in Nat
      BY SendingAssumption DEF ControlInv
    <3>2. Distance(now, lastHeartbeatSent) \in Int
      BY <3>1 DEF Distance
    <3> QED
      BY <3>2
  <2>3. PICK heartbeat :
          heartbeat = [ timeSinceLast |-> since, sentTimestamp |-> now ]
    OBVIOUS
  <2>4. PICK data : data = HeartbeatToByteArray(heartbeat)
    OBVIOUS
  <2>5. data \in Seq(Byte) /\ data # << >>
    <3>1. data = Int64Bytes(since) \o Int64Bytes(now) /\ now \in Int
      BY <2>3, <2>4, SendingAssumption DEF HeartbeatToByteArray
    <3>2. data \in Seq(Byte) /\ Len(data) = 16
      BY <3>1, TwoIntegers
    <3>3. Len(data) # Len(<< >>)
      BY <3>2
    <3>4. data # << >>
      BY <3>3, Zenon
    <3> QED
      BY <3>2, <3>4
  <2>6. \/ /\ SendAsync(BuildPacket(TCPPacket(Heartbeat, data, FALSE)), FALSE)
           /\ built' = built \cup { heartbeat }
        \/ UNCHANGED << taken, given, built >>
    BY <2>1, <2>2, <2>3, <2>4 DEF SendAsyncThrows, stream
  <2>7. Heartbeat \in Byte /\ Heartbeat # CGoodbye
    BY DEF Byte, Heartbeat, CGoodbye
  <2>8. "timeout" \notin DOMAIN heartbeat
    BY <2>3
  <2>9. CASE /\ SendAsync(BuildPacket(TCPPacket(Heartbeat, data, FALSE)), FALSE)
             /\ built' = built \cup { heartbeat }
    <3>1. /\ built \subseteq built'
          /\ \A bye \in built' \ built : "timeout" \notin DOMAIN bye
      BY <2>8, <2>9
    <3> QED
      BY <2>5, <2>7, <2>9, <3>1, SendAddsPacket
  <2>10. CASE UNCHANGED << taken, given, built >>
    BY <2>10, PacketsKept
  <2> QED
    BY <2>6, <2>9, <2>10
<1>3. CASE DisconnectAsync
  BY <1>3, PacketsKept DEF DisconnectAsync, stream
<1>4. CASE SayGoodbye
  <2>1. PICK now \in Times :
          LET bye == [ timeout |-> ClientTimeout, sentTime |-> now ]
              goodbye == BuildPacket(TCPPacket(CGoodbye,
                                               GoodbyeToByteArray(bye), FALSE))
          IN \/ SendAsync(goodbye, FALSE) /\ built' = built \cup { bye }
             \/ SendAsyncThrows(goodbye) /\ UNCHANGED built
    BY <1>4 DEF SayGoodbye
  <2>2. PICK bye : bye = [ timeout |-> ClientTimeout, sentTime |-> now ]
    OBVIOUS
  <2>3. PICK data : data = GoodbyeToByteArray(bye)
    OBVIOUS
  <2>4. data \in Seq(Byte) /\ data # << >> /\ ReadsBackAs(data, bye)
    BY <2>2, <2>3, GoodbyeReadsBack
  <2>5. \/ /\ SendAsync(BuildPacket(TCPPacket(CGoodbye, data, FALSE)), FALSE)
           /\ built' = built \cup { bye }
        \/ UNCHANGED << taken, given, built >>
    BY <2>1, <2>2, <2>3 DEF SendAsyncThrows, stream
  <2>6. CGoodbye \in Byte
    BY DEF Byte, CGoodbye
  <2>7. CASE /\ SendAsync(BuildPacket(TCPPacket(CGoodbye, data, FALSE)), FALSE)
             /\ built' = built \cup { bye }
    <3>1. built \subseteq built' /\ bye \in built'
      BY <2>7
    <3> QED
      BY <2>4, <2>6, <2>7, <3>1, SendAddsPacket
  <2>8. CASE UNCHANGED << taken, given, built >>
    BY <2>8, PacketsKept
  <2> QED
    BY <2>5, <2>7, <2>8
<1>5. CASE CloseSocket
  BY <1>5, PacketsKept DEF CloseSocket, stream
<1>6. CASE EndDisconnect
  BY <1>6, PacketsKept DEF EndDisconnect, stream
<1>7. CASE IoStep
  BY <1>7, PacketsKept DEF IoStep, ContinueWrite, FailWrite
<1>8. CASE ConnectionBreaks
  BY <1>8, PacketsKept DEF ConnectionBreaks, stream
<1>9. CASE UNCHANGED vars
  BY <1>9, PacketsKept DEF vars, stream
<1> QED
  BY <1>1, <1>2, <1>3, <1>4, <1>5, <1>6, <1>7, <1>8, <1>9 DEF Next

(* What the peer makes of the bytes it has. *)
LEMMA ReceivedPackets ==
  ASSUME StreamInv, PacketsInv, orderly
  PROVE  \E packets : \E m \in 0 .. Len(packets) :
           /\ AreTaken(packets)
           /\ Received = SubSeq(packets, 1, m)
           /\ writes = << >> /\ socket = "open" => m = Len(packets)
<1>1. PICK packets : AreTaken(packets)
  BY DEF PacketsInv
<1>2. /\ packets \in Seq(PacketObject)
      /\ BeginsWith(given, packets, Len(given))
      /\ wire \in Seq(Byte) /\ given \in Seq(Byte)
      /\ IsPrefix(wire, given)
      /\ socket = "open" => given = wire \o Rest
  BY <1>1 DEF AreTaken, StreamInv, OpenInv
<1>3. /\ Len(wire) <= Len(given)
      /\ \A i \in 1 .. Len(wire) : wire[i] = given[i]
  <2>1. /\ Len(wire) <= Len(given) /\ Len(wire) \in Nat /\ Len(given) \in Nat
        /\ SubSeq(wire, 1, Len(wire)) = SubSeq(given, 1, Len(wire))
    BY <1>2 DEF IsPrefix
  <2>2. /\ \A i \in 1 .. Len(wire) : SubSeq(wire, 1, Len(wire))[i] = wire[i]
        /\ \A i \in 1 .. Len(wire) : SubSeq(given, 1, Len(wire))[i] = given[i]
    BY <1>2, <2>1, CutType
  <2> QED
    BY <2>1, <2>2
<1>4. PICK m \in 0 .. Len(packets) :
        /\ FramesIn(wire) = SubSeq(packets, 1, m)
        /\ Len(wire) = Len(given) => m = Len(packets)
  BY <1>2, <1>3, CutStream
<1>5. writes = << >> /\ socket = "open" => wire = given
  <2>1. wire \o << >> = wire
    BY <1>2, ConcatEmptySeq
  <2> QED
    BY <1>2, <2>1 DEF Rest
<1> QED
  BY <1>1, <1>4, <1>5 DEF Received

(* The packets of the peer are those whose bytes were taken first. *)
LEMMA PeerReceives ==
  ASSUME StreamInv, PacketsInv, orderly
  PROVE  PeerReceivesPackets /\ GoodbyesReadBack
<1> PICK packets : \E m \in 0 .. Len(packets) :
        /\ AreTaken(packets)
        /\ Received = SubSeq(packets, 1, m)
        /\ writes = << >> /\ socket = "open" => m = Len(packets)
  BY ReceivedPackets
<1>1. PICK m \in 0 .. Len(packets) :
        /\ AreTaken(packets)
        /\ Received = SubSeq(packets, 1, m)
        /\ writes = << >> /\ socket = "open" => m = Len(packets)
  OBVIOUS
<1>2. /\ packets \in Seq(PacketObject) /\ Len(packets) = Len(taken)
      /\ \A k \in 1 .. Len(packets) :
           taken[k] = BuildPacket(packets[k]) /\ SaysGoodbye(packets[k])
      /\ taken \in Seq(Seq(Byte)) /\ Len(packets) \in Nat
  BY <1>1 DEF AreTaken, StreamInv
<1>3. PICK ps \in Seq(PacketObject) :
        /\ ps = Received /\ Len(ps) = m
        /\ \A k \in 1 .. m : ps[k] = packets[k]
  <2>1. /\ SubSeq(packets, 1, m) \in Seq(PacketObject)
        /\ Len(SubSeq(packets, 1, m)) = m
        /\ \A k \in 1 .. m : SubSeq(packets, 1, m)[k] = packets[k]
    BY <1>2, CutType
  <2> QED
    BY <1>1, <2>1
<1>4. DOMAIN ps = 1 .. m /\ m \in Nat /\ m <= Len(taken)
  BY <1>2, <1>3
<1>5. \A k \in 1 .. m : k \in 1 .. Len(packets)
  BY <1>2
<1>6. IsPrefix([ k \in DOMAIN ps |-> BuildPacket(ps[k]) ], taken)
  <2> DEFINE bytes == [ k \in DOMAIN ps |-> BuildPacket(ps[k]) ]
  <2>1. \A k \in 1 .. m : bytes[k] = taken[k]
    BY <1>2, <1>3, <1>4, <1>5
  <2>2. \A k \in 1 .. m : taken[k] \in Seq(Byte)
    BY <1>2, <1>5, ElementOfSeq
  <2>3. bytes \in [ 1 .. m -> Seq(Byte) ]
    <3>1. bytes = [ k \in 1 .. m |-> BuildPacket(ps[k]) ]
      BY <1>4
    <3> HIDE DEF bytes
    <3> QED
      BY <2>1, <2>2, <3>1
  <2> HIDE DEF bytes
  <2>4. bytes \in Seq(Seq(Byte)) /\ Len(bytes) = m
    BY <1>4, <2>3
  <2>5. IsPrefix(bytes, taken)
    BY <1>2, <1>4, <2>1, <2>4, BeginsPrefix
  <2> QED
    BY <2>5 DEF bytes
<1>7. PeerReceivesPackets
  BY <1>1, <1>2, <1>3, <1>6 DEF PeerReceivesPackets
<1>8. ASSUME NEW k \in DOMAIN ps, ps[k].id = CGoodbye
      PROVE  \E bye \in built : ReadsBackAs(ps[k].data, bye)
  <2>1. k \in 1 .. Len(packets) /\ ps[k] = packets[k]
    BY <1>3, <1>4, <1>5
  <2> QED
    BY <1>2, <1>8, <2>1 DEF SaysGoodbye
<1>9. GoodbyesReadBack
  BY <1>3, <1>8 DEF GoodbyesReadBack
<1> QED
  BY <1>7, <1>9

(***************************************************************************)
(* The strengthening of the properties below is an invariant: types, told  *)
(* lengths, that with orderly writes on an open socket the bytes given are *)
(* those on the wire and the rest of the outstanding write, and that what  *)
(* was given is packets taken one behind the other.                        *)
(***************************************************************************)
THEOREM Invariance == Spec => []IInv
<1>1. Init => IInv
  BY InitIInv
<1>2. IInv /\ [Next]_vars => IInv'
  BY ControlStep, StreamStep, PacketsStep DEF IInv
<1> QED
  BY <1>1, <1>2, PTL DEF Spec

(* The variables keep their types, and orderly writes come one at a time. *)
THEOREM TypeCorrect == Spec => []TypeOK
<1>1. IInv => TypeOK
  BY DEF IInv, ControlInv, StreamInv, TypeOK
<1> QED
  BY <1>1, Invariance, PTL

(* No packet whose length has wrapped is ever sent. *)
THEOREM LengthTold == Spec => []LengthIsTold
<1>1. IInv => LengthIsTold
  BY DEF IInv, StreamInv
<1> QED
  BY <1>1, Invariance, PTL

(***************************************************************************)
(* As long as the writes keep out of each other's way, what the peer reads *)
(* is the packets of the calls of sendAsync, in order.                     *)
(***************************************************************************)
THEOREM PeerGetsPackets == Spec => []PeerReceivesPackets
<1>1. IInv => PeerReceivesPackets
  <2>1. ~orderly => PeerReceivesPackets
    BY DEF PeerReceivesPackets
  <2> QED
    BY <2>1, PeerReceives DEF IInv
<1> QED
  BY <1>1, Invariance, PTL

(* A goodbye the peer gets says what a GoodbyePacket said that was built. *)
THEOREM GoodbyesSurvive == Spec => []GoodbyesReadBack
<1>1. IInv => GoodbyesReadBack
  <2>1. ~orderly => GoodbyesReadBack
    BY Zenon DEF GoodbyesReadBack
  <2> QED
    BY <2>1, PeerReceives DEF IInv
<1> QED
  BY <1>1, Invariance, PTL

(***************************************************************************)
(* disconnectAsync closes an undisturbed connection only behind a goodbye  *)
(* that the peer has.                                                      *)
(***************************************************************************)
THEOREM GoodbyeBeforeClose == Spec => PeerIsTold
<1>1. IInv => [ /\ socket = "open" /\ socket' = "closed"
                /\ orderly /\ writes = << >>
                /\ \E bye \in built : "timeout" \in DOMAIN bye
                => \E k \in DOMAIN Received : Received[k].id = CGoodbye ]_vars
  <2> SUFFICES ASSUME StreamInv, PacketsInv, socket = "open", orderly,
                      writes = << >>,
                      \E bye \in built : "timeout" \in DOMAIN bye
               PROVE  \E k \in DOMAIN Received : Received[k].id = CGoodbye
    BY DEF IInv
  <2>1. PICK packets :
          AreTaken(packets) /\ Received = SubSeq(packets, 1, Len(packets))
    BY ReceivedPackets
  <2>2. packets \in Seq(PacketObject)
    BY <2>1 DEF AreTaken
  <2>3. Received = packets
    BY <2>1, <2>2, SubSeqFull
  <2>4. PICK k \in 1 .. Len(packets) : packets[k].id = CGoodbye
    BY <2>1 DEF AreTaken
  <2>5. k \in DOMAIN packets
    BY <2>2
  <2> QED
    BY <2>3, <2>4, <2>5
<1> QED
  BY <1>1, Invariance, PTL DEF PeerIsTold
=============================================================================
