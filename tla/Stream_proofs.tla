----------------------------- MODULE Stream_proofs -----------------------------
(***************************************************************************)
(* What FramesIn, the sequential reading of a byte stream, finds in every  *)
(* stream.  It is defined by recursion over the offsets of the stream; that *)
(* the recursion has a solution, and what it is, rests on the least number *)
(* principle, which is taken from the well-foundedness of < on Nat.        *)
(***************************************************************************)
EXTENDS Packet, SequencesExt, SequenceTheorems, WellFoundedInduction, TLAPS

USE DEF STANDARD

-----------------------------------------------------------------------------
(* A set of naturals that is not empty has a least element. *)
LEMMA LeastElement ==
  ASSUME NEW T, T \subseteq Nat, T # { }
  PROVE  \E n \in T : \A m \in T : n <= m
<1> DEFINE R == OpToRel(<, Nat)
<1>1. IsWellFoundedOn(R, Nat)
  BY NatLessThanWellFounded
<1>2. \A m, n \in Nat : m < n => << m, n >> \in R
  BY DEF OpToRel
<1> HIDE DEF R
<1>3. PICK n \in T : \A m \in T : << m, n >> \notin R
  BY <1>1, WFMin
<1>4. \A m \in T : ~(m < n) /\ m \in Nat /\ n \in Nat
  BY <1>2, <1>3
<1> QED
  BY <1>4

(* Induction, with a set in the place of a predicate. *)
LEMMA SetInduction ==
  ASSUME NEW S, 0 \in S, \A n \in Nat : n \in S => n + 1 \in S
  PROVE  Nat \subseteq S
<1> SUFFICES ASSUME Nat \ S # { }
             PROVE  FALSE
  OBVIOUS
<1>1. PICK n \in Nat \ S : \A m \in Nat \ S : n <= m
  <2>1. Nat \ S \subseteq Nat
    OBVIOUS
  <2> QED
    BY <2>1, LeastElement
<1>2. n # 0 /\ n - 1 \in Nat /\ ~(n <= n - 1)
  OBVIOUS
<1>3. n - 1 \in S
  BY <1>1, <1>2
<1> QED
  BY <1>2, <1>3

(***************************************************************************)
(* What is cut off a sequence of bytes at either end is one.               *)
(***************************************************************************)
LEMMA CutType ==
  ASSUME NEW S, NEW s \in Seq(S), NEW n \in 0 .. Len(s)
  PROVE  /\ SubSeq(s, 1, n) \in Seq(S)
         /\ Len(SubSeq(s, 1, n)) = n
         /\ \A i \in 1 .. n : SubSeq(s, 1, n)[i] = s[i]
         /\ SubSeq(s, n + 1, Len(s)) \in Seq(S)
         /\ Len(SubSeq(s, n + 1, Len(s))) = Len(s) - n
         /\ \A i \in 1 .. Len(s) - n : SubSeq(s, n + 1, Len(s))[i] = s[n + i]
OBVIOUS

(* A sequence that begins as another, shorter one has it as a prefix. *)
LEMMA BeginsPrefix ==
  ASSUME NEW S, NEW s \in Seq(S), NEW t \in Seq(S), Len(s) <= Len(t),
         \A i \in 1 .. Len(s) : t[i] = s[i]
  PROVE  IsPrefix(s, t)
<1>1. Len(s) \in 0 .. Len(t) /\ Len(s) \in 0 .. Len(s)
  OBVIOUS
<1>2. PICK a \in Seq(S) : /\ a = SubSeq(s, 1, Len(s)) /\ Len(a) = Len(s)
                          /\ \A i \in 1 .. Len(s) : a[i] = s[i]
  BY <1>1, CutType
<1>3. PICK b \in Seq(S) : /\ b = SubSeq(t, 1, Len(s)) /\ Len(b) = Len(s)
                          /\ \A i \in 1 .. Len(s) : b[i] = t[i]
  BY <1>1, CutType
<1>4. a = b
  BY <1>2, <1>3, SeqEqual
<1> QED
  BY <1>2, <1>3, <1>4 DEF IsPrefix

-----------------------------------------------------------------------------
(***************************************************************************)
(* The recursion.  FramesAt is its right hand side.                       *)
(***************************************************************************)
FramesAt(s, f, offset) ==
  IF \/ offset + STANDARD > Len(s)
     \/ LengthAt(s, offset) <= STANDARD
     \/ offset + LengthAt(s, offset) > Len(s)
  THEN << >>
  ELSE LET next == offset + LengthAt(s, offset)
       IN << TCPPacket(s[offset + 1],
                       SubSeq(s, offset + STANDARD + 1, next),
                       s[offset + 2] # 0) >> \o f[next]

FramesFrom(s) ==
  CHOOSE f : f = [ offset \in 0 .. Len(s) |-> FramesAt(s, f, offset) ]

(* The sequential reading of a stream begins at its first byte. *)
LEMMA FramesInIsFromStart == ASSUME NEW s PROVE FramesIn(s) = FramesFrom(s)[0]
BY DEF FramesIn, FramesFrom, FramesAt

(* A length field is a number. *)
LEMMA LengthAtType ==
  ASSUME NEW s \in Seq(Byte), NEW o \in Nat, o + STANDARD <= Len(s)
  PROVE  LengthAt(s, o) \in Nat
<1>1. o + 3 \in 1 .. Len(s) /\ o + 4 \in 1 .. Len(s)
  OBVIOUS
<1> DEFINE low == s[o + 3]
           high == s[o + 4]
<1>2. low \in Byte /\ high \in Byte
  BY <1>1, ElementOfSeq
<1>3. LengthAt(s, o) = low + 256 * high
  BY DEF LengthAt
<1> HIDE DEF low, high
<1> QED
  BY <1>2, <1>3 DEF Byte

(* The frames from an offset on depend on those from later offsets only. *)
LEMMA FramesAtLookAhead ==
  ASSUME NEW s \in Seq(Byte), NEW o \in 0 .. Len(s), NEW f, NEW g,
         \A p \in o + 1 .. Len(s) : f[p] = g[p]
  PROVE  FramesAt(s, f, o) = FramesAt(s, g, o)
<1> DEFINE next == o + LengthAt(s, o)
<1>1. SUFFICES ASSUME o + STANDARD <= Len(s), LengthAt(s, o) > STANDARD,
                      next <= Len(s)
               PROVE  f[next] = g[next]
  <2>1. Len(s) \in Nat
    OBVIOUS
  <2>2. o + STANDARD <= Len(s) => LengthAt(s, o) \in Nat
    BY LengthAtType
  <2> HIDE DEF STANDARD
  <2> QED
    BY <2>1, <2>2, <1>1 DEF FramesAt, STANDARD
<1>2. LengthAt(s, o) \in Nat
  BY <1>1, LengthAtType
<1>3. next \in o + 1 .. Len(s)
  BY <1>1, <1>2
<1> QED
  BY <1>3

(* The recursion has a solution on every end of the offsets. *)
LEMMA FramesExist ==
  ASSUME NEW s \in Seq(Byte)
  PROVE  \E f : f = [ o \in 0 .. Len(s) |-> FramesAt(s, f, o) ]
<1> DEFINE Solves(g, k) ==
             g = [ o \in Len(s) - k .. Len(s) |-> FramesAt(s, g, o) ]
           S == { k \in Nat : k <= Len(s) => \E g : Solves(g, k) }
<1>0. Len(s) \in Nat
  OBVIOUS
<1>1. 0 \in S
  <2> DEFINE g == [ o \in Len(s) - 0 .. Len(s) |-> << >> ]
  <2>1. \A o \in Len(s) - 0 .. Len(s) : FramesAt(s, g, o) = << >>
    BY <1>0 DEF FramesAt
  <2>2. Solves(g, 0)
    BY <2>1
  <2> QED
    BY <2>2
<1>2. ASSUME NEW k \in Nat, k \in S
      PROVE  k + 1 \in S
  <2> SUFFICES ASSUME k + 1 <= Len(s)
               PROVE  \E h : Solves(h, k + 1)
    OBVIOUS
  <2>1. k <= Len(s)
    BY <1>0
  <2>2. PICK g : Solves(g, k)
    BY <1>2, <2>1
  <2>3. PICK first \in 0 .. Len(s) : first + 1 = Len(s) - k
    <3>1. Len(s) - (k + 1) \in 0 .. Len(s)
          /\ (Len(s) - (k + 1)) + 1 = Len(s) - k
      BY <1>0
    <3> QED
      BY <3>1
  <2> DEFINE h == [ o \in first .. Len(s) |->
                      IF o = first THEN FramesAt(s, g, first) ELSE g[o] ]
  <2>4. \A o \in first + 1 .. Len(s) : h[o] = g[o] /\ g[o] = FramesAt(s, g, o)
    <3>1. \A o \in first + 1 .. Len(s) :
            o \in first .. Len(s) /\ o # first /\ o \in Len(s) - k .. Len(s)
      BY <1>0, <2>3
    <3> QED
      BY <2>2, <3>1
  <2>5. h[first] = FramesAt(s, g, first)
    BY <2>3
  <2>6. ASSUME NEW o \in first .. Len(s)
        PROVE  h[o] = FramesAt(s, h, o)
    <3>1. o \in 0 .. Len(s)
      BY <1>0, <2>3
    <3>2. \A p \in o + 1 .. Len(s) : g[p] = h[p]
      <4>1. \A p \in o + 1 .. Len(s) : p \in first + 1 .. Len(s)
        BY <1>0, <2>3
      <4> HIDE DEF h
      <4> QED
        BY <2>4, <4>1
    <3> HIDE DEF h
    <3>3. FramesAt(s, g, o) = FramesAt(s, h, o)
      BY <3>1, <3>2, FramesAtLookAhead
    <3>4. h[o] = FramesAt(s, g, o)
      BY <2>3, <2>4, <2>5
    <3> QED
      BY <3>3, <3>4
  <2>7. Solves(h, k + 1)
    <3>1. first = Len(s) - (k + 1)
      BY <1>0, <2>3
    <3> QED
      BY <2>6, <3>1
  <2> QED
    BY <2>7
<1>3. Nat \subseteq S
  <2> HIDE DEF S
  <2> QED
    BY <1>1, <1>2, SetInduction
<1>4. PICK g : Solves(g, Len(s))
  BY <1>0, <1>3
<1>5. Len(s) - Len(s) = 0
  BY <1>0
<1> QED
  BY <1>4, <1>5

(* What the recursion says holds of FramesFrom. *)
LEMMA FramesFromStep ==
  ASSUME NEW s \in Seq(Byte), NEW o \in 0 .. Len(s)
  PROVE  FramesFrom(s)[o] = FramesAt(s, FramesFrom(s), o)
<1> DEFINE f == FramesFrom(s)
<1>1. f = [ p \in 0 .. Len(s) |-> FramesAt(s, f, p) ]
  BY FramesExist DEF FramesFrom
<1> HIDE DEF f
<1>2. f[o] = FramesAt(s, f, o)
  BY <1>1
<1> QED
  BY <1>2 DEF f

-----------------------------------------------------------------------------
(***************************************************************************)
(* Frames.                                                                 *)
(***************************************************************************)
(* Between two offsets of a stream there is a frame, and this is the       *)
(* packet in it.                                                           *)
HoldsFrame(s, offset, packet, next) ==
  /\ offset \in Nat /\ next \in Nat
  /\ offset + STANDARD < next /\ next <= Len(s)
  /\ LengthAt(s, offset) = next - offset
  /\ packet = TCPPacket(s[offset + 1],
                        SubSeq(s, offset + STANDARD + 1, next),
                        s[offset + 2] # 0)

(* A packet comes before others. *)
Before(packet, rest) == << packet >> \o rest

(* A stream begins with these packets, whose borders are these offsets. *)
Reads(s, packets, borders) ==
  /\ borders \in Seq(Nat)
  /\ Len(borders) = Len(packets) + 1
  /\ borders[1] = 0
  /\ \A k \in 1 .. Len(packets) :
       HoldsFrame(s, borders[k], packets[k], borders[k + 1])

(* 16 bits hold the numbers up to MaxUint16. *)
LEMMA WordIsNat ==
  /\ \A n \in Word : n \in Nat /\ n <= MaxUint16
  /\ \A n \in Nat : n <= MaxUint16 => n \in Word
<1>1. MaxUint16 \in Nat
  BY DEF MaxUint16
<1> QED
  BY <1>1 DEF Word

(* What is cut to 16 bits fits in 16 bits. *)
LEMMA Uint16Type == ASSUME NEW n \in Nat PROVE Uint16(n) \in Word
<1>1. n % 65536 \in Nat /\ n % 65536 <= MaxUint16
  BY DEF MaxUint16
<1> QED
  BY <1>1, WordIsNat DEF Uint16

(* Nothing is cut off what fits in 16 bits. *)
LEMMA Uint16OfWord == ASSUME NEW n \in Word PROVE Uint16(n) = n
<1>1. n \in Nat /\ n <= MaxUint16
  BY WordIsNat
<1>2. n % 65536 = n
  BY <1>1 DEF MaxUint16
<1> QED
  BY <1>2 DEF Uint16

(* The constructor makes a packet. *)
LEMMA TCPPacketType ==
  ASSUME NEW id \in Byte, NEW data \in Seq(Byte), NEW compressed \in BOOLEAN
  PROVE  TCPPacket(id, data, compressed) \in PacketObject
<1>1. Uint16(STANDARD + Len(data)) \in Word
  BY Uint16Type
<1> QED
  BY <1>1 DEF TCPPacket, PacketObject

(* What is cut out of a stream is a sequence of its bytes. *)
LEMMA PayloadType ==
  ASSUME NEW s \in Seq(Byte), NEW o \in Nat, NEW n \in Nat,
         o + STANDARD <= n, n <= Len(s)
  PROVE  /\ SubSeq(s, o + STANDARD + 1, n) \in Seq(Byte)
         /\ Len(SubSeq(s, o + STANDARD + 1, n)) = n - o - STANDARD
         /\ \A j \in 1 .. n - o - STANDARD :
              SubSeq(s, o + STANDARD + 1, n)[j] = s[o + STANDARD + j]
<1>1. /\ o + STANDARD + 1 \in Nat /\ o + STANDARD + 1 >= 1
      /\ \A i \in o + STANDARD + 1 .. n : i \in 1 .. Len(s)
  OBVIOUS
<1>2. \A i \in o + STANDARD + 1 .. n : s[i] \in Byte
  BY <1>1, ElementOfSeq
<1> QED
  BY <1>1, <1>2, SubSeqProperties

(* The packet in a frame is a packet. *)
LEMMA HoldsFrameType ==
  ASSUME NEW s \in Seq(Byte), NEW o, NEW p, NEW n, HoldsFrame(s, o, p, n)
  PROVE  p \in PacketObject
<1>1. /\ o \in Nat /\ n \in Nat /\ o + STANDARD <= n /\ n <= Len(s)
      /\ o + 1 \in 1 .. Len(s)
  BY DEF HoldsFrame
<1>2. s[o + 1] \in Byte
  BY <1>1, ElementOfSeq
<1>3. SubSeq(s, o + STANDARD + 1, n) \in Seq(Byte)
  BY <1>1, PayloadType
<1> QED
  BY <1>2, <1>3, TCPPacketType DEF HoldsFrame

(* A frame comes before those behind it. *)
LEMMA FramesFromFrame ==
  ASSUME NEW s \in Seq(Byte), NEW o, NEW p, NEW n, HoldsFrame(s, o, p, n)
  PROVE  FramesFrom(s)[o] = Before(p, FramesFrom(s)[n])
<1>1. /\ o \in 0 .. Len(s)
      /\ ~(o + STANDARD > Len(s)) /\ ~(LengthAt(s, o) <= STANDARD)
      /\ o + LengthAt(s, o) = n /\ ~(n > Len(s))
  BY DEF HoldsFrame
<1>2. FramesAt(s, FramesFrom(s), o) = Before(p, FramesFrom(s)[n])
  BY <1>1 DEF FramesAt, HoldsFrame, Before
<1> QED
  BY <1>1, <1>2, FramesFromStep

(* Where a frame is incomplete, or there is none, reading ends. *)
LEMMA FramesFromEnd ==
  ASSUME NEW s \in Seq(Byte), NEW o \in 0 .. Len(s),
         \/ o + STANDARD > Len(s)
         \/ LengthAt(s, o) <= STANDARD
         \/ o + LengthAt(s, o) > Len(s)
  PROVE  FramesFrom(s)[o] = << >>
BY FramesFromStep DEF FramesAt

(* Otherwise there is a frame. *)
LEMMA FrameThere ==
  ASSUME NEW s \in Seq(Byte), NEW o \in 0 .. Len(s),
         ~(o + STANDARD > Len(s)), ~(LengthAt(s, o) <= STANDARD),
         ~(o + LengthAt(s, o) > Len(s))
  PROVE  \E p, n : HoldsFrame(s, o, p, n) /\ n = o + LengthAt(s, o)
<1>1. o \in Nat /\ LengthAt(s, o) \in Nat
  BY LengthAtType
<1> DEFINE n == o + LengthAt(s, o)
           p == TCPPacket(s[o + 1], SubSeq(s, o + STANDARD + 1, n),
                          s[o + 2] # 0)
<1>2. HoldsFrame(s, o, p, n)
  BY <1>1 DEF HoldsFrame
<1> QED
  BY <1>2

(* Reading yields packets, from every offset. *)
LEMMA FramesFromType ==
  ASSUME NEW s \in Seq(Byte), NEW o \in 0 .. Len(s)
  PROVE  FramesFrom(s)[o] \in Seq(PacketObject)
<1> DEFINE S == { k \in Nat : \A p \in 0 .. Len(s) :
                    Len(s) - p <= k => FramesFrom(s)[p] \in Seq(PacketObject) }
<1>0. Len(s) \in Nat /\ << >> \in Seq(PacketObject)
  OBVIOUS
<1>1. 0 \in S
  <2> SUFFICES ASSUME NEW p \in 0 .. Len(s), Len(s) - p <= 0
               PROVE  FramesFrom(s)[p] \in Seq(PacketObject)
    OBVIOUS
  <2>1. p + STANDARD > Len(s)
    BY <1>0
  <2>2. FramesFrom(s)[p] = << >>
    BY <2>1, FramesFromEnd
  <2> QED
    BY <1>0, <2>2
<1>2. ASSUME NEW k \in Nat, k \in S
      PROVE  k + 1 \in S
  <2> SUFFICES ASSUME NEW p \in 0 .. Len(s), Len(s) - p <= k + 1
               PROVE  FramesFrom(s)[p] \in Seq(PacketObject)
    OBVIOUS
  <2>1. CASE \/ p + STANDARD > Len(s) \/ LengthAt(s, p) <= STANDARD
             \/ p + LengthAt(s, p) > Len(s)
    <3>1. FramesFrom(s)[p] = << >>
      BY <2>1, FramesFromEnd
    <3> QED
      BY <1>0, <3>1
  <2>2. CASE ~(\/ p + STANDARD > Len(s) \/ LengthAt(s, p) <= STANDARD
               \/ p + LengthAt(s, p) > Len(s))
    <3>1. PICK packet, n : HoldsFrame(s, p, packet, n)
      BY <2>2, FrameThere
    <3>2. n \in 0 .. Len(s) /\ Len(s) - n <= k
      BY <1>0, <3>1 DEF HoldsFrame
    <3>3. FramesFrom(s)[n] \in Seq(PacketObject)
      BY <1>2, <3>2
    <3>4. << packet >> \in Seq(PacketObject)
      BY <3>1, HoldsFrameType
    <3>5. FramesFrom(s)[p] = Before(packet, FramesFrom(s)[n])
      BY <3>1, FramesFromFrame
    <3>6. << packet >> \o FramesFrom(s)[n] \in Seq(PacketObject)
      BY <3>3, <3>4, ConcatProperties
    <3> QED
      BY <3>5, <3>6, Zenon DEF Before
  <2> QED
    BY <2>1, <2>2
<1> HIDE DEF S
<1>3. Nat \subseteq S
  BY <1>1, <1>2, SetInduction
<1>4. Len(s) \in S /\ Len(s) - o <= Len(s)
  BY <1>0, <1>3
<1>5. \A p \in 0 .. Len(s) :
        Len(s) - p <= Len(s) => FramesFrom(s)[p] \in Seq(PacketObject)
  BY <1>4, Zenon DEF S
<1> QED
  BY <1>0, <1>4, <1>5

-----------------------------------------------------------------------------
(***************************************************************************)
(* The codec: a 16-bit length survives being split into two bytes.         *)
(***************************************************************************)
LEMMA LengthRoundTrip ==
  ASSUME NEW length \in Word
  PROVE  /\ LowByte(length) \in Byte
         /\ HighByte(length) \in Byte
         /\ JoinLength(LowByte(length), HighByte(length)) = length
<1> DEFINE q == length \div 256
           r == length % 256
<1>1. length \in Nat /\ length <= 65535
  <2>1. length \in Nat /\ length <= MaxUint16
    BY WordIsNat
  <2> QED
    BY <2>1 DEF MaxUint16
<1>2. q \in Nat /\ r \in 0 .. 255 /\ length = 256 * q + r
  BY <1>1
<1>3. q \in 0 .. 255
  <2> HIDE DEF q, r
  <2> QED BY <1>1, <1>2
<1>4. LowByte(length) = r /\ HighByte(length) = q
  <2>1. LowByte(length) = r /\ HighByte(length) = q % 256
    BY DEF LowByte, HighByte
  <2>2. q % 256 = q
    <3> HIDE DEF q
    <3> QED BY <1>3
  <2> QED BY <2>1, <2>2
<1>5. length % 65536 = length
  BY <1>1
<1>6. q * 256 + r = length
  <2> HIDE DEF q, r
  <2> QED BY <1>2
<1>7. JoinLength(LowByte(length), HighByte(length)) = length
  BY <1>4, <1>5, <1>6 DEF JoinLength, Uint16
<1> QED
  <2> HIDE DEF q, r
  <2> QED BY <1>2, <1>3, <1>4, <1>7 DEF Byte

(* Two bytes below 256 are put together without loss. *)
LEMMA JoinLengthOfBytes ==
  ASSUME NEW low \in Byte, NEW high \in Byte
  PROVE  JoinLength(low, high) = low + 256 * high
BY DEF JoinLength, Uint16, Byte, MaxUint16

(***************************************************************************)
(* The layout of a TCP packet on the wire.                                 *)
(***************************************************************************)
LEMMA WireLayout ==
  ASSUME NEW p \in PacketObject
  PROVE  /\ BuildPacket(p) \in Seq(Byte)
         /\ Len(BuildPacket(p)) = STANDARD + Len(p.data)
         /\ BuildPacket(p)[1] = p.id
         /\ BuildPacket(p)[2] = p.isCompressed
         /\ BuildPacket(p)[3] = LowByte(p.length)
         /\ BuildPacket(p)[4] = HighByte(p.length)
         /\ \A j \in 1 .. Len(p.data) : BuildPacket(p)[STANDARD + j] = p.data[j]
<1> DEFINE front == << p.id, p.isCompressed,
                       LowByte(p.length), HighByte(p.length) >>
<1>1. "isReliable" \notin DOMAIN p
  BY DEF PacketObject
<1>2. BuildPacket(p) = front \o p.data
  BY <1>1 DEF BuildPacket
<1>3. /\ p.id \in Byte /\ p.isCompressed \in Byte
      /\ LowByte(p.length) \in Byte /\ HighByte(p.length) \in Byte
      /\ p.data \in Seq(Byte)
  <2>1. p.length \in Word /\ p.id \in Byte /\ p.data \in Seq(Byte)
    BY DEF PacketObject
  <2>2. LowByte(p.length) \in Byte /\ HighByte(p.length) \in Byte
    BY <2>1, LengthRoundTrip
  <2>3. p.isCompressed \in Byte
    BY DEF PacketObject, Byte
  <2> QED
    BY <2>1, <2>2, <2>3
<1>4. front \in Seq(Byte) /\ Len(front) = 4
  BY <1>3
<1>5. /\ BuildPacket(p) \in Seq(Byte) /\ Len(BuildPacket(p)) = 4 + Len(p.data)
      /\ \A i \in 1 .. 4 + Len(p.data) :
           BuildPacket(p)[i] = IF i <= 4 THEN front[i] ELSE p.data[i - 4]
  BY <1>2, <1>3, <1>4, ConcatProperties
<1>6. Len(p.data) \in Nat
  BY <1>3
<1>7. /\ front[1] = p.id /\ front[2] = p.isCompressed
      /\ front[3] = LowByte(p.length) /\ front[4] = HighByte(p.length)
  OBVIOUS
<1> HIDE DEF front
<1>8. \A i \in 1 .. 4 : BuildPacket(p)[i] = front[i]
  BY <1>5, <1>6
<1>9. ASSUME NEW j \in 1 .. Len(p.data)
      PROVE  BuildPacket(p)[STANDARD + j] = p.data[j]
  BY <1>5, <1>6
<1> QED
  BY <1>5, <1>7, <1>8, <1>9

(* A packet written behind a stream is a frame there. *)
LEMMA AppendedFrame ==
  ASSUME NEW s \in Seq(Byte), NEW p \in PacketObject,
         p.data # << >>, p.length = STANDARD + Len(p.data)
  PROVE  /\ s \o BuildPacket(p) \in Seq(Byte)
         /\ HoldsFrame(s \o BuildPacket(p), Len(s), p,
                       Len(s \o BuildPacket(p)))
<1>1. /\ BuildPacket(p) \in Seq(Byte)
      /\ Len(BuildPacket(p)) = STANDARD + Len(p.data)
      /\ BuildPacket(p)[1] = p.id
      /\ BuildPacket(p)[2] = p.isCompressed
      /\ BuildPacket(p)[3] = LowByte(p.length)
      /\ BuildPacket(p)[4] = HighByte(p.length)
      /\ \A j \in 1 .. Len(p.data) : BuildPacket(p)[STANDARD + j] = p.data[j]
  BY WireLayout
<1>2. /\ p.id \in Byte /\ p.isCompressed \in { 0, 1 } /\ p.length \in Word
      /\ p.data \in Seq(Byte) /\ Len(p.data) \in Nat \ { 0 }
      /\ p = [ id |-> p.id, isCompressed |-> p.isCompressed,
               length |-> p.length, data |-> p.data ]
  <2>1. p.data \in Seq(Byte)
    BY DEF PacketObject
  <2>2. Len(p.data) \in Nat \ { 0 }
    BY <2>1, EmptySeq
  <2> QED
    BY <2>1, <2>2 DEF PacketObject
<1>3. PICK t \in Seq(Byte) :
        /\ t = s \o BuildPacket(p) /\ Len(t) = Len(s) + Len(BuildPacket(p))
        /\ \A i \in 1 .. Len(s) + Len(BuildPacket(p)) :
             t[i] = IF i <= Len(s) THEN s[i] ELSE BuildPacket(p)[i - Len(s)]
  <2>1. PICK b \in Seq(Byte) : b = BuildPacket(p)
    BY <1>1
  <2>2. /\ s \o b \in Seq(Byte) /\ Len(s \o b) = Len(s) + Len(b)
        /\ \A i \in 1 .. Len(s) + Len(b) :
             (s \o b)[i] = IF i <= Len(s) THEN s[i] ELSE b[i - Len(s)]
    BY ConcatProperties
  <2> QED
    BY <2>1, <2>2
<1>4. PICK o \in Nat, n \in Nat : o = Len(s) /\ n = Len(t)
  OBVIOUS
<1>5. PICK size \in Nat \ { 0 } : size = Len(p.data)
  BY <1>2
<1>6. n = o + STANDARD + size
  <2>1. Len(BuildPacket(p)) = STANDARD + size
    BY <1>1, <1>5
  <2>2. Len(t) = Len(s) + Len(BuildPacket(p))
    BY <1>3
  <2> QED
    BY <1>4, <2>1, <2>2
<1>7. \A j \in 1 .. STANDARD + size : t[o + j] = BuildPacket(p)[j]
  BY <1>1, <1>3, <1>4, <1>5
<1>8. /\ t[o + 1] = p.id /\ t[o + 2] = p.isCompressed
      /\ t[o + 3] = LowByte(p.length) /\ t[o + 4] = HighByte(p.length)
  BY <1>1, <1>7
<1>9. SubSeq(t, o + STANDARD + 1, n) = p.data
  <2>1. PICK a \in Seq(Byte) :
          /\ a = SubSeq(t, o + STANDARD + 1, n) /\ Len(a) = size
          /\ \A j \in 1 .. size : a[j] = t[o + STANDARD + j]
    <3>1. /\ o + STANDARD <= n /\ n <= Len(t)
          /\ n - o - STANDARD = size
      BY <1>4, <1>6
    <3>2. /\ SubSeq(t, o + STANDARD + 1, n) \in Seq(Byte)
          /\ Len(SubSeq(t, o + STANDARD + 1, n)) = n - o - STANDARD
          /\ \A j \in 1 .. n - o - STANDARD :
               SubSeq(t, o + STANDARD + 1, n)[j] = t[o + STANDARD + j]
      BY <3>1, PayloadType
    <3> QED
      BY <3>1, <3>2
  <2>2. ASSUME NEW j \in 1 .. size
        PROVE  a[j] = p.data[j]
    <3>1. /\ STANDARD + j \in 1 .. STANDARD + size
          /\ o + (STANDARD + j) = o + STANDARD + j
      BY <1>5
    <3>2. t[o + STANDARD + j] = BuildPacket(p)[STANDARD + j]
      BY <1>7, <3>1
    <3> QED
      BY <1>1, <1>5, <2>1, <3>2
  <2>3. a = p.data
    BY <1>2, <1>5, <2>1, <2>2, SeqEqual
  <2> QED
    BY <2>1, <2>3
<1>10. LengthAt(t, o) = n - o
  <2>1. /\ LowByte(p.length) \in Byte /\ HighByte(p.length) \in Byte
        /\ JoinLength(LowByte(p.length), HighByte(p.length)) = p.length
    BY <1>2, LengthRoundTrip
  <2>2. LowByte(p.length) + 256 * HighByte(p.length) = p.length
    <3>1. PICK low \in Byte, high \in Byte :
            low = LowByte(p.length) /\ high = HighByte(p.length)
      BY <2>1
    <3>2. JoinLength(low, high) = low + 256 * high
      BY JoinLengthOfBytes
    <3> QED
      BY <2>1, <3>1, <3>2
  <2> QED
    <3>1. LengthAt(t, o) = STANDARD + size
      BY <1>5, <1>8, <2>2 DEF LengthAt
    <3> QED
      BY <1>6, <3>1
<1>11. p = TCPPacket(t[o + 1], SubSeq(t, o + STANDARD + 1, n), t[o + 2] # 0)
  <2>1. Uint16(STANDARD + Len(p.data)) = p.length
    <3>1. STANDARD + Len(p.data) \in Word
      BY <1>2
    <3>2. Uint16(STANDARD + Len(p.data)) = STANDARD + Len(p.data)
      BY <3>1, Uint16OfWord
    <3> QED
      BY <3>2
  <2>2. p.isCompressed = IF t[o + 2] # 0 THEN 1 ELSE 0
    BY <1>2, <1>8
  <2> QED
    BY <1>2, <1>8, <1>9, <2>1, <2>2 DEF TCPPacket
<1>12. HoldsFrame(t, o, p, n)
  BY <1>4, <1>6, <1>10, <1>11 DEF HoldsFrame
<1> QED
  BY <1>3, <1>4, <1>12

-----------------------------------------------------------------------------
(***************************************************************************)
(* Reading a stream from its start.                                        *)
(***************************************************************************)
(* One after those before, and before those behind. *)
LEMMA BeforeIsAppended ==
  \A a, b \in Seq(PacketObject), e \in PacketObject :
    a \o Before(e, b) = Append(a, e) \o b
<1> SUFFICES ASSUME NEW a \in Seq(PacketObject), NEW b \in Seq(PacketObject),
                    NEW e \in PacketObject
             PROVE  a \o Before(e, b) = Append(a, e) \o b
  OBVIOUS
<1>1. << e >> \in Seq(PacketObject) /\ Len(<< e >>) = 1 /\ << e >>[1] = e
  OBVIOUS
<1>2. (a \o << e >>) \o b = a \o (<< e >> \o b)
  BY <1>1, ConcatAssociative
<1>3. Append(a, e) = a \o << e >>
  BY AppendIsConcat
<1> QED
  BY <1>2, <1>3 DEF Before

ReadUpTo(s, packets, borders, k) ==
  FramesIn(s) = SubSeq(packets, 1, k) \o FramesFrom(s)[borders[k + 1]]

(* Each frame adds its packet to what was read. *)
LEMMA ReadsOneMore ==
  ASSUME NEW s \in Seq(Byte), NEW packets \in Seq(PacketObject), NEW borders,
         Reads(s, packets, borders), NEW k \in Nat, k + 1 <= Len(packets),
         ReadUpTo(s, packets, borders, k)
  PROVE  ReadUpTo(s, packets, borders, k + 1)
<1> DEFINE read == SubSeq(packets, 1, k)
           next == packets[k + 1]
           here == borders[k + 1]
           there == borders[(k + 1) + 1]
<1>1. k + 1 \in 1 .. Len(packets)
  OBVIOUS
<1>2. HoldsFrame(s, here, next, there)
  BY <1>1 DEF Reads
<1>3. FramesFrom(s)[here] = Before(next, FramesFrom(s)[there])
  BY <1>2, FramesFromFrame
<1>4. FramesFrom(s)[there] \in Seq(PacketObject)
  <2>1. there \in 0 .. Len(s)
    BY <1>2 DEF HoldsFrame
  <2> QED
    BY <2>1, FramesFromType
<1>5. /\ read \in Seq(PacketObject) /\ next \in PacketObject
      /\ SubSeq(packets, 1, k + 1) = Append(read, next)
  BY <1>1, ElementOfSeq
<1>6. FramesIn(s) = read \o FramesFrom(s)[here]
  BY DEF ReadUpTo
<1> HIDE DEF read, next, here, there
<1>7. read \o Before(next, FramesFrom(s)[there])
        = Append(read, next) \o FramesFrom(s)[there]
  BY <1>4, <1>5, BeforeIsAppended, Zenon
<1>8. FramesIn(s) = SubSeq(packets, 1, k + 1) \o FramesFrom(s)[there]
  BY <1>3, <1>5, <1>6, <1>7, Zenon
<1>9. FramesFrom(s)[there] = FramesFrom(s)[borders[(k + 1) + 1]]
  BY Zenon DEF there
<1> QED
  BY <1>8, <1>9, Zenon DEF ReadUpTo

(* The packets read come first, and then those from the last border on. *)
LEMMA ReadsFrames ==
  ASSUME NEW s \in Seq(Byte), NEW packets \in Seq(PacketObject), NEW borders,
         Reads(s, packets, borders)
  PROVE  FramesIn(s) =
           packets \o FramesFrom(s)[borders[Len(packets) + 1]]
<1> DEFINE S == { k \in Nat : k <= Len(packets) =>
                                ReadUpTo(s, packets, borders, k) }
<1>0. Len(packets) \in Nat /\ Len(s) \in Nat
  OBVIOUS
<1>1. 0 \in S
  <2>1. SubSeq(packets, 1, 0) = << >> /\ borders[0 + 1] = 0
    BY DEF Reads
  <2>2. FramesFrom(s)[0] \in Seq(PacketObject)
    BY <1>0, FramesFromType
  <2>3. << >> \o FramesFrom(s)[0] = FramesFrom(s)[0]
    BY <2>2
  <2>4. ReadUpTo(s, packets, borders, 0)
    BY <2>1, <2>3, FramesInIsFromStart DEF ReadUpTo
  <2> QED
    BY <2>4
<1>2. ASSUME NEW k \in Nat, k \in S
      PROVE  k + 1 \in S
  BY <1>0, <1>2, ReadsOneMore
<1>3. Nat \subseteq S
  <2> HIDE DEF S
  <2> QED
    BY <1>1, <1>2, SetInduction
<1>4. ReadUpTo(s, packets, borders, Len(packets))
  BY <1>0, <1>3
<1>5. SubSeq(packets, 1, Len(packets)) = packets
  OBVIOUS
<1> QED
  BY <1>4, <1>5 DEF ReadUpTo

(* No packet is read of no byte. *)
LEMMA ReadsNothing == ASSUME NEW s PROVE Reads(s, << >>, << 0 >>)
BY DEF Reads

(* Streams that are the same up to the end of a frame both have it. *)
LEMMA SameFrame ==
  ASSUME NEW s \in Seq(Byte), NEW t \in Seq(Byte),
         NEW o, NEW p, NEW n, HoldsFrame(s, o, p, n),
         n <= Len(t), \A i \in 1 .. n : t[i] = s[i]
  PROVE  HoldsFrame(t, o, p, n)
<1>1. /\ o \in Nat /\ n \in Nat /\ o + STANDARD < n /\ n <= Len(s)
      /\ Len(s) \in Nat /\ Len(t) \in Nat
  BY DEF HoldsFrame
<1>2. \A i \in 1 .. STANDARD : t[o + i] = s[o + i]
  BY <1>1
<1>3. LengthAt(t, o) = LengthAt(s, o) /\ t[o + 1] = s[o + 1]
      /\ t[o + 2] = s[o + 2]
  BY <1>2 DEF LengthAt
<1>4. SubSeq(t, o + STANDARD + 1, n) = SubSeq(s, o + STANDARD + 1, n)
  <2> DEFINE a == SubSeq(s, o + STANDARD + 1, n)
             b == SubSeq(t, o + STANDARD + 1, n)
  <2>1. /\ a \in Seq(Byte) /\ b \in Seq(Byte)
        /\ Len(a) = n - o - STANDARD /\ Len(b) = n - o - STANDARD
        /\ \A j \in 1 .. n - o - STANDARD :
             a[j] = s[o + STANDARD + j] /\ b[j] = t[o + STANDARD + j]
    BY <1>1, PayloadType
  <2>2. \A j \in 1 .. n - o - STANDARD : o + STANDARD + j \in 1 .. n
    BY <1>1
  <2> HIDE DEF a, b
  <2>3. \A j \in 1 .. Len(a) : a[j] = b[j]
    BY <2>1, <2>2
  <2>4. a = b
    BY <2>1, <2>3, SeqEqual
  <2> QED
    BY <2>4 DEF a, b
<1>5. p = TCPPacket(t[o + 1], SubSeq(t, o + STANDARD + 1, n), t[o + 2] # 0)
  BY <1>3, <1>4 DEF HoldsFrame
<1>6. LengthAt(t, o) = n - o
  BY <1>3 DEF HoldsFrame
<1>7. n <= Len(t)
  BY <1>1
<1> QED
  BY <1>1, <1>5, <1>6, <1>7 DEF HoldsFrame

(* A stream that grows keeps the frames it has. *)
LEMMA HoldsFrameStill ==
  ASSUME NEW s \in Seq(Byte), NEW t \in Seq(Byte), Len(s) <= Len(t),
         \A i \in 1 .. Len(s) : t[i] = s[i],
         NEW o, NEW p, NEW n, HoldsFrame(s, o, p, n)
  PROVE  HoldsFrame(t, o, p, n)
<1>1. n <= Len(t) /\ \A i \in 1 .. n : t[i] = s[i]
  BY DEF HoldsFrame
<1> QED
  BY <1>1, SameFrame

(* A stream that grows still begins with the packets read. *)
LEMMA ReadsStill ==
  ASSUME NEW s \in Seq(Byte), NEW t \in Seq(Byte), Len(s) <= Len(t),
         \A i \in 1 .. Len(s) : t[i] = s[i],
         NEW packets, NEW borders, Reads(s, packets, borders)
  PROVE  Reads(t, packets, borders)
BY HoldsFrameStill DEF Reads

-----------------------------------------------------------------------------
(***************************************************************************)
(* The same without the borders but the last: a stream begins with these   *)
(* packets, and this is where the last of them ends.                       *)
(***************************************************************************)
BeginsWith(s, packets, offset) ==
  \E borders : /\ Reads(s, packets, borders)
               /\ borders[Len(packets) + 1] = offset

(* No packet ends where the stream begins. *)
LEMMA BeginsWithNothing == ASSUME NEW s PROVE BeginsWith(s, << >>, 0)
<1>1. << 0 >>[Len(<< >>) + 1] = 0
  OBVIOUS
<1> QED
  BY <1>1, ReadsNothing DEF BeginsWith

(* Each frame is one packet more. *)
LEMMA BeginsWithMore ==
  ASSUME NEW s, NEW packets \in Seq(PacketObject), NEW o,
         BeginsWith(s, packets, o),
         NEW p \in PacketObject, NEW n, HoldsFrame(s, o, p, n)
  PROVE  BeginsWith(s, Append(packets, p), n)
<1> DEFINE ps == Append(packets, p)
<1>0. PICK borders : /\ Reads(s, packets, borders)
                     /\ borders[Len(packets) + 1] = o
  BY DEF BeginsWith
<1> DEFINE bs == Append(borders, n)
<1>1. /\ borders \in Seq(Nat) /\ Len(borders) = Len(packets) + 1
      /\ borders[1] = 0 /\ n \in Nat /\ Len(packets) \in Nat
  BY <1>0 DEF Reads, HoldsFrame
<1>2. /\ ps \in Seq(PacketObject) /\ Len(ps) = Len(packets) + 1
      /\ \A k \in 1 .. Len(packets) : ps[k] = packets[k]
      /\ ps[Len(packets) + 1] = p
  BY AppendProperties
<1>3. /\ bs \in Seq(Nat) /\ Len(bs) = Len(packets) + 2
      /\ \A k \in 1 .. Len(packets) + 1 : bs[k] = borders[k]
      /\ bs[Len(packets) + 2] = n
  BY <1>1, AppendProperties
<1> HIDE DEF ps, bs
<1>4. ASSUME NEW k \in 1 .. Len(packets) + 1
      PROVE  HoldsFrame(s, bs[k], ps[k], bs[k + 1])
  <2>1. CASE k = Len(packets) + 1
    <3>1. bs[k] = borders[Len(packets) + 1] /\ ps[k] = p /\ bs[k + 1] = n
      BY <1>1, <1>2, <1>3, <2>1
    <3> QED
      BY <1>0, <3>1
  <2>2. CASE k # Len(packets) + 1
    <3>1. k \in 1 .. Len(packets)
      BY <1>1, <2>2
    <3>2. k \in 1 .. Len(packets) + 1 /\ k + 1 \in 1 .. Len(packets) + 1
      BY <1>1, <3>1
    <3>3. /\ bs[k] = borders[k] /\ ps[k] = packets[k]
          /\ bs[k + 1] = borders[k + 1]
      BY <1>2, <1>3, <3>1, <3>2
    <3> QED
      BY <1>0, <3>1, <3>3 DEF Reads
  <2> QED
    BY <2>1, <2>2
<1>5. bs[1] = 0
  BY <1>1, <1>3
<1>6. Reads(s, ps, bs)
  BY <1>1, <1>2, <1>3, <1>4, <1>5 DEF Reads
<1>7. bs[Len(ps) + 1] = n
  BY <1>1, <1>2, <1>3
<1> QED
  BY <1>6, <1>7 DEF BeginsWith, ps

(* What comes later does not change what a stream begins with. *)
LEMMA BeginsWithStill ==
  ASSUME NEW s \in Seq(Byte), NEW t \in Seq(Byte), Len(s) <= Len(t),
         \A i \in 1 .. Len(s) : t[i] = s[i],
         NEW packets, NEW o, BeginsWith(s, packets, o)
  PROVE  BeginsWith(t, packets, o)
BY ReadsStill DEF BeginsWith

(* The frames of a stream are the packets it begins with and what follows. *)
LEMMA BeginsWithFrames ==
  ASSUME NEW s \in Seq(Byte), NEW packets \in Seq(PacketObject), NEW o,
         BeginsWith(s, packets, o)
  PROVE  FramesIn(s) = packets \o FramesFrom(s)[o]
BY ReadsFrames DEF BeginsWith

(***************************************************************************)
(* A stream that is made of packets, cut off anywhere: what is read is the *)
(* packets that are whole.                                                 *)
(***************************************************************************)
LEMMA CutStream ==
  ASSUME NEW t \in Seq(Byte), NEW packets \in Seq(PacketObject),
         BeginsWith(t, packets, Len(t)),
         NEW s \in Seq(Byte), Len(s) <= Len(t),
         \A i \in 1 .. Len(s) : s[i] = t[i]
  PROVE  \E m \in 0 .. Len(packets) :
           /\ FramesIn(s) = SubSeq(packets, 1, m)
           /\ Len(s) = Len(t) => m = Len(packets)
<1>0. Len(s) \in Nat /\ Len(t) \in Nat /\ Len(packets) \in Nat
  OBVIOUS
<1>1. PICK borders : /\ Reads(t, packets, borders)
                     /\ borders[Len(packets) + 1] = Len(t)
  BY DEF BeginsWith
<1>2. /\ borders \in Seq(Nat) /\ Len(borders) = Len(packets) + 1
      /\ borders[1] = 0
      /\ \A k \in 1 .. Len(packets) :
           HoldsFrame(t, borders[k], packets[k], borders[k + 1])
  BY <1>1 DEF Reads
<1>3. PICK m \in 0 .. Len(packets) :
        /\ m = Len(packets) \/ borders[m + 2] > Len(s)
        /\ \A k \in 0 .. Len(packets) :
             k < m => k # Len(packets) /\ ~(borders[k + 2] > Len(s))
  <2> DEFINE Whole == { k \in 0 .. Len(packets) :
                          k = Len(packets) \/ borders[k + 2] > Len(s) }
  <2>1. Whole \subseteq Nat /\ Len(packets) \in Whole
    BY <1>0
  <2>2. PICK n \in Whole : \A k \in Whole : n <= k
    <3> HIDE DEF Whole
    <3> QED
      BY <2>1, LeastElement
  <2>3. n \in 0 .. Len(packets)
    OBVIOUS
  <2>4. ASSUME NEW k \in 0 .. Len(packets), k < n
        PROVE  k \notin Whole
    <3> HIDE DEF Whole
    <3> QED
      BY <1>0, <2>2, <2>3, <2>4
  <2> QED
    BY <2>2, <2>3, <2>4
<1>4. ASSUME NEW k \in 1 .. m
      PROVE  HoldsFrame(s, borders[k], packets[k], borders[k + 1])
  <2>1. k \in 1 .. Len(packets) /\ k - 1 \in 0 .. Len(packets) /\ k - 1 < m
        /\ (k - 1) + 2 = k + 1
    BY <1>0
  <2>2. HoldsFrame(t, borders[k], packets[k], borders[k + 1])
    BY <1>2, <2>1
  <2>3. borders[k + 1] \in Nat /\ borders[k + 1] <= Len(t)
    BY <2>2 DEF HoldsFrame
  <2>4. borders[k + 1] <= Len(s)
    <3>1. ~(borders[(k - 1) + 2] > Len(s))
      BY <1>3, <2>1
    <3> QED
      BY <1>0, <2>1, <2>3, <3>1
  <2>5. \A i \in 1 .. borders[k + 1] : s[i] = t[i]
    BY <1>0, <2>3, <2>4
  <2> QED
    BY <2>2, <2>4, <2>5, SameFrame
<1>5. PICK ps \in Seq(PacketObject) :
        /\ ps = SubSeq(packets, 1, m) /\ Len(ps) = m
        /\ \A k \in 1 .. m : ps[k] = packets[k]
  <2>1. \A k \in 1 .. m : k \in 1 .. Len(packets)
    BY <1>0
  <2>2. \A k \in 1 .. m : packets[k] \in PacketObject
    BY <2>1, ElementOfSeq
  <2> QED
    <3>1. m \in 0 .. Len(packets) /\ 1 \in 1 .. m + 1
      BY <1>0
    <3>2. /\ SubSeq(packets, 1, m) \in Seq(PacketObject)
          /\ Len(SubSeq(packets, 1, m)) = m
          /\ \A k \in 1 .. m : SubSeq(packets, 1, m)[k] = packets[k]
      BY <1>0, <2>1, <2>2, <3>1
    <3> QED
      BY <3>2
<1>6. PICK bs \in Seq(Nat) :
        /\ Len(bs) = m + 1 /\ \A k \in 1 .. m + 1 : bs[k] = borders[k]
  <2>1. \A k \in 1 .. m + 1 : k \in 1 .. Len(borders)
    BY <1>0, <1>2
  <2>2. \A k \in 1 .. m + 1 : borders[k] \in Nat
    BY <1>2, <2>1, ElementOfSeq
  <2> DEFINE b == [ k \in 1 .. m + 1 |-> borders[k] ]
  <2>3. b \in Seq(Nat) /\ Len(b) = m + 1
    <3>1. b \in [ 1 .. m + 1 -> Nat ] /\ m + 1 \in Nat
      BY <1>0, <2>2
    <3> HIDE DEF b
    <3> QED
      BY <3>1
  <2>4. \A k \in 1 .. m + 1 : b[k] = borders[k]
    OBVIOUS
  <2> HIDE DEF b
  <2> QED
    BY <2>3, <2>4
<1>7. PICK o : o = borders[m + 1]
  OBVIOUS
<1>8. BeginsWith(s, ps, o)
  <2>1. \A k \in 1 .. m : k \in 1 .. m + 1 /\ k + 1 \in 1 .. m + 1
    BY <1>0
  <2>2. \A k \in 1 .. Len(ps) : HoldsFrame(s, bs[k], ps[k], bs[k + 1])
    BY <1>4, <1>5, <1>6, <2>1
  <2>3. bs[1] = 0 /\ bs[Len(ps) + 1] = o
    BY <1>0, <1>2, <1>5, <1>6, <1>7
  <2>4. Reads(s, ps, bs)
    BY <1>5, <1>6, <2>2, <2>3 DEF Reads
  <2> QED
    BY <2>3, <2>4 DEF BeginsWith
<1>9. o \in 0 .. Len(s)
  <2>1. CASE m = 0
    BY <1>0, <1>2, <1>7, <2>1
  <2>2. CASE m # 0
    <3>1. m \in 1 .. m
      BY <2>2
    <3>2. HoldsFrame(s, borders[m], packets[m], borders[m + 1])
      BY <1>4, <3>1
    <3> QED
      BY <1>0, <1>7, <3>2 DEF HoldsFrame
  <2> QED
    BY <2>1, <2>2
<1>10. \/ o + STANDARD > Len(s)
       \/ o + LengthAt(s, o) > Len(s)
  <2>1. CASE m = Len(packets)
    <3>1. o = Len(t)
      BY <1>1, <1>7, <2>1
    <3> QED
      BY <1>0, <3>1
  <2>2. CASE m # Len(packets) /\ o + STANDARD <= Len(s)
    <3>1. m + 1 \in 1 .. Len(packets) /\ (m + 1) + 1 = m + 2
      BY <1>0, <2>2
    <3>2. HoldsFrame(t, o, packets[m + 1], borders[m + 2])
      BY <1>2, <1>7, <3>1
    <3>3. /\ borders[m + 2] \in Nat
          /\ LengthAt(t, o) = borders[m + 2] - o
      BY <3>2 DEF HoldsFrame
    <3>4. o + 3 \in 1 .. Len(s) /\ o + 4 \in 1 .. Len(s)
      BY <1>0, <1>9, <2>2
    <3>5. LengthAt(s, o) = LengthAt(t, o)
      BY <3>4 DEF LengthAt
    <3>6. borders[m + 2] > Len(s)
      BY <1>3, <2>2
    <3> QED
      BY <1>9, <3>3, <3>5, <3>6
  <2> QED
    BY <1>0, <1>9, <2>1, <2>2
<1>11. FramesFrom(s)[o] = << >>
  BY <1>9, <1>10, FramesFromEnd
<1>12. FramesIn(s) = ps
  <2>1. FramesIn(s) = ps \o << >>
    BY <1>8, <1>11, BeginsWithFrames
  <2> QED
    BY <2>1, ConcatEmptySeq
<1>13. ASSUME Len(s) = Len(t), m # Len(packets)
       PROVE  FALSE
  <2>1. m + 1 \in 1 .. Len(packets) /\ (m + 1) + 1 = m + 2
    BY <1>0, <1>13
  <2>2. HoldsFrame(t, borders[m + 1], packets[m + 1], borders[m + 2])
    BY <1>2, <2>1
  <2>3. borders[m + 2] \in Nat /\ borders[m + 2] <= Len(t)
    BY <2>2 DEF HoldsFrame
  <2> QED
    BY <1>0, <1>3, <1>13, <2>3
<1> QED
  BY <1>5, <1>12, <1>13
=============================================================================
