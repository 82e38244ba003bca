------------------------ MODULE InternalPackets_proofs ------------------------
(***************************************************************************)
(* What is written of a 64-bit integer reads back as that integer, and so  *)
(* a goodbye reads back as it was written, for every 64-bit time.          *)
(***************************************************************************)
EXTENDS InternalPackets, SequenceTheorems, TLAPS

(* The bounds of an int64_t, as inequalities: the solver likes no ranges. *)
IsInt16(n) == n \in Int /\ -32768 <= n /\ n < 32768
IsInt64(n) == /\ n \in Int
              /\ -9223372036854775808 <= n /\ n < 9223372036854775808

(* The lowest 16-bit word of an integer, and what is above it. *)
LEMMA WordOf ==
  ASSUME NEW n \in Int, NEW b, b = Shift16(n)
  PROVE  /\ b \in Int
         /\ n % 65536 \in Int /\ 0 <= n % 65536 /\ n % 65536 < 65536
         /\ n = 65536 * b + (n % 65536)
BY DEF Shift16

(* The lowest byte of an integer, and what is above it. *)
LEMMA BytesOf ==
  ASSUME NEW n \in Int
  PROVE  /\ n \div 256 \in Int
         /\ n % 256 \in Int /\ 0 <= n % 256 /\ n % 256 < 256
         /\ n = 256 * (n \div 256) + (n % 256)
OBVIOUS

(* The two lowest bytes of an integer are its lowest word. *)
LEMMA TwoBytes ==
  ASSUME NEW n \in Int,
         NEW q \in Int, NEW r \in Int, 0 <= r, r < 256, n = 256 * q + r,
         NEW s \in Int, NEW h \in Int, 0 <= h, h < 256, q = 256 * s + h
  PROVE  n % 65536 = r + 256 * h
<1>1. n = 65536 * s + (r + 256 * h) /\ 0 <= r + 256 * h /\ r + 256 * h < 65536
  OBVIOUS
<1> QED
  BY <1>1

(* A word is split into two bytes, and put together again. *)
LEMMA WordSplit ==
  ASSUME NEW n \in Int
  PROVE  /\ LowByte(n) \in Byte /\ HighByte(n) \in Byte
         /\ LowByte(n) + 256 * HighByte(n) = n % 65536
<1> DEFINE q == n \div 256
<1>1. /\ q \in Int /\ n % 256 \in Int /\ 0 <= n % 256 /\ n % 256 < 256
      /\ n = 256 * q + (n % 256)
  BY BytesOf
<1>2. /\ q \div 256 \in Int
      /\ q % 256 \in Int /\ 0 <= q % 256 /\ q % 256 < 256
      /\ q = 256 * (q \div 256) + (q % 256)
  BY <1>1, BytesOf
<1>3. LowByte(n) = n % 256 /\ HighByte(n) = q % 256
  BY DEF LowByte, HighByte
<1> HIDE DEF q
<1>4. (n % 256) + 256 * (q % 256) = n % 65536
  BY <1>1, <1>2, TwoBytes
<1> QED
  BY <1>1, <1>2, <1>3, <1>4 DEF Byte

(* The bytes of an integer, one by one. *)
LEMMA Concat ==
  ASSUME NEW p \in Seq(Byte), NEW q \in Seq(Byte)
  PROVE  /\ p \o q \in Seq(Byte) /\ Len(p \o q) = Len(p) + Len(q)
         /\ \A i \in Nat : i >= 1 /\ i <= Len(p) => (p \o q)[i] = p[i]
         /\ \A i \in Nat : i >= 1 /\ i <= Len(q) => (p \o q)[Len(p) + i] = q[i]
<1>1. /\ p \o q \in Seq(Byte) /\ Len(p \o q) = Len(p) + Len(q)
      /\ \A i \in 1 .. Len(p) + Len(q) :
           (p \o q)[i] = IF i <= Len(p) THEN p[i] ELSE q[i - Len(p)]
  BY ConcatProperties
<1>2. Len(p) \in Nat /\ Len(q) \in Nat
  OBVIOUS
<1>3. ASSUME NEW i \in Nat, i >= 1, i <= Len(p)
      PROVE  (p \o q)[i] = p[i]
  <2>1. i \in 1 .. Len(p) + Len(q)
    BY <1>2, <1>3
  <2> QED
    BY <1>1, <1>3, <2>1
<1>4. ASSUME NEW i \in Nat, i >= 1, i <= Len(q)
      PROVE  (p \o q)[Len(p) + i] = q[i]
  <2>1. /\ Len(p) + i \in 1 .. Len(p) + Len(q)
        /\ ~(Len(p) + i <= Len(p)) /\ (Len(p) + i) - Len(p) = i
    BY <1>2, <1>4
  <2> QED
    BY <1>1, <2>1
<1> QED
  BY <1>1, <1>3, <1>4

(* The bytes of one word, one by one. *)
LEMMA WordBytesOf ==
  ASSUME NEW n \in Int
  PROVE  /\ WordBytes(n) \in Seq(Byte) /\ Len(WordBytes(n)) = 2
         /\ WordBytes(n)[1] = LowByte(n) /\ WordBytes(n)[2] = HighByte(n)
<1>1. LowByte(n) \in Byte /\ HighByte(n) \in Byte
  BY WordSplit
<1> QED
  BY <1>1 DEF WordBytes

(* The bytes of two words, one by one. *)
LEMMA TwoWords ==
  ASSUME NEW a \in Int, NEW b \in Int
  PROVE  LET s == WordBytes(a) \o WordBytes(b)
         IN /\ s \in Seq(Byte) /\ Len(s) = 4
            /\ s[1] = LowByte(a) /\ s[2] = HighByte(a)
            /\ s[3] = LowByte(b) /\ s[4] = HighByte(b)
<1> DEFINE s == WordBytes(a) \o WordBytes(b)
<1>1. /\ WordBytes(a) \in Seq(Byte) /\ Len(WordBytes(a)) = 2
      /\ WordBytes(a)[1] = LowByte(a) /\ WordBytes(a)[2] = HighByte(a)
  BY WordBytesOf
<1>2. /\ WordBytes(b) \in Seq(Byte) /\ Len(WordBytes(b)) = 2
      /\ WordBytes(b)[1] = LowByte(b) /\ WordBytes(b)[2] = HighByte(b)
  BY WordBytesOf
<1> DEFINE p == WordBytes(a)
           q == WordBytes(b)
<1>3. /\ s \in Seq(Byte) /\ Len(s) = 2 + 2
      /\ \A i \in Nat : i >= 1 /\ i <= 2 => s[i] = p[i]
      /\ \A i \in Nat : i >= 1 /\ i <= 2 => s[2 + i] = q[i]
  <2>1. s = p \o q /\ p \in Seq(Byte) /\ q \in Seq(Byte)
          /\ Len(p) = 2 /\ Len(q) = 2
    BY <1>1, <1>2
  <2> HIDE DEF p, q, s
  <2>2. /\ p \o q \in Seq(Byte) /\ Len(p \o q) = Len(p) + Len(q)
        /\ \A i \in Nat : i >= 1 /\ i <= Len(p) => (p \o q)[i] = p[i]
        /\ \A i \in Nat : i >= 1 /\ i <= Len(q) =>
                           (p \o q)[Len(p) + i] = q[i]
    BY <2>1, Concat
  <2> QED
    BY <2>1, <2>2
<1> HIDE DEF s
<1>4. s[1] = WordBytes(a)[1] /\ s[2] = WordBytes(a)[2]
  BY <1>3
<1>5. s[2 + 1] = WordBytes(b)[1] /\ s[2 + 2] = WordBytes(b)[2]
  BY <1>3
<1>6. Len(s) = 4 /\ s[2 + 1] = s[3] /\ s[2 + 2] = s[4]
  BY <1>3
<1>7. /\ s \in Seq(Byte) /\ Len(s) = 4
      /\ s[1] = LowByte(a) /\ s[2] = HighByte(a)
      /\ s[3] = LowByte(b) /\ s[4] = HighByte(b)
  BY <1>1, <1>2, <1>3, <1>4, <1>5, <1>6
<1> QED
  BY <1>7 DEF s

Spells(s, a, b, c, d) ==
  /\ s \in Seq(Byte) /\ Len(s) = 8
  /\ s[1] = LowByte(a) /\ s[2] = HighByte(a)
  /\ s[3] = LowByte(b) /\ s[4] = HighByte(b)
  /\ s[5] = LowByte(c) /\ s[6] = HighByte(c)
  /\ s[7] = LowByte(d) /\ s[8] = HighByte(d)

(* The bytes of four words, one by one. *)
LEMMA FourWords ==
  ASSUME NEW a \in Int, NEW b \in Int, NEW c \in Int, NEW d \in Int
  PROVE  Spells((WordBytes(a) \o WordBytes(b)) \o (WordBytes(c) \o WordBytes(d)),
                a, b, c, d)
<1> DEFINE front == WordBytes(a) \o WordBytes(b)
           back  == WordBytes(c) \o WordBytes(d)
           s     == front \o back
<1>1. /\ front \in Seq(Byte) /\ Len(front) = 4
      /\ front[1] = LowByte(a) /\ front[2] = HighByte(a)
      /\ front[3] = LowByte(b) /\ front[4] = HighByte(b)
  BY TwoWords
<1>2. /\ back \in Seq(Byte) /\ Len(back) = 4
      /\ back[1] = LowByte(c) /\ back[2] = HighByte(c)
      /\ back[3] = LowByte(d) /\ back[4] = HighByte(d)
  BY TwoWords
<1> HIDE DEF front, back
<1>3. /\ s \in Seq(Byte) /\ Len(s) = 4 + 4
      /\ \A i \in Nat : i >= 1 /\ i <= 4 => s[i] = front[i]
      /\ \A i \in Nat : i >= 1 /\ i <= 4 => s[4 + i] = back[i]
  <2>1. s = front \o back
    OBVIOUS
  <2> HIDE DEF s
  <2>2. /\ front \o back \in Seq(Byte)
        /\ Len(front \o back) = Len(front) + Len(back)
        /\ \A i \in Nat : i >= 1 /\ i <= Len(front) =>
                           (front \o back)[i] = front[i]
        /\ \A i \in Nat : i >= 1 /\ i <= Len(back) =>
                           (front \o back)[Len(front) + i] = back[i]
    BY <1>1, <1>2, Concat
  <2> QED
    BY <1>1, <1>2, <2>1, <2>2
<1> HIDE DEF s
<1>4. s[1] = front[1] /\ s[2] = front[2] /\ s[3] = front[3] /\ s[4] = front[4]
  BY <1>3
<1>5. /\ s[4 + 1] = back[1] /\ s[4 + 2] = back[2]
      /\ s[4 + 3] = back[3] /\ s[4 + 4] = back[4]
  BY <1>3
<1>6. /\ Len(s) = 8
      /\ s[4 + 1] = s[5] /\ s[4 + 2] = s[6] /\ s[4 + 3] = s[7] /\ s[4 + 4] = s[8]
  BY <1>3
<1>7. /\ s \in Seq(Byte) /\ Len(s) = 8
      /\ s[1] = LowByte(a) /\ s[2] = HighByte(a)
      /\ s[3] = LowByte(b) /\ s[4] = HighByte(b)
      /\ s[5] = LowByte(c) /\ s[6] = HighByte(c)
      /\ s[7] = LowByte(d) /\ s[8] = HighByte(d)
  BY <1>1, <1>2, <1>3, <1>4, <1>5, <1>6
<1> QED
  BY <1>7 DEF s, front, back, Spells

(* An int64_t is written as its four words, the lowest first. *)
LEMMA Int64Layout ==
  ASSUME NEW n \in Int, NEW b, NEW c, NEW d,
         b = Shift16(n), c = Shift16(b), d = Shift16(c)
  PROVE  Spells(Int64Bytes(n), n, b, c, d)
<1>1. b \in Int /\ c \in Int /\ d \in Int
  <2>1. \A m \in Int : Shift16(m) \in Int
    BY DEF Shift16
  <2> QED BY <2>1
<1>2. Int64Bytes(n) =
        (WordBytes(n) \o WordBytes(b)) \o (WordBytes(c) \o WordBytes(d))
  BY DEF Int64Bytes, Int32Bytes
<1> QED
  BY <1>1, <1>2, FourWords

(* The highest word of an int64_t is read back with its sign. *)
LEMMA SignOfWord ==
  ASSUME NEW d, IsInt16(d)
  PROVE  Signed(d % 65536) = d
<1>1. CASE d >= 0
  BY <1>1 DEF IsInt16, Signed
<1>2. CASE d < 0
  <2>1. d % 65536 = d + 65536
    BY <1>2 DEF IsInt16
  <2> QED
    BY <1>2, <2>1 DEF IsInt16, Signed
<1> QED
  BY <1>1, <1>2 DEF IsInt16

(* The four words of an int64_t make it up again. *)
LEMMA WordsAddUp ==
  ASSUME NEW n, IsInt64(n), NEW b \in Int, NEW c \in Int, NEW d \in Int,
         b = Shift16(n), c = Shift16(b), d = Shift16(c)
  PROVE  n = (n % 65536)
               + 65536 * ((b % 65536)
               + 65536 * ((c % 65536)
               + 65536 * Signed(d % 65536)))
<1> DEFINE x == n % 65536
           y == b % 65536
           z == c % 65536
<1>1. n \in Int
  BY DEF IsInt64
<1>2. x \in Int /\ 0 <= x /\ x < 65536 /\ n = 65536 * b + x
  BY <1>1 DEF Shift16
<1>3. y \in Int /\ 0 <= y /\ y < 65536 /\ b = 65536 * c + y
  BY DEF Shift16
<1>4. z \in Int /\ 0 <= z /\ z < 65536 /\ c = 65536 * d + z
  BY DEF Shift16
<1> HIDE DEF x, y, z
<1>5. IsInt16(d)
  <2>1. -9223372036854775808 <= n /\ n < 9223372036854775808
    BY DEF IsInt64
  <2>2. -140737488355328 <= b /\ b < 140737488355328
    BY <1>1, <1>2, <2>1
  <2>3. -2147483648 <= c /\ c < 2147483648
    BY <1>3, <2>2
  <2>4. -32768 <= d /\ d < 32768
    BY <1>4, <2>3
  <2> QED
    BY <2>4 DEF IsInt16
<1>6. Signed(d % 65536) = d
  BY <1>5, SignOfWord
<1>7. n = x + 65536 * (y + 65536 * (z + 65536 * d))
  BY <1>1, <1>2, <1>3, <1>4
<1> QED
  BY <1>6, <1>7 DEF x, y, z

(* The bytes of n stand behind the first offset bytes. *)
StandsAt(n, bytes, offset) ==
  \A i \in 1 .. 8 : bytes[offset + i] = Int64Bytes(n)[i]

(* Each word of an integer is read back from where it stands. *)
LEMMA WordsStandAt ==
  ASSUME NEW n \in Int, NEW b \in Int, NEW c \in Int, NEW d \in Int,
         b = Shift16(n), c = Shift16(b), d = Shift16(c),
         NEW bytes, NEW offset \in Nat, StandsAt(n, bytes, offset)
  PROVE  /\ WordAt(bytes, offset) = n % 65536
         /\ WordAt(bytes, offset + 2) = b % 65536
         /\ WordAt(bytes, offset + 4) = c % 65536
         /\ WordAt(bytes, offset + 6) = d % 65536
<1> DEFINE own == Int64Bytes(n)
<1>1. /\ own[1] = LowByte(n) /\ own[2] = HighByte(n)
      /\ own[3] = LowByte(b) /\ own[4] = HighByte(b)
      /\ own[5] = LowByte(c) /\ own[6] = HighByte(c)
      /\ own[7] = LowByte(d) /\ own[8] = HighByte(d)
  BY Int64Layout DEF Spells
<1>2. /\ bytes[offset + 1] = own[1] /\ bytes[offset + 2] = own[2]
      /\ bytes[offset + 3] = own[3] /\ bytes[offset + 4] = own[4]
      /\ bytes[offset + 5] = own[5] /\ bytes[offset + 6] = own[6]
      /\ bytes[offset + 7] = own[7] /\ bytes[offset + 8] = own[8]
  BY DEF StandsAt
<1> HIDE DEF own
<1>3. /\ offset + 2 + 1 = offset + 3 /\ offset + 2 + 2 = offset + 4
      /\ offset + 4 + 1 = offset + 5 /\ offset + 4 + 2 = offset + 6
      /\ offset + 6 + 1 = offset + 7 /\ offset + 6 + 2 = offset + 8
  OBVIOUS
<1>4. /\ WordAt(bytes, offset) = LowByte(n) + 256 * HighByte(n)
      /\ WordAt(bytes, offset + 2) = LowByte(b) + 256 * HighByte(b)
      /\ WordAt(bytes, offset + 4) = LowByte(c) + 256 * HighByte(c)
      /\ WordAt(bytes, offset + 6) = LowByte(d) + 256 * HighByte(d)
  BY <1>1, <1>2, <1>3 DEF WordAt
<1>5. \A m \in Int : LowByte(m) + 256 * HighByte(m) = m % 65536
  BY WordSplit
<1> QED
  BY <1>4, <1>5

(***************************************************************************)
(* What is written of a 64-bit integer reads back as that integer, at any  *)
(* place of a byte array.                                                  *)
(***************************************************************************)
LEMMA Int64RoundTrip ==
  ASSUME NEW n, IsInt64(n), NEW bytes, NEW offset \in Nat,
         StandsAt(n, bytes, offset)
  PROVE  Int64At(bytes, offset) = n
<1> DEFINE b == Shift16(n)
           c == Shift16(b)
           d == Shift16(c)
<1>1. n \in Int
  BY DEF IsInt64
<1>2. b \in Int
  BY <1>1, WordOf
<1>3. c \in Int
  BY <1>2, WordOf
<1>4. d \in Int
  BY <1>3, WordOf
<1>5. b = Shift16(n) /\ c = Shift16(b) /\ d = Shift16(c)
  OBVIOUS
<1> HIDE DEF b, c, d
<1>6. /\ WordAt(bytes, offset) = n % 65536
      /\ WordAt(bytes, offset + 2) = b % 65536
      /\ WordAt(bytes, offset + 4) = c % 65536
      /\ WordAt(bytes, offset + 6) = d % 65536
  BY <1>1, <1>2, <1>3, <1>4, <1>5, WordsStandAt
<1>7. n = (n % 65536)
            + 65536 * ((b % 65536)
            + 65536 * ((c % 65536)
            + 65536 * Signed(d % 65536)))
  BY <1>2, <1>3, <1>4, <1>5, WordsAddUp
<1>8. Int64At(bytes, offset) =
        (n % 65536)
          + 65536 * ((b % 65536)
          + 65536 * ((c % 65536)
          + 65536 * Signed(d % 65536)))
  BY <1>6 DEF Int64At
<1> QED
  BY <1>7, <1>8

-----------------------------------------------------------------------------
(* Two integers, one behind the other. *)
LEMMA TwoIntegers ==
  ASSUME NEW m \in Int, NEW n \in Int
  PROVE  LET s == Int64Bytes(m) \o Int64Bytes(n)
         IN /\ s \in Seq(Byte) /\ Len(s) = 16
            /\ StandsAt(m, s, 0) /\ StandsAt(n, s, 8)
<1> DEFINE p == Int64Bytes(m)
           q == Int64Bytes(n)
           s == p \o q
<1>1. p \in Seq(Byte) /\ Len(p) = 8
  BY Int64Layout DEF Spells
<1>2. q \in Seq(Byte) /\ Len(q) = 8
  BY Int64Layout DEF Spells
<1>3. /\ s \in Seq(Byte) /\ Len(s) = 16
      /\ \A i \in Nat : i >= 1 /\ i <= 8 => s[i] = p[i]
      /\ \A i \in Nat : i >= 1 /\ i <= 8 => s[8 + i] = q[i]
  <2> HIDE DEF p, q
  <2>1. /\ p \o q \in Seq(Byte) /\ Len(p \o q) = Len(p) + Len(q)
        /\ \A i \in Nat : i >= 1 /\ i <= Len(p) => (p \o q)[i] = p[i]
        /\ \A i \in Nat : i >= 1 /\ i <= Len(q) =>
                            (p \o q)[Len(p) + i] = q[i]
    BY <1>1, <1>2, Concat
  <2> QED
    BY <1>1, <1>2, <2>1
<1> HIDE DEF s
<1>4. \A i \in 1 .. 8 : s[0 + i] = p[i] /\ s[8 + i] = q[i]
  <2> HIDE DEF p, q
  <2> QED BY <1>3
<1>5. StandsAt(m, s, 0) /\ StandsAt(n, s, 8)
  BY <1>4 DEF StandsAt
<1> QED
  BY <1>3, <1>5 DEF s

(***************************************************************************)
(* What GoodbyePacket::toByteArray writes, fromByteArray reads back, with  *)
(* the time it was sent cut to seconds.                                    *)
(***************************************************************************)
THEOREM GoodbyeRoundTrip ==
  ASSUME NEW timeout, IsInt64(timeout),
         NEW sentTime, IsInt64(sentTime), 0 <= sentTime
  PROVE  LET bytes == GoodbyeToByteArray([ timeout |-> timeout,
                                           sentTime |-> sentTime ])
         IN /\ bytes \in Seq(Byte)
            /\ GoodbyeIsParsed(bytes)
            /\ GoodbyeFromByteArray(bytes) =
                 [ timeout |-> timeout,
                   sentTime |-> 1000 * (sentTime \div 1000) ]
<1> DEFINE seconds == sentTime \div 1000
           bytes == Int64Bytes(timeout) \o Int64Bytes(seconds)
<1>1. GoodbyeToByteArray([ timeout |-> timeout, sentTime |-> sentTime ]) = bytes
  BY DEF GoodbyeToByteArray
<1>2. IsInt64(seconds)
  BY DEF IsInt64
<1> HIDE DEF seconds
<1>3. timeout \in Int /\ seconds \in Int
  BY <1>2 DEF IsInt64
<1>4. /\ bytes \in Seq(Byte) /\ Len(bytes) = 16
      /\ StandsAt(timeout, bytes, 0) /\ StandsAt(seconds, bytes, 8)
  BY <1>3, TwoIntegers
<1> HIDE DEF bytes
<1>5. GoodbyeIsParsed(bytes)
  BY <1>4 DEF GoodbyeIsParsed, sizeofInt64
<1>6. Int64At(bytes, 0) = timeout
  BY <1>4, Int64RoundTrip
<1>7. Int64At(bytes, 8) = seconds
  BY <1>2, <1>4, Int64RoundTrip
<1>8. GoodbyeFromByteArray(bytes) =
        [ timeout |-> timeout, sentTime |-> 1000 * seconds ]
  BY <1>6, <1>7 DEF GoodbyeFromByteArray, sizeofInt64
<1> QED
  BY <1>1, <1>4, <1>5, <1>8 DEF seconds

(***************************************************************************)
(* The body sendHeartbeatAsync builds is a byte shorter than what          *)
(* HeartbeatPacket::byteArrayToObject accepts, whatever the times are.     *)
(***************************************************************************)
THEOREM HeartbeatIsNeverParsed ==
  ASSUME NEW timeSinceLast \in Int, NEW sentTimestamp \in Int
  PROVE  LET bytes == HeartbeatToByteArray([ timeSinceLast |-> timeSinceLast,
                                             sentTimestamp |-> sentTimestamp ])
         IN bytes \in Seq(Byte) /\ ~HeartbeatIsParsed(bytes)
<1> DEFINE bytes == Int64Bytes(timeSinceLast) \o Int64Bytes(sentTimestamp)
<1>1. HeartbeatToByteArray([ timeSinceLast |-> timeSinceLast,
                             sentTimestamp |-> sentTimestamp ]) = bytes
  BY DEF HeartbeatToByteArray
<1>2. bytes \in Seq(Byte) /\ Len(bytes) = 16
  BY TwoIntegers
<1> HIDE DEF bytes
<1>3. ~HeartbeatIsParsed(bytes)
  BY <1>2 DEF HeartbeatIsParsed, sizeofInt64
<1> QED
  BY <1>1, <1>2, <1>3
=============================================================================
