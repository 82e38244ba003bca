--------------------------- MODULE InternalPackets ---------------------------
(***************************************************************************)
(* The bodies of the packets Parlo sends by itself: GoodbyePacket and      *)
(* HeartbeatPacket, each two 64-bit integers, least byte first.  A time is *)
(* counted in milliseconds since the epoch, and is not before it.          *)
(***************************************************************************)
EXTENDS Packet, Integers

(* ParloIDs *)
Heartbeat == 253
CGoodbye  == 255

(* ParloDefaultTimeouts::Client, in seconds *)
ClientTimeout == 5

sizeofInt64 == 8

(***************************************************************************)
(* The bytes of an int64_t in two's complement, in four 16-bit words: \div *)
(* rounds down and % is never negative.                                    *)
(***************************************************************************)
WordBytes(n)  == << LowByte(n), HighByte(n) >>
Shift16(n)    == n \div 65536
Int32Bytes(n) == WordBytes(n) \o WordBytes(Shift16(n))
Int64Bytes(n) == Int32Bytes(n) \o Int32Bytes(Shift16(Shift16(n)))

(* The int64_t that starts behind the first offset bytes. *)
WordAt(bytes, offset) == bytes[offset + 1] + 256 * bytes[offset + 2]

Signed(word) == IF word < 32768 THEN word ELSE word - 65536

Int64At(bytes, offset) ==
  WordAt(bytes, offset)
    + 65536 * (WordAt(bytes, offset + 2)
    + 65536 * (WordAt(bytes, offset + 4)
    + 65536 * Signed(WordAt(bytes, offset + 6))))

-----------------------------------------------------------------------------
(* GoodbyePacket: the time it was sent goes out in whole seconds.          *)

(* Mutant: the count of the clock is written as it is. *)
GoodbyeToByteArrayUncast(goodbye) ==
  Int64Bytes(goodbye.timeout) \o Int64Bytes(goodbye.sentTime)

GoodbyeToByteArray(goodbye) ==
  Int64Bytes(goodbye.timeout) \o Int64Bytes(goodbye.sentTime \div 1000)

(* Fewer bytes make fromByteArray throw. *)
GoodbyeIsParsed(bytes) == Len(bytes) >= 2 * sizeofInt64

GoodbyeFromByteArray(bytes) ==
  [ timeout  |-> Int64At(bytes, 0),
    sentTime |-> 1000 * Int64At(bytes, sizeofInt64) ]

-----------------------------------------------------------------------------
(* HeartbeatPacket: what is read starts behind an id byte.                 *)

HeartbeatToByteArray(heartbeat) ==
  Int64Bytes(heartbeat.timeSinceLast) \o Int64Bytes(heartbeat.sentTimestamp)

(* Fewer bytes make byteArrayToObject throw. *)
HeartbeatIsParsed(bytes) == Len(bytes) >= 2 * sizeofInt64 + 1

HeartbeatFromByteArray(bytes) ==
  [ timeSinceLast |-> Int64At(bytes, 1),
    sentTimestamp |-> Int64At(bytes, 1 + sizeofInt64) ]
=============================================================================
