------------------------------- MODULE Packet -------------------------------
(***************************************************************************)
(* The wire format of Parlo: what Packet::buildPacket writes and what      *)
(* ProcessingBuffer::readHeader reads back.  A TCP packet is               *)
(*                                                                         *)
(*     id | isCompressed | length, low byte | length, high byte | data     *)
(*                                                                         *)
(* where length counts the header too and is stored in a uint16_t.         *)
(***************************************************************************)
EXTENDS Naturals, Sequences

STANDARD == 4                  \* size of a TCP packet header
UDP      == 5                  \* size of a UDP packet header

Byte       == 0 .. 255
MaxUint16  == 65535
Word       == 0 .. MaxUint16       \* uint16_t
Uint16(n)  == n % 65536        \* static_cast<uint16_t>
LowByte(n)  == n % 256
HighByte(n) == (n \div 256) % 256

(* A TCP packet as an object. *)
PacketObject == [ id : Byte, isCompressed : {0, 1}, length : Word,
                  data : Seq(Byte) ]

(***************************************************************************)
(* The constructors throw std::invalid_argument for empty data.            *)
(***************************************************************************)
Constructible(data) == data # <<>>

(***************************************************************************)
(* Packet(id, serializedData, isPacketCompressed)                          *)
(***************************************************************************)
TCPPacket(id, data, compressed) ==
  [ id           |-> id,
    isCompressed |-> IF compressed THEN 1 ELSE 0,
    length       |-> Uint16(STANDARD + Len(data)),
    data         |-> data ]

(***************************************************************************)
(* Packet(id, serializedData, isPacketCompressed, isPacketReliable)        *)
(***************************************************************************)
UDPPacket(id, data, compressed, reliable) ==
  [ id           |-> id,
    isCompressed |-> IF compressed THEN 1 ELSE 0,
    isReliable   |-> IF reliable THEN 1 ELSE 0,
    length       |-> Uint16(UDP + Len(data)),
    data         |-> data ]

(***************************************************************************)
(* buildPacket: only a UDP packet carries the isReliable byte.             *)
(***************************************************************************)
BuildPacket(p) ==
  << p.id, p.isCompressed >>
    \o (IF "isReliable" \in DOMAIN p THEN << p.isReliable >> ELSE << >>)
    \o << LowByte(p.length), HighByte(p.length) >>
    \o p.data

(* Mutant: the high byte is lost. *)
JoinLengthLowOnly(lengthLow, lengthHigh) == lengthLow

(* Mutant: the high byte is shifted too far, and nothing cuts it off. *)
JoinLengthWide(lengthLow, lengthHigh) == lengthHigh * 65536 + lengthLow

(***************************************************************************)
(* readHeader: lengthHigh << 8 | lengthLow.  The two operands share no     *)
(* bit, so the disjunction is a sum.                                       *)
(***************************************************************************)
JoinLength(lengthLow, lengthHigh) == Uint16(lengthHigh * 256 + lengthLow)

(***************************************************************************)
(* The packets a byte stream holds, read frame by frame from its start up  *)
(* to the first frame that is incomplete or announces no payload: the      *)
(* reference that ProcessingBuffer's worker is compared with, and what a   *)
(* peer makes of the bytes it gets.  An offset counts the bytes before.    *)
(***************************************************************************)
LengthAt(s, offset) == s[offset + 3] + 256 * s[offset + 4]

FramesIn(s) ==
  LET frames[offset \in 0 .. Len(s)] ==
        IF \/ offset + STANDARD > Len(s)
           \/ LengthAt(s, offset) <= STANDARD
           \/ offset + LengthAt(s, offset) > Len(s)
        THEN << >>
        ELSE LET next == offset + LengthAt(s, offset)
             IN << TCPPacket(s[offset + 1],
                             SubSeq(s, offset + STANDARD + 1, next),
                             s[offset + 2] # 0) >> \o frames[next]
  IN frames[0]
=============================================================================
