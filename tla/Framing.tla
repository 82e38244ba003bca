------------------------------- MODULE Framing -------------------------------
(***************************************************************************)
(* A ProcessingBuffer fed by a peer that sends whole packets, each built   *)
(* by Packet::buildPacket, over a stream that keeps neither their borders  *)
(* nor their timing: what the handler sees is what the peer built.         *)
(***************************************************************************)
EXTENDS ProcessingBuffer

CONSTANTS
  Packets,   \* the packets the peer sends
  Start      \* Start[k] is how many bytes the peer sends before packet k

(***************************************************************************)
(* Objects the TCP constructor of Packet can yield, whose size a uint16_t  *)
(* can hold.                                                               *)
(***************************************************************************)
ASSUME PacketsAssumption ==
  /\ Packets \in Seq(PacketObject)
  /\ \A k \in DOMAIN Packets :
       LET p == Packets[k]
       IN /\ Constructible(p.data)
          /\ STANDARD + Len(p.data) <= MaxUint16
          /\ p = TCPPacket(p.id, p.data, p.isCompressed = 1)

ASSUME StartAssumption ==
  /\ Start \in [ 1 .. Len(Packets) + 1 -> Nat ]
  /\ Start[1] = 0
  /\ \A k \in DOMAIN Packets :
       Start[k + 1] = Start[k] + STANDARD + Len(Packets[k].data)

(***************************************************************************)
(* The stream is the packets as built, one after the other.                *)
(***************************************************************************)
ASSUME StreamAssumption ==
  \A s \in Inputs :
    /\ Len(s) = Start[Len(Packets) + 1]
    /\ \A k \in DOMAIN Packets :
         \A j \in 1 .. STANDARD + Len(Packets[k].data) :
            s[Start[k] + j] = BuildPacket(Packets[k])[j]

(***************************************************************************)
(* One asio read never yields more than a streambuf read, 512 bytes, so no *)
(* chunk is dropped.                                                       *)
(***************************************************************************)
ASSUME ReadsFitAssumption == \A n \in ReadSizes : n <= MAX_PACKET_SIZE

-----------------------------------------------------------------------------
(***************************************************************************)
(* The handler is called with the peer's packets, in order, none skipped,  *)
(* repeated or altered, and none before all of its bytes were accepted.    *)
(***************************************************************************)
InOrder ==
  /\ Len(delivered) <= Len(Packets)
  /\ \A i \in 1 .. Len(delivered) : delivered[i] = Packets[i]
  /\ Start[Len(delivered) + 1] <= Len(accepted)

(***************************************************************************)
(* The buffer implements the abstract channel.                             *)
(***************************************************************************)
Channel == INSTANCE PacketChannel
  WITH arrived <- Len(accepted),
       closing <- stopProcessing,
       handedOverLate <-
         IF stopProcessing THEN Len(delivered) - deliveredAtStop ELSE 0

ImplementsChannel == Channel!Spec

(***************************************************************************)
(* A packet whose bytes were all accepted reaches the handler, with no     *)
(* further byte to wake the worker, unless the owner destroys the buffer.  *)
(***************************************************************************)
EveryPacketDelivered ==
  \A k \in DOMAIN Packets :
    handlerSet /\ Len(accepted) >= Start[k + 1]
      ~> Len(delivered) >= k \/ stopProcessing
=============================================================================
