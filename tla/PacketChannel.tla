---------------------------- MODULE PacketChannel ----------------------------
(***************************************************************************)
(* What a ProcessingBuffer promises the code above it, with no thread, no  *)
(* lock and no header left: bytes arrive, and the packets they complete    *)
(* are handed over one by one, each once and in the order they were sent,  *)
(* none before its last byte has come.  After the channel starts to close  *)
(* no byte arrives and at most one packet is still handed over.            *)
(***************************************************************************)
EXTENDS Naturals, Sequences

CONSTANTS Packets,   \* the packets sent, in order
          Start      \* Start[k] bytes are sent before packet k

VARIABLES arrived,   \* how many bytes have arrived
          delivered, \* the packets handed over
          closing,
          handedOverLate   \* how many since closing

vars == << arrived, delivered, closing, handedOverLate >>

Init == /\ arrived = 0
        /\ delivered = << >>
        /\ closing = FALSE
        /\ handedOverLate = 0

Arrive == /\ ~closing
          /\ arrived' \in arrived + 1 .. Start[Len(Packets) + 1]
          /\ UNCHANGED << delivered, closing, handedOverLate >>

Deliver == LET k == Len(delivered) + 1
           IN /\ k <= Len(Packets)
              /\ Start[k + 1] <= arrived
              /\ handedOverLate = 0
              /\ delivered' = Append(delivered, Packets[k])
              /\ handedOverLate' = IF closing THEN 1 ELSE 0
              /\ UNCHANGED << arrived, closing >>

Close == /\ ~closing
         /\ closing' = TRUE
         /\ UNCHANGED << arrived, delivered, handedOverLate >>

Next == Arrive \/ Deliver \/ Close

Spec == Init /\ [][Next]_vars
=============================================================================
