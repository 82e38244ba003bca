------------------------------ MODULE MCFraming ------------------------------
(***************************************************************************)
(* Framing with concrete packets.  Payload bytes repeat the ids and sizes  *)
(* of headers, so that a worker one byte off would read a plausible one.   *)
(* The second length, 4 + 261, needs both of its bytes.                    *)
(***************************************************************************)
EXTENDS Framing

ThreePackets == << TCPPacket(1, << 9 >>, FALSE),
                   TCPPacket(9, [ i \in 1 .. 261 |-> i % 256 ], TRUE),
                   TCPPacket(2, << 0, 7 >>, FALSE) >>

StreamOf(ps) == FlattenSeq([ k \in DOMAIN ps |-> BuildPacket(ps[k]) ])

ThreeInputs == { StreamOf(ThreePackets) }

ThreeStart ==
  [ k \in 1 .. 4 |-> Len(StreamOf(SubSeq(ThreePackets, 1, k - 1))) ]
=============================================================================
