------------------------------ MODULE MCSending ------------------------------
(***************************************************************************)
(* Sending with packets just below, at and above the size limits, which    *)
(* are scaled down from 1024 to 21, a byte more than a heartbeat has.      *)
(***************************************************************************)
EXTENDS Sending

(* One byte, a packet of 21 bytes, one of 22, and one whose length wraps. *)
SomePayloads ==
  { [ k \in 1 .. n |-> 7 ] : n \in { 1, 17, 18, 65537 } }
=============================================================================
