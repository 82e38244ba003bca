------------------------- MODULE MCProcessingBuffer -------------------------
(***************************************************************************)
(* ProcessingBuffer with streams no well-behaved peer sends, and with the  *)
(* bytes of a unit test.                                                   *)
(***************************************************************************)
EXTENDS ProcessingBuffer

Frame(id, length, data) ==
  << id, 1, LowByte(length), HighByte(length) >> \o data

(* A good frame, one whose length field is wrong or says 4, a good one. *)
MalformedInputs ==
  { Frame(7, 5, << 4 >>) \o Frame(1, length, << 6, 0, 6 >>) \o
      Frame(2, 5, << 5 >>) : length \in (0 .. 8) \cup { 260, 65535 } }

(* TestAddingTooMuchData: MAX_PACKET_SIZE + 1 zeroes. *)
TooMuchDataInputs == { [ i \in 1 .. 9 |-> 0 ] }
=============================================================================
