---------------------------- MODULE MCAudioDecoder ----------------------------
(* Units of three bytes in packets of one or two; sequence numbers wrap    *)
(* within a unit or between two.  Starts have no adaptation field, or some *)
(* have one, in which a right length, zero, or another one is found.       *)
EXTENDS AudioDecoder

Pieces   == {1, 2}
Nothing  == {0}
Nowhere  == {}
Fields   == {0, 1}
Lengths  == {UnitBytes, U32Mod - 1, UnitBytes + 1}
=============================================================================
