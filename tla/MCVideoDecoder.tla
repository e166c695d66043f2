---------------------------- MODULE MCVideoDecoder ----------------------------
(* Four slices of up to three packets of two cells each.  The cells that   *)
(* can be missing in a row stay below 16, so no loss hides behind the      *)
(* counter.                                                                *)
EXTENDS VideoDecoder

Cells == {2}
=============================================================================
