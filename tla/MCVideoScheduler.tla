--------------------------- MODULE MCVideoScheduler ---------------------------
(* A slice fills two hardware buffers, or one or two.                      *)
EXTENDS VideoScheduler

Zero     == {0}
Two      == {2}
OneOrTwo == {1, 2}
=============================================================================
