--------------------------- MODULE MCAudioScheduler ---------------------------
(* One unit is two milliseconds, the hardware is topped up below four, and *)
(* it has just the buffers BuffersAssumption asks for.                     *)
EXTENDS AudioScheduler
=============================================================================
