------------------------------ MODULE MCSession ------------------------------
(* Two sources, two discovery requests and two leases: two sessions in a   *)
(* row, of the same or of different sources, or one session and a renewal  *)
(* by its source that races with the start of the next.  A scan may fail   *)
(* at any time.  Two keepalives show a count that is not kept.             *)
EXTENDS Session
=============================================================================
