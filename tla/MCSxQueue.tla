------------------------------ MODULE MCSxQueue ------------------------------
(* Three threads that push, pull and read the length of one queue, with    *)
(* three node addresses: lists of up to three nodes and reuse of addresses.*)
EXTENDS SxQueue
=============================================================================
