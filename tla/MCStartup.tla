------------------------------ MODULE MCStartup ------------------------------
(* Every component of the program, two buffers for each port, the hundred  *)
(* event structures of ilclient.c, and one command the core may refuse.    *)
EXTENDS Startup
=============================================================================
