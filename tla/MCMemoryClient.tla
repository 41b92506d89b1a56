--------------------------- MODULE MCMemoryClient ---------------------------
(* Model-checking instance of MemoryClient.                                  *)
EXTENDS MemoryClient

CONSTANTS u1
=============================================================================
