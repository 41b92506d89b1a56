--------------------------- MODULE MCRetainQueue ---------------------------
(* Model-checking instance of RetainQueue.                                  *)
EXTENDS RetainQueue

CONSTANTS t1, t2, t3
=============================================================================
