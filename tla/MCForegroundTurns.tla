------------------------- MODULE MCForegroundTurns -------------------------
(* Two workers and their handlers for one chat.                            *)
EXTENDS ForegroundTurns

MCWorkers == {"w1", "w2"}
MCHandlers == {"h1"}
=============================================================================
