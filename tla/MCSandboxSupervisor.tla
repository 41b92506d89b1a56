------------------------ MODULE MCSandboxSupervisor ------------------------
(* Model-checking instance of SandboxSupervisor.                             *)
EXTENDS SandboxSupervisor

CONSTANTS p1, c1, q1

\* A bot that starts without a sandbox has a credential to bring up with it; the
\* start without one differs only in requests that find no sandbox.
MCInit == Init /\ (health \/ \A p \in Providers : store[p] = 1)
MCSpec == MCInit /\ [][Next]_vars /\ Fairness
=============================================================================
