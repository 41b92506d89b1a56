---------------------------- MODULE MCAsyncRuns ----------------------------
(* AsyncRuns for TLC: runs r1 and r2 are interchangeable where both are     *)
(* cron executions or both are background continuations.                    *)
EXTENDS AsyncRuns, TLC

CONSTANTS r1, r2

RunSymmetry == Permutations({r1, r2})
=============================================================================
