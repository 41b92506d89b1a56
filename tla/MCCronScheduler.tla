-------------------------- MODULE MCCronScheduler --------------------------
(* CronScheduler for TLC: executions are interchangeable.                   *)
EXTENDS CronScheduler, TLC

CONSTANTS e1, e2

ExecSymmetry == Permutations({e1, e2})
=============================================================================
