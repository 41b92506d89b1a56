--------------------------- MODULE CronScheduler ---------------------------
(***************************************************************************)
(* The cron scheduler of the bot (bot/cron.rs): the reconciler that polls  *)
(* the job specifications every five seconds, the loops that fire          *)
(* scheduled jobs, the executions with their lock files and the deletion   *)
(* of one-shot specifications, next to the users of cron_specs in the      *)
(* Aggregator and the upgrade task that excludes executions.               *)
(*                                                                         *)
(* A specification is known by its version: every creation and every       *)
(* change of its configuration gives it a new one.  A lock file is the     *)
(* time left until its heartbeat is older than lock_ttl; 0 stands for a    *)
(* missing or a stale file.  What a run records is the subject of          *)
(* AsyncRuns.                                                              *)
(***************************************************************************)
EXTENDS Integers, FiniteSets

CONSTANTS
    TickJobs,       \* Immediate jobs, and RunAt jobs that are due
    OneShotJobs,    \* OneShotCron jobs
    RecurringJobs,
    Execs,          \* bound: executions alive at the same time
    LockTtl,        \* lock_ttl, in ticks
    MaxEdits,       \* bound: creations and changes of specifications
    MaxTriggers,    \* bound: cron_trigger calls
    MaxFaults,      \* bound: failed owner calls
    MaxStops        \* bound: crashes and shutdowns

ASSUME CronSchedulerAssumption ==
    /\ TickJobs \cap OneShotJobs = {} /\ RecurringJobs \cap (TickJobs \cup OneShotJobs) = {}
    /\ LockTtl \in Nat \ {0} /\ MaxEdits \in Nat /\ MaxTriggers \in Nat
    /\ MaxFaults \in Nat /\ MaxStops \in Nat

Jobs == TickJobs \cup OneShotJobs \cup RecurringJobs

VARIABLES
    spec,       \* cron_specs: the version of a job, 0 when absent
    trig,       \* triggered_at and trigger_force_notify of a job
    lock,       \* the lock file of a job
    handles,    \* the run_job_loop of a job and the specification it holds
    ex,         \* the executions
    upgrade,    \* the upgrade task holds the write lock
    rec,        \* where the reconciler stands
    snap,       \* the specifications it loaded
    todo,       \* jobs left in its current pass
    picked,     \* the triggered job it has just cleared
    phase,      \* up, draining, waiting, down
    edits, triggers, faults, stops,
    gap,        \* jobs with two executions past the lock check at once
    orphaned,   \* jobs of executions that died holding their lock
    accounted   \* versions of TickJobs that ran, or that a user or a fault took

db == <<spec, trig>>
reconciler == <<rec, snap, todo, picked>>
bounds == <<edits, triggers, faults, stops>>
ghosts == <<gap, orphaned, accounted>>
vars == <<db, lock, handles, ex, upgrade, reconciler, phase, bounds, ghosts>>

Triggers == {"no", "plain", "forced"}
Free == [pc |-> "free", job |-> "none", ver |-> 0, origin |-> "none", forced |-> FALSE]
NoLoop == [state |-> "none", ver |-> 0, forced |-> FALSE]

\* an owner call: ok; lost: applied but the caller sees an error; down: not applied
IpcOutcomes == {"ok", "lost", "down"}
Ipc(o) ==
    /\ o # "ok" => faults < MaxFaults
    /\ faults' = IF o = "ok" THEN faults ELSE faults + 1
    /\ UNCHANGED <<edits, triggers, stops>>

Of(e, pcs) == ex[e].pc \in pcs
Running == {"insert", "run"}
Reading == {"insert", "run", "settle"}

\* executions that hold the upgrade lock for reading
Readers == {e \in Execs : Of(e, Reading)}

Peers(e) == {f \in Execs \ {e} : ex[f].job = ex[e].job}

\* is_lock_fresh
IsLockFresh(j) == lock[j] > 0

\* version v of j ran to the end of its session, or a named event took it
Account(j, v) ==
    accounted' = IF j \in TickJobs /\ v # 0 THEN accounted \cup {v} ELSE accounted

-----------------------------------------------------------------------------
(* Users: cron_create and cron_update, cron_delete, the dashboard's delete  *)
(* and cron_trigger, all handled by the Aggregator.                         *)

bot == <<handles, ex, upgrade, reconciler, phase>>

EditSpec(j) ==
    /\ edits < MaxEdits /\ edits' = edits + 1
    /\ spec' = [spec EXCEPT ![j] = edits + 1] /\ Account(j, spec[j])
    /\ UNCHANGED <<trig, lock, bot, triggers, faults, stops, gap, orphaned>>

\* cron_delete also removes the lock file, the dashboard's delete does not
DeleteSpec(j, withLock) ==
    /\ spec[j] # 0
    /\ spec' = [spec EXCEPT ![j] = 0] /\ trig' = [trig EXCEPT ![j] = "no"]
    /\ lock' = IF withLock THEN [lock EXCEPT ![j] = 0] ELSE lock
    /\ gap' = IF withLock /\ \E e \in Execs : ex[e].job = j /\ Of(e, Running)
              THEN gap \cup {j} ELSE gap
    /\ Account(j, spec[j])
    /\ UNCHANGED <<bot, bounds, orphaned>>

TriggerSpec(j, forced) ==
    /\ spec[j] # 0 /\ triggers < MaxTriggers /\ triggers' = triggers + 1
    /\ trig' = [trig EXCEPT ![j] = IF forced THEN "forced" ELSE "plain"]
    /\ UNCHANGED <<spec, lock, bot, edits, faults, stops, ghosts>>

-----------------------------------------------------------------------------
(* The reconciler (reconcile_jobs) and the job loops (run_job_loop).        *)

Spawn(j, ver, origin, forced) ==
    \E e \in Execs :
        /\ ex[e].pc = "free"
        /\ ex' = [ex EXCEPT ![e] = [pc |-> "start", job |-> j, ver |-> ver,
                                    origin |-> origin, forced |-> forced]]

LoadSpecs(o) ==
    /\ rec = "idle" /\ phase = "up" /\ Ipc(o)
    /\ IF o = "ok"
         THEN /\ snap' = [j \in Jobs |-> [ver |-> spec[j], trig |-> trig[j]]]
              /\ rec' = "fire" /\ todo' = {j \in TickJobs : spec[j] # 0}
              /\ UNCHANGED picked
         ELSE UNCHANGED reconciler
    /\ UNCHANGED <<db, lock, handles, ex, upgrade, phase, ghosts>>

\* mutant: due one-shots are fired without a look at the lock file
FireOneShotBlind(j) ==
    /\ rec = "fire" /\ j \in todo /\ todo' = todo \ {j}
    /\ Spawn(j, snap[j].ver, "schedule", snap[j].trig = "forced")
    /\ UNCHANGED <<db, lock, handles, upgrade, rec, snap, picked, phase, bounds, ghosts>>

\* fire_one_shot_specs
FireOneShot(j) ==
    /\ rec = "fire" /\ j \in todo /\ todo' = todo \ {j}
    /\ IF IsLockFresh(j) THEN UNCHANGED ex
       ELSE Spawn(j, snap[j].ver, "schedule", snap[j].trig = "forced")
    /\ UNCHANGED <<db, lock, handles, upgrade, rec, snap, picked, phase, bounds, ghosts>>

(* Loops of changed or removed jobs are aborted, missing ones are started;  *)
(* the loop keeps the whole loaded specification, trigger fields included.  *)
UpdateHandles ==
    /\ rec = "fire" /\ todo = {}
    /\ handles' = [j \in Jobs |->
          IF j \in TickJobs \/ snap[j].ver = 0 THEN NoLoop
          ELSE IF handles[j].state # "none" /\ handles[j].ver = snap[j].ver THEN handles[j]
          ELSE [state |-> "armed", ver |-> snap[j].ver, forced |-> snap[j].trig = "forced"]]
    /\ rec' = "trigger"
    /\ todo' = {j \in Jobs : snap[j].ver # 0 /\ snap[j].trig # "no"}
    /\ UNCHANGED <<db, lock, ex, upgrade, snap, picked, phase, bounds, ghosts>>

\* cleared first, so that the next tick does not fire it again
ClearTriggered(j, o) ==
    /\ rec = "trigger" /\ j \in todo /\ todo' = todo \ {j} /\ Ipc(o)
    /\ trig' = IF o = "down" THEN trig ELSE [trig EXCEPT ![j] = "no"]
    /\ IF o = "ok" THEN rec' = "cleared" /\ picked' = j ELSE UNCHANGED <<rec, picked>>
    /\ UNCHANGED <<spec, lock, handles, ex, upgrade, snap, phase, ghosts>>

\* while the job is locked the trigger is dropped
FireTriggered ==
    /\ rec = "cleared" /\ rec' = "trigger" /\ picked' = "none"
    /\ IF IsLockFresh(picked) THEN UNCHANGED ex
       ELSE Spawn(picked, snap[picked].ver, "trigger", snap[picked].trig = "forced")
    /\ UNCHANGED <<db, lock, handles, upgrade, snap, todo, phase, bounds, ghosts>>

Reconciled ==
    /\ rec = "trigger" /\ todo = {} /\ rec' = "idle"
    /\ snap' = [j \in Jobs |-> [ver |-> 0, trig |-> "no"]]
    /\ UNCHANGED <<db, lock, handles, ex, upgrade, todo, picked, phase, bounds, ghosts>>

(* The schedule of a loop matches.  The loop of a one-shot job ends but its *)
(* handle stays, so that it is not started again.                           *)
LoopFires(j) ==
    /\ handles[j].state = "armed"
    /\ Spawn(j, handles[j].ver, "schedule", handles[j].forced)
    /\ handles' = IF j \in OneShotJobs
                  THEN [handles EXCEPT ![j].state = "ended"] ELSE handles
    /\ UNCHANGED <<db, lock, upgrade, reconciler, phase, bounds, ghosts>>

-----------------------------------------------------------------------------
(* Executions (execute_job).                                                *)

others == <<handles, upgrade, reconciler, phase>>

At(e, pc) == ex' = [ex EXCEPT ![e].pc = pc]

\* OneShotSpecDeleter: scheduled executions of one-shot jobs carry one
Deletes(e) == ex[e].origin = "schedule" /\ ex[e].job \notin RecurringJobs

Left(e) == IF Deletes(e) THEN [ex[e] EXCEPT !.pc = "delete"] ELSE Free

Leave(e) == ex' = [ex EXCEPT ![e] = Left(e)]

\* something other than the end of its session ends the execution
TakenByFault(e) == Leave(e) /\ Account(ex[e].job, ex[e].ver)

\* the fresh lock is that of another version's run or of one just aborted
LockOfAnother(e) ==
    phase = "waiting" \/ \E f \in Peers(e) : Of(f, Running) /\ ex[f].ver # ex[e].ver

\* mutant: executions rely on the caller's lock check
Unchecked(e) ==
    /\ Of(e, {"start"}) /\ At(e, "wait")
    /\ UNCHANGED <<db, lock, others, bounds, ghosts>>

LockCheck(e) ==
    /\ Of(e, {"start"})
    /\ IF IsLockFresh(ex[e].job)
         THEN /\ UNCHANGED gap
              /\ IF LockOfAnother(e) THEN TakenByFault(e) ELSE Leave(e) /\ UNCHANGED accounted
         ELSE /\ At(e, "wait") /\ UNCHANGED accounted
              /\ gap' = IF \E f \in Peers(e) : Of(f, {"wait"})
                        THEN gap \cup {ex[e].job} ELSE gap
    /\ UNCHANGED <<db, lock, others, bounds, orphaned>>

\* waits for the upgrade lock, then writes the lock file
Enter(e) ==
    /\ Of(e, {"wait"}) /\ ~upgrade
    /\ At(e, "insert")
    /\ lock' = [lock EXCEPT ![ex[e].job] = LockTtl]
    /\ UNCHANGED <<db, others, bounds, ghosts>>

\* the lock file could not be written
EnterFails(e) ==
    /\ Of(e, {"wait"}) /\ ~upgrade /\ faults < MaxFaults /\ faults' = faults + 1
    /\ TakenByFault(e)
    /\ UNCHANGED <<db, lock, others, edits, triggers, stops, gap, orphaned>>

Unlock(e) == lock' = [lock EXCEPT ![ex[e].job] = 0]

\* mutant: a refused insert returns without removing the lock file
InsertKeepsLock(e, o) ==
    /\ Of(e, {"insert"}) /\ Ipc(o)
    /\ IF o = "ok" THEN At(e, "run") /\ UNCHANGED accounted ELSE TakenByFault(e)
    /\ UNCHANGED <<db, lock, others, gap, orphaned>>

InsertRun(e, o) ==
    /\ Of(e, {"insert"}) /\ Ipc(o)
    /\ IF o = "ok" THEN At(e, "run") /\ UNCHANGED <<lock, accounted>>
       ELSE TakenByFault(e) /\ Unlock(e)
    /\ UNCHANGED <<db, others, gap, orphaned>>

\* mutant: an early return forgets the lock file
RunAbortsKeepsLock(e) ==
    /\ Of(e, {"run"}) /\ TakenByFault(e)
    /\ UNCHANGED <<db, lock, others, bounds, gap, orphaned>>

\* registration, system notice, sandbox or spawn failed
RunAborts(e) ==
    /\ Of(e, {"run"}) /\ TakenByFault(e) /\ Unlock(e)
    /\ UNCHANGED <<db, others, bounds, gap, orphaned>>

(* The session ended or CRON_RUN_TIMEOUT passed.  The lock file is removed  *)
(* before output, reflection and continuation are dealt with.               *)
RunEnds(e) ==
    /\ Of(e, {"run"}) /\ At(e, "settle") /\ Unlock(e) /\ Account(ex[e].job, ex[e].ver)
    /\ UNCHANGED <<db, others, bounds, gap, orphaned>>

Settle(e) ==
    /\ Of(e, {"settle"}) /\ Leave(e)
    /\ UNCHANGED <<db, lock, others, bounds, ghosts>>

\* delete_one_shot_spec, by name: a version made during the run goes with it
DeleteOneShot(e, o) ==
    /\ Of(e, {"delete"}) /\ Ipc(o)
    /\ ex' = [ex EXCEPT ![e] = Free]
    /\ IF o = "down" THEN UNCHANGED <<db, accounted>>
       ELSE /\ spec' = [spec EXCEPT ![ex[e].job] = 0]
            /\ trig' = [trig EXCEPT ![ex[e].job] = "no"]
            /\ IF spec[ex[e].job] = ex[e].ver THEN UNCHANGED accounted
               ELSE Account(ex[e].job, spec[ex[e].job])
    /\ UNCHANGED <<lock, others, gap, orphaned>>

Execute(e) ==
    \/ LockCheck(e) \/ Enter(e) \/ EnterFails(e)
    \/ RunAborts(e) \/ RunEnds(e) \/ Settle(e)
    \/ \E o \in IpcOutcomes : InsertRun(e, o) \/ DeleteOneShot(e, o)

-----------------------------------------------------------------------------
(* The upgrade task (bot/upgrade.rs), time, shutdown, crash and restart.    *)

\* mutant: the upgrade does not look for running executions
UpgradeAnyway ==
    /\ phase = "up" /\ ~upgrade /\ upgrade' = TRUE
    /\ UNCHANGED <<db, lock, handles, ex, reconciler, phase, bounds, ghosts>>

\* try_write: the tick is skipped while an execution reads
StartUpgrade ==
    /\ phase = "up" /\ ~upgrade /\ Readers = {} /\ upgrade' = TRUE
    /\ UNCHANGED <<db, lock, handles, ex, reconciler, phase, bounds, ghosts>>

EndUpgrade ==
    /\ upgrade /\ upgrade' = FALSE
    /\ UNCHANGED <<db, lock, handles, ex, reconciler, phase, bounds, ghosts>>

Tick ==
    /\ \E j \in Jobs : lock[j] > 0
    /\ lock' = [j \in Jobs |-> IF lock[j] > 0 THEN lock[j] - 1 ELSE 0]
    /\ gap' = gap \cup {ex[e].job : e \in {f \in Execs : Of(f, Running) /\ lock[ex[f].job] = 1}}
    /\ UNCHANGED <<db, handles, ex, upgrade, reconciler, phase, bounds, orphaned, accounted>>

BeginShutdown ==
    /\ phase = "up" /\ phase' = "draining" /\ stops < MaxStops /\ stops' = stops + 1
    /\ UNCHANGED <<db, lock, handles, ex, upgrade, reconciler, edits, triggers, faults, ghosts>>

\* between two reconciliations: every loop is aborted
StopSchedulers ==
    /\ phase = "draining" /\ rec = "idle" /\ phase' = "waiting"
    /\ handles' = [j \in Jobs |-> NoLoop]
    /\ UNCHANGED <<db, lock, ex, upgrade, reconciler, bounds, ghosts>>

Orphans(S) == orphaned \cup {ex[e].job : e \in {f \in S : Of(f, Running)}}

\* SHUTDOWN_JOB_TIMEOUT passed: the lock file stays, the deleter runs
AbortExec(e) ==
    /\ phase = "waiting" /\ ~Of(e, {"free", "delete"})
    /\ TakenByFault(e) /\ orphaned' = Orphans({e})
    /\ UNCHANGED <<db, lock, others, bounds, gap>>

\* runs cut short although their specification is already deleted
CutRuns == {ex[e].ver : e \in {f \in Execs : ex[f].job \in TickJobs /\ spec[ex[f].job] # ex[f].ver}}

Halt ==
    /\ phase' = "down" /\ rec' = "idle" /\ todo' = {} /\ picked' = "none"
    /\ snap' = [j \in Jobs |-> [ver |-> 0, trig |-> "no"]]
    /\ handles' = [j \in Jobs |-> NoLoop] /\ upgrade' = FALSE
    /\ ex' = [e \in Execs |-> Free] /\ orphaned' = Orphans(Execs)
    /\ accounted' = accounted \cup CutRuns
    /\ UNCHANGED <<db, lock, edits, triggers, faults, gap>>

\* cron has stopped; deletions still under way may be cut by the exit
Exit ==
    /\ phase = "waiting" /\ \A e \in Execs : Of(e, {"free", "delete"})
    /\ Halt /\ UNCHANGED stops

Crash == phase # "down" /\ stops < MaxStops /\ Halt /\ stops' = stops + 1

Restart ==
    /\ phase = "down" /\ phase' = "up"
    /\ UNCHANGED <<db, lock, handles, ex, upgrade, reconciler, bounds, ghosts>>

-----------------------------------------------------------------------------
Init ==
    /\ spec = [j \in Jobs |-> 0] /\ trig = [j \in Jobs |-> "no"]
    /\ lock = [j \in Jobs |-> 0] /\ handles = [j \in Jobs |-> NoLoop]
    /\ ex = [e \in Execs |-> Free] /\ upgrade = FALSE
    /\ rec = "idle" /\ snap = [j \in Jobs |-> [ver |-> 0, trig |-> "no"]]
    /\ todo = {} /\ picked = "none" /\ phase = "up"
    /\ edits = 0 /\ triggers = 0 /\ faults = 0 /\ stops = 0
    /\ gap = {} /\ orphaned = {} /\ accounted = {}

Reconcile ==
    \/ \E o \in IpcOutcomes : LoadSpecs(o) \/ \E j \in Jobs : ClearTriggered(j, o)
    \/ \E j \in Jobs : FireOneShot(j)
    \/ UpdateHandles \/ FireTriggered \/ Reconciled

User ==
    \E j \in Jobs :
        \/ EditSpec(j)
        \/ \E b \in BOOLEAN : DeleteSpec(j, b) \/ TriggerSpec(j, b)

Next ==
    \/ User \/ Reconcile \/ \E j \in Jobs : LoopFires(j)
    \/ \E e \in Execs : Execute(e) \/ AbortExec(e)
    \/ StartUpgrade \/ EndUpgrade \/ Tick
    \/ BeginShutdown \/ StopSchedulers \/ Exit \/ Crash \/ Restart

Spec == Init /\ [][Next]_vars

(* The reconciler ticks, runs end (CRON_RUN_TIMEOUT), upgrades end, time    *)
(* passes and process-compose restarts the bot.  A reader waiting for the   *)
(* tokio RwLock is granted it when the upgrade ends: SF.                    *)
Fairness ==
    /\ WF_vars(Reconcile) /\ WF_vars(EndUpgrade) /\ WF_vars(Tick)
    /\ \A e \in Execs : WF_vars(Execute(e)) /\ SF_vars(Enter(e)) /\ WF_vars(AbortExec(e))
    /\ WF_vars(StopSchedulers) /\ WF_vars(Exit) /\ WF_vars(Restart)

FairSpec == Spec /\ Fairness

-----------------------------------------------------------------------------
Versions == 0..MaxEdits

ExecType ==
    [pc : {"start", "wait", "insert", "run", "settle", "delete"}, job : Jobs,
     ver : 1..MaxEdits, origin : {"schedule", "trigger"}, forced : BOOLEAN] \cup {Free}

(* Every variable keeps its type; an execution that is not free belongs to  *)
(* a version of a job and a lock never outlives its TTL.                    *)
TypeOK ==
    /\ spec \in [Jobs -> Versions] /\ trig \in [Jobs -> Triggers]
    /\ lock \in [Jobs -> 0..LockTtl]
    /\ handles \in [Jobs -> [state : {"none", "armed", "ended"}, ver : Versions, forced : BOOLEAN]]
    /\ ex \in [Execs -> ExecType]
    /\ upgrade \in BOOLEAN
    /\ rec \in {"idle", "fire", "trigger", "cleared"}
    /\ snap \in [Jobs -> [ver : Versions, trig : Triggers]]
    /\ todo \subseteq Jobs /\ picked \in Jobs \cup {"none"}
    /\ phase \in {"up", "draining", "waiting", "down"}
    /\ edits \in 0..MaxEdits /\ triggers \in 0..MaxTriggers
    /\ faults \in 0..MaxFaults /\ stops \in 0..MaxStops
    /\ gap \subseteq Jobs /\ orphaned \subseteq Jobs /\ accounted \subseteq Versions

(* The sandbox is never upgraded under a running cron job: execute_job      *)
(* holds the upgrade lock for reading until it returns.                     *)
UpgradeExclusive == upgrade => Readers = {}

(* Two executions of a job run at the same time only if both passed the     *)
(* lock check before either wrote the lock file, or the lock was lost to    *)
(* its TTL or to cron_delete.                                               *)
OverlapNeedsGap ==
    \A e, f \in Execs :
        e # f /\ Of(e, Running) /\ Of(f, Running) /\ ex[e].job = ex[f].job
            => ex[e].job \in gap

(* A fresh lock file belongs to a running execution, unless one died with   *)
(* it: every other way out of execute_job removes it.                       *)
LockHasRunner ==
    \A j \in Jobs : IsLockFresh(j) =>
        j \in orphaned \/ \E e \in Execs : ex[e].job = j /\ Of(e, Running)

(* A one-shot job that is due is fired once and then deleted: its version   *)
(* leaves cron_specs, and not without the end of a session of its own,      *)
(* unless a user replaced or deleted it, its run was cut by a failed step   *)
(* (lock file, insert, prelude, spawn), an abort or a crash, or another     *)
(* version of the job was running: that one's lock turns it away, and that  *)
(* one's deleter, which goes by name, takes it along.  An earlier run that  *)
(* died and left its lock file only delays it.                              *)
OneShotSettles ==
    \A j \in TickJobs, v \in 1..MaxEdits :
        spec[j] = v ~> spec[j] # v /\ v \in accounted
=============================================================================
