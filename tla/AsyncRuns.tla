----------------------------- MODULE AsyncRuns -----------------------------
(***************************************************************************)
(* The async_runs ledger and everything that writes it: cron executions,   *)
(* background continuations, the startup recovery, the shutdown sequence   *)
(* and the delivery loop that relays finished results to Telegram.         *)
(*                                                                         *)
(* The ledger lives in the Aggregator; each owner operation is atomic.     *)
(* The bot calls it over IPC without retries, so a call may fail with or   *)
(* without having been applied.  A run's text, log and target are left     *)
(* out; what is kept of its delivery_json is whether it is NULL, the run's *)
(* result or a failure notice.  finished_at is kept as the order of the    *)
(* runs that have one.                                                     *)
(***************************************************************************)
EXTENDS Integers

CONSTANTS
    CronRuns,       \* run ids of cron executions
    BgRuns,         \* run ids of background continuations
    Jobs,           \* cron job names
    MaxAttempts,    \* MAX_DELIVERY_ATTEMPTS
    MaxFaults,      \* bound: failed owner calls
    MaxStops,       \* bound: crashes and shutdowns
    NoRun

ASSUME AsyncRunsAssumption ==
    /\ CronRuns \cap BgRuns = {} /\ NoRun \notin CronRuns \cup BgRuns
    /\ MaxAttempts \in Nat \ {0} /\ MaxFaults \in Nat /\ MaxStops \in Nat

Runs == CronRuns \cup BgRuns

VARIABLES
    row,        \* the ledger
    finished,   \* <<q, r>>: both have a finished_at, that of q is not after that of r
    task,       \* what the bot task that owns a run does next
    forced,     \* runs whose trigger asked for force_notify
    phase,      \* the bot process: up, draining, closing, flush, down
    dl,         \* where the delivery loop (or the shutdown flush) stands
    cur,        \* the run it is delivering
    reply,      \* what the delivery session produced: text, both, files
    urgent,     \* its force_notify, the maximum over its job's pending runs
    body,       \* body text of this attempt reached Telegram
    side,       \* some message of this attempt reached Telegram
    outcome,    \* the delivery_status it is about to record
    mem,        \* delivered_in_memory
    att,        \* attempt_counts
    idle,       \* the chat has been idle for IDLE_THRESHOLD_SECS
    sent,       \* how often the body of a run reached Telegram (2: or more);
                \* not counted past 1 once the run is excused
    excused,    \* runs a fault may have made deliver twice
    unrecorded, \* runs with a delivery_status that could not be recorded
    faults, stops

ledger == <<row, finished>>
attempt == <<cur, reply, urgent, body, side, outcome>>
ghosts == <<sent, excused, unrecorded>>
vars == <<ledger, task, forced, phase, dl, attempt, mem, att, idle, ghosts,
          faults, stops>>

Absent == [status |-> "absent", handoff |-> "none", job |-> "none",
           required |-> FALSE, dstat |-> "none", json |-> "null",
           force |-> FALSE]

-----------------------------------------------------------------------------
(* Owner operations (right/db_owner_ops.rs run_ledger).                     *)

\* ok; lost: applied but the caller sees an error; down: not applied
IpcOutcomes == {"ok", "lost", "down"}
Ipc(o) ==
    /\ o # "ok" => faults < MaxFaults
    /\ faults' = IF o = "ok" THEN faults ELSE faults + 1

\* the runs that have a finished_at
HasFinished == {r \in Runs : <<r, r>> \in finished}

\* the runs of S get a finished_at, or a new one, in the order ord
FinishTogether(S, ord) ==
    (finished \cap ((Runs \ S) \X (Runs \ S))) \cup ((HasFinished \ S) \X S) \cup ord

FinishedNow(r) == FinishTogether({r}, {<<r, r>>})

\* mutant: output and status are written in two transactions, one is lost
StatusOnly(r, s, req, json) == [row[r] EXCEPT !.status = s]

\* persist_run_output and finish_run in one transaction
Persisted(r, s, req, json) ==
    [row[r] EXCEPT !.status = s, !.required = req, !.json = json,
                   !.dstat = IF req THEN "pending" ELSE "none"]

PersistRunOutput(o, r, s, req, json) ==
    /\ Ipc(o)
    /\ IF o = "down"
         THEN UNCHANGED <<ledger, excused>>
         ELSE /\ row' = [row EXCEPT ![r] = Persisted(r, s, req, json)]
              /\ finished' = FinishedNow(r)
              /\ excused' = IF row[r].json # "null" THEN excused \cup {r} ELSE excused

FinishRun(o, r, s) ==
    /\ Ipc(o)
    /\ IF o = "down"
         THEN UNCHANGED ledger
         ELSE /\ row' = [row EXCEPT ![r] = [@ EXCEPT !.status = s]]
              /\ finished' = FinishedNow(r)

MarkHandoffFailed(o, r) ==
    /\ Ipc(o)
    /\ IF o = "down"
         THEN UNCHANGED ledger
         ELSE /\ row' = [row EXCEPT ![r] = [Persisted(r, "failed", TRUE, "failure")
                                               EXCEPT !.handoff = "failed"]]
              /\ finished' = FinishedNow(r)

MarkBackgroundSpawned(o, r) ==
    /\ Ipc(o)
    /\ row' = IF o = "down" THEN row
              ELSE [row EXCEPT ![r] = [@ EXCEPT !.status = "running", !.handoff = "spawned",
                                                !.required = TRUE, !.dstat = "pending"]]
    /\ UNCHANGED finished

DeliveryMarkOutcome(o, r, s) ==
    /\ Ipc(o)
    /\ row' = IF o = "down" THEN row ELSE [row EXCEPT ![r] = [@ EXCEPT !.dstat = s]]
    /\ UNCHANGED finished

\* a targeted run whose result the delivery loop can still send
Eligible(r) ==
    /\ row[r].required /\ row[r].dstat = "pending"
    /\ row[r].status \in {"success", "failed"}
Fetchable(r) == Eligible(r) /\ row[r].json # "null"

Before(q, r) == q # r /\ <<q, r>> \in finished

Pending == {r \in Runs : Fetchable(r)}

\* the run DeliveryFetchPending returns: ORDER BY finished_at ASC LIMIT 1
OldestPending(r) == r \in Pending /\ \A q \in Pending \ {r} : Before(r, q)

\* mutant: ORDER BY finished_at ASC
DedupCandidateOldest(r, S) == r \in S /\ \A q \in S \ {r} : Before(r, q)

\* the run DeliveryDeduplicateJob keeps: ORDER BY finished_at DESC LIMIT 1
DedupCandidate(r, S) == r \in S /\ \A q \in S \ {r} : Before(q, r)

OfJob(j) == {r \in CronRuns : row[r].job = j}

-----------------------------------------------------------------------------
(* Cron executions (bot/cron.rs execute_job).  Scheduling, locks and the    *)
(* upgrade guard are the subject of CronScheduler.                          *)

loop == <<dl, attempt, mem, att, idle, sent>>

CronActive == {"running", "cleanup", "reflecting"}
BgActive == {"handoff", "report", "spawned", "refused"}

Becomes(r, t) == task' = [task EXCEPT ![r] = t]

(* The run row is inserted with force_notify false whatever the trigger     *)
(* asked for; a failed insert ends the execution.                           *)
StartCron(r, j, f, o) ==
    /\ phase = "up" /\ task[r] = "none"
    /\ Ipc(o)
    /\ row' = IF o = "down" THEN row
              ELSE [row EXCEPT ![r] = [@ EXCEPT !.status = "running", !.job = j]]
    /\ forced' = IF f THEN forced \cup {r} ELSE forced
    /\ Becomes(r, IF o = "ok" THEN "running" ELSE "gone")
    /\ UNCHANGED <<finished, phase, loop, excused, unrecorded, stops>>

CronStep(r, from, t) ==
    /\ task[r] = from /\ Becomes(r, t)
    /\ UNCHANGED <<forced, phase, loop, unrecorded, stops>>

\* registration, notice token, sandbox or spawn failed: no delivery
CronAborts(r, o) ==
    /\ CronStep(r, "running", "gone")
    /\ FinishRun(o, r, "failed") /\ UNCHANGED excused

CronSucceeds(r, notify, o) ==
    /\ CronStep(r, "running", IF o = "ok" THEN "gone" ELSE "cleanup")
    /\ PersistRunOutput(o, r, "success", notify \/ r \in forced, "result")

\* unparsable output is recorded but never delivered
CronUnparsable(r, o) ==
    /\ CronStep(r, "running", IF o = "ok" THEN "gone" ELSE "cleanup")
    /\ PersistRunOutput(o, r, "failed", FALSE, "null")

CronCleanup(r, o) ==
    /\ CronStep(r, "cleanup", "gone")
    /\ FinishRun(o, r, "failed") /\ UNCHANGED excused

\* commit the failure, reflect, then persist the failure notice
CronFails(r, o) ==
    /\ CronStep(r, "running", "reflecting")
    /\ FinishRun(o, r, "failed") /\ UNCHANGED excused

CronReports(r, o) ==
    /\ CronStep(r, "reflecting", "gone")
    /\ PersistRunOutput(o, r, "failed", TRUE, "failure")

-----------------------------------------------------------------------------
(* Background continuations (bot/background.rs), enqueued by a worker turn  *)
(* or by the `then' action of a finished cron run.                          *)

EnqueueBackground(r, o) ==
    /\ phase \in {"up", "draining"} /\ task[r] = "none"
    /\ Ipc(o)
    /\ row' = IF o = "down" THEN row
              ELSE [row EXCEPT ![r] = [@ EXCEPT !.status = "queued", !.handoff = "queued"]]
    /\ Becomes(r, IF o = "ok" THEN "handoff" ELSE "gone")
    /\ unrecorded' = IF o = "ok" THEN unrecorded ELSE unrecorded \cup {r}
    /\ UNCHANGED <<finished, forced, phase, loop, excused, stops>>

BgStep(r, from, t) ==
    /\ task[r] \in from /\ Becomes(r, t)
    /\ UNCHANGED <<forced, phase, loop, stops>>

\* no child, no init within the deadline, or the spawn could not be recorded
HandoffFails(r, o) ==
    /\ BgStep(r, {"handoff", "report"}, "gone")
    /\ MarkHandoffFailed(o, r)
    /\ unrecorded' = IF o = "ok" THEN unrecorded ELSE unrecorded \cup {r}
    /\ UNCHANGED excused

HandoffConfirmed(r, o) ==
    /\ BgStep(r, {"handoff"}, IF o = "ok" THEN "spawned" ELSE "report")
    /\ MarkBackgroundSpawned(o, r)
    /\ UNCHANGED <<excused, unrecorded>>

BgSucceeds(r, o) ==
    /\ BgStep(r, {"spawned"}, IF o = "ok" THEN "gone" ELSE "refused")
    /\ PersistRunOutput(o, r, "success", TRUE, "result")
    /\ UNCHANGED unrecorded

\* persist_completion_failed: also after a success that was not confirmed
BgFails(r, o) ==
    /\ BgStep(r, {"spawned", "refused"}, "gone")
    /\ PersistRunOutput(o, r, "failed", TRUE, "failure")
    /\ UNCHANGED unrecorded

Producer(r) ==
    \E o \in IpcOutcomes :
        \/ /\ r \in CronRuns
           /\ \/ \E j \in Jobs, f \in BOOLEAN : StartCron(r, j, f, o)
              \/ \E notify \in BOOLEAN : CronSucceeds(r, notify, o)
              \/ CronAborts(r, o) \/ CronUnparsable(r, o) \/ CronCleanup(r, o)
              \/ CronFails(r, o) \/ CronReports(r, o)
        \/ /\ r \in BgRuns
           /\ \/ EnqueueBackground(r, o)
              \/ HandoffFails(r, o) \/ HandoffConfirmed(r, o)
              \/ BgSucceeds(r, o) \/ BgFails(r, o)

-----------------------------------------------------------------------------
(* The delivery loop (bot/async_delivery.rs run_delivery_once), polled by    *)
(* run_delivery_loop and, on shutdown, by the flush.                         *)

producers == <<finished, task, forced, phase, stops>>

Cancelled == phase \in {"draining", "closing"}
Sending == {"text", "header", "files"}

NoAttempt ==
    /\ cur' = NoRun /\ reply' = "none" /\ urgent' = FALSE
    /\ body' = FALSE /\ side' = FALSE /\ outcome' = "none"

(* run_delivery_once returned: the poll loop sleeps whatever it returned,   *)
(* the flush goes on only after Ok(true).                                   *)
Back(progress) ==
    /\ dl' = IF phase # "flush" THEN "sleep" ELSE IF progress THEN "fetch" ELSE "ended"
    /\ NoAttempt

Poll ==
    /\ phase = "up" /\ dl = "sleep" /\ dl' = "fetch"
    /\ UNCHANGED <<producers, row, attempt, mem, att, idle, ghosts, faults>>

LoopEnds ==
    /\ Cancelled /\ dl = "sleep" /\ dl' = "ended"
    /\ UNCHANGED <<producers, row, attempt, mem, att, idle, ghosts, faults>>

FetchNone ==
    /\ dl = "fetch" /\ Pending = {} /\ Back(FALSE)
    /\ UNCHANGED <<producers, row, mem, att, idle, ghosts, faults>>

FetchFails ==
    /\ dl = "fetch" /\ Ipc("down") /\ Back(FALSE)
    /\ UNCHANGED <<producers, row, mem, att, idle, ghosts>>

\* a run remembered as settled is marked again instead of being delivered
FetchRemembered(o) ==
    /\ dl = "fetch"
    /\ \E r \in mem : OldestPending(r) /\ DeliveryMarkOutcome(o, r, "delivered")
    /\ IF o = "ok" THEN UNCHANGED <<dl, attempt>> ELSE Back(FALSE)
    /\ UNCHANGED <<task, forced, phase, stops, mem, att, idle, ghosts>>

FetchNext ==
    /\ dl = "fetch"
    /\ \E r \in Runs \ mem :
          /\ OldestPending(r) /\ cur' = r
          /\ dl' = IF r \in CronRuns THEN "dedup" ELSE "gate"
          /\ urgent' = row[r].force
    /\ UNCHANGED <<producers, row, reply, body, side, outcome, mem, att, idle,
                   ghosts, faults>>

\* mutant: whether a run was delivered already is not asked
SupersededAll(S) ==
    [r \in Runs |-> IF r \in S /\ row[r].required /\ row[r].status \in {"success", "failed"}
                     THEN [row[r] EXCEPT !.dstat = "superseded"] ELSE row[r]]

Superseded(S) ==
    [r \in Runs |-> IF r \in S /\ Eligible(r) THEN [row[r] EXCEPT !.dstat = "superseded"]
                                               ELSE row[r]]

(* The newest pending result of the job is kept; every other targeted run   *)
(* of the job that waits for delivery is superseded.                        *)
Dedup(o) ==
    LET job == OfJob(row[cur].job)
        grouped == {r \in job : Fetchable(r)}
    IN  /\ dl = "dedup" /\ Ipc(o)
        /\ IF grouped = {}
             THEN Back(FALSE) /\ UNCHANGED row
             ELSE \E kept \in grouped :
                    /\ DedupCandidate(kept, grouped)
                    /\ row' = IF o = "down" THEN row ELSE Superseded(job \ {kept})
                    /\ IF o # "ok"
                         THEN Back(FALSE)
                         ELSE /\ cur' = kept /\ dl' = "gate"
                              /\ urgent' = \E r \in grouped : row[r].force
                              /\ UNCHANGED <<reply, body, side, outcome>>
        /\ UNCHANGED <<producers, mem, att, idle, ghosts>>

\* should_hold_delivery
Held == ~urgent /\ phase # "flush" /\ ~idle

Hold ==
    /\ dl = "gate" /\ Held /\ Back(FALSE)
    /\ UNCHANGED <<producers, row, mem, att, idle, ghosts, faults>>

GateRemembered(o) ==
    /\ dl = "gate" /\ ~Held /\ cur \in mem
    /\ DeliveryMarkOutcome(o, cur, "delivered")
    /\ mem' = IF o = "ok" THEN mem \ {cur} ELSE mem
    /\ Back(TRUE)
    /\ UNCHANGED <<task, forced, phase, stops, att, idle, ghosts>>

Concludes(s) ==
    /\ dl' = "mark" /\ outcome' = s
    /\ UNCHANGED <<cur, reply, urgent, body, side>>

\* the target chat is no longer in the allowlist
GateDenied ==
    /\ dl = "gate" /\ ~Held /\ cur \notin mem /\ Concludes("denied")
    /\ UNCHANGED <<producers, row, mem, att, idle, ghosts, faults>>

GateLookupFails ==
    /\ dl = "gate" /\ ~Held /\ cur \notin mem
    /\ Ipc("down") /\ Back(FALSE)
    /\ UNCHANGED <<producers, row, mem, att, idle, ghosts>>

GateReady ==
    /\ dl = "gate" /\ ~Held /\ cur \notin mem /\ dl' = "session"
    /\ UNCHANGED <<producers, row, attempt, mem, att, idle, ghosts, faults>>

\* mutant: a result is retried for ever
RetryForever ==
    /\ att' = att /\ Back(TRUE)

(* The attempt failed: it is counted and, at the limit, the run is given    *)
(* up as failed.                                                            *)
Fail ==
    IF att[cur] + 1 >= MaxAttempts
      THEN att' = [att EXCEPT ![cur] = 0] /\ Concludes("failed")
      ELSE att' = [att EXCEPT ![cur] = @ + 1] /\ Back(TRUE)

SessionFails ==
    /\ dl = "session" /\ Fail
    /\ UNCHANGED <<producers, row, mem, idle, ghosts, faults>>

\* the delivery session answered with text, with files or with both
SessionReplies(shape) ==
    /\ dl = "session" /\ ~Cancelled
    /\ reply' = shape /\ dl' = IF shape = "files" THEN "header" ELSE "text"
    /\ UNCHANGED <<producers, row, cur, urgent, body, side, outcome, mem, att,
                   idle, ghosts, faults>>

\* once the shutdown token is cancelled no further request is started
Begin(request) == dl' = IF Cancelled THEN "stop" ELSE request

BodyArrives ==
    sent' = [sent EXCEPT ![cur] = IF cur \in excused THEN 1 ELSE IF @ = 2 THEN 2 ELSE @ + 1]

(* A request to Telegram is sent or failed; lost: it is reported as failed  *)
(* although the message, or some files of the batch, did arrive.            *)
SendResults == {"sent", "lost", "failed"}
Arrival(result) ==
    /\ IF result # "failed" /\ ~body THEN BodyArrives ELSE UNCHANGED sent
    /\ excused' = IF result = "lost" /\ ~body THEN excused \cup {cur} ELSE excused

\* mutant: an empty send report counts as delivered
TextUnchecked(result) ==
    /\ dl = "text" /\ Concludes("delivered") /\ Arrival(result)
    /\ UNCHANGED <<producers, row, mem, att, idle, unrecorded, faults>>

\* text that arrived in part counts as sent
Text(result) ==
    /\ dl = "text" /\ Arrival(result)
    /\ IF reply = "both"
         THEN /\ Begin("files") /\ body' = (result = "sent") /\ side' = (result = "sent")
              /\ UNCHANGED <<att, cur, reply, urgent, outcome>>
         ELSE IF result = "sent" THEN Concludes("delivered") /\ UNCHANGED att ELSE Fail
    /\ UNCHANGED <<producers, row, mem, idle, unrecorded, faults>>

\* a files-only reply is announced by the platform header, html then plain
Header(ok) ==
    /\ dl = "header"
    /\ IF ok
         THEN /\ Begin("files") /\ side' = TRUE
              /\ UNCHANGED <<att, cur, reply, urgent, body, outcome>>
         ELSE Fail
    /\ UNCHANGED <<producers, row, mem, idle, sent, excused, unrecorded, faults>>

\* attachment_failure_is_fatal: only when no body text reached the chat
AttachmentFailureIsFatal == ~body

Files(result) ==
    /\ dl = "files" /\ Arrival(result)
    /\ IF result = "sent" \/ ~AttachmentFailureIsFatal
         THEN Concludes("delivered") /\ UNCHANGED att
         ELSE Fail
    /\ UNCHANGED <<producers, row, mem, idle, unrecorded, faults>>

(* Shutdown cuts the attempt before its next request: the run stays         *)
(* pending, unless something was already posted.                            *)
Interrupted ==
    /\ \/ dl = "stop"
       \/ dl \in Sending \cup {"session"} /\ (Cancelled \/ phase = "flush")
    /\ IF side
         THEN Concludes("failed") /\ att' = [att EXCEPT ![cur] = 0]
         ELSE Back(FALSE) /\ UNCHANGED att
    /\ UNCHANGED <<producers, row, mem, idle, ghosts, faults>>

\* shutdown cuts a request that was sent: it may or may not have arrived
OutcomeUnknown(arrived) ==
    /\ dl \in Sending /\ (Cancelled \/ phase = "flush")
    /\ IF arrived /\ dl # "header" /\ ~body THEN BodyArrives ELSE UNCHANGED sent
    /\ Concludes("failed") /\ att' = [att EXCEPT ![cur] = 0]
    /\ UNCHANGED <<producers, row, mem, idle, excused, unrecorded, faults>>

\* mutant: a refused mark is only logged
Forgotten(o) == mem

\* a refused mark is remembered, so that the run is not delivered again
Remembered(o) == IF o = "ok" THEN mem ELSE mem \cup {cur}

Mark(o) ==
    /\ dl = "mark"
    /\ DeliveryMarkOutcome(o, cur, outcome)
    /\ mem' = Remembered(o)
    /\ unrecorded' = IF o = "ok" \/ outcome = "delivered"
                     THEN unrecorded ELSE unrecorded \cup {cur}
    /\ idle' = (idle /\ outcome # "delivered")
    /\ Back(TRUE)
    /\ UNCHANGED <<task, forced, phase, stops, att, sent, excused>>

Deliver ==
    \/ FetchNone \/ FetchFails \/ FetchNext \/ Hold
    \/ GateDenied \/ GateLookupFails \/ GateReady
    \/ SessionFails \/ Interrupted
    \/ \E shape \in {"text", "both", "files"} : SessionReplies(shape)
    \/ \E result \in SendResults : Text(result) \/ Files(result)
    \/ \E ok \in BOOLEAN : Header(ok) \/ OutcomeUnknown(ok)
    \/ \E o \in IpcOutcomes :
          FetchRemembered(o) \/ Dedup(o) \/ GateRemembered(o) \/ Mark(o)

\* idle_ts: messages in the chat reset it, IDLE_THRESHOLD_SECS later it is quiet
ChatActive ==
    /\ phase \notin {"flush", "down"} /\ idle /\ idle' = FALSE
    /\ UNCHANGED <<producers, row, dl, attempt, mem, att, ghosts, faults>>

ChatQuiet ==
    /\ ~idle /\ idle' = TRUE
    /\ UNCHANGED <<producers, row, dl, attempt, mem, att, ghosts, faults>>

-----------------------------------------------------------------------------
(* Shutdown (bot/lib.rs), crash and restart.                                *)

\* runs the delivery loop may send again once its memory is gone
Forgets == mem \cup (IF dl \in Sending \cup {"stop", "mark"} THEN {cur} ELSE {})

FreshLoop(at) ==
    /\ dl' = at /\ NoAttempt /\ mem' = {} /\ att' = [r \in Runs |-> 0]
    /\ excused' = excused \cup Forgets

BeginShutdown ==
    /\ phase = "up" /\ stops < MaxStops
    /\ phase' = "draining" /\ stops' = stops + 1
    /\ UNCHANGED <<ledger, task, forced, dl, attempt, mem, att, idle, ghosts, faults>>

\* the orders a fetch may see the runs of S in: they share one finished_at
Orders(S) ==
    {ord \in SUBSET (S \X S) :
        /\ \A q, r \in S : <<q, r>> \in ord \/ <<r, q>> \in ord
        /\ \A q, r \in S : <<q, r>> \in ord /\ <<r, q>> \in ord => q = r
        /\ \A p, q, r \in S : <<p, q>> \in ord /\ <<q, r>> \in ord => <<p, r>> \in ord}

(* SHUTDOWN_JOB_TIMEOUT passed: the execution is aborted, then every        *)
(* running row of its job is failed.  delivery_json is not written.         *)
AbortCron(r, o) ==
    LET running == {q \in OfJob(row[r].job) : row[q].status = "running"}
    IN  /\ phase = "draining" /\ task[r] \in CronActive
        /\ Becomes(r, "gone")
        /\ Ipc(o)
        /\ IF o = "down"
             THEN UNCHANGED ledger
             ELSE /\ row' = [q \in Runs |->
                        IF q \in running
                          THEN [row[q] EXCEPT !.status = "failed", !.required = TRUE,
                                              !.dstat = "pending"]
                          ELSE row[q]]
                  /\ \E ord \in Orders(running) : finished' = FinishTogether(running, ord)
        /\ UNCHANGED <<forced, phase, dl, attempt, mem, att, idle, ghosts, stops>>

CronStopped ==
    /\ phase = "draining" /\ \A r \in CronRuns : task[r] \notin CronActive
    /\ phase' = "closing"
    /\ UNCHANGED <<ledger, task, forced, dl, attempt, mem, att, idle, ghosts,
                   faults, stops>>

\* the flush starts with a new DeliveryLoopState
StartFlush ==
    /\ phase = "closing" /\ dl = "ended"
    /\ phase' = "flush" /\ FreshLoop("fetch")
    /\ UNCHANGED <<ledger, task, forced, idle, sent, unrecorded, faults, stops>>

Halt ==
    /\ phase' = "down" /\ FreshLoop("ended")
    /\ task' = [r \in Runs |-> IF task[r] = "none" THEN "none" ELSE "gone"]
    /\ idle' = TRUE
    /\ UNCHANGED <<ledger, forced, sent, unrecorded, faults>>

\* the loop missed ASYNC_DELIVERY_SHUTDOWN_TIMEOUT: aborted, no flush
AbortLoop == phase = "closing" /\ dl # "ended" /\ Halt /\ UNCHANGED stops

Exit == phase = "flush" /\ dl = "ended" /\ Halt /\ UNCHANGED stops

Crash == phase # "down" /\ stops < MaxStops /\ Halt /\ stops' = stops + 1

\* mutant: recovery looks for running handoffs
SpawnedOnly(r) == row[r].status = "running" /\ row[r].handoff = "spawned"

\* RecoverInterruptedHandoffs picks
Interruptible(r) == row[r].status = "queued" /\ row[r].handoff = "queued"

Restart ==
    LET lost == {r \in BgRuns : Interruptible(r)}
    IN  /\ phase = "down" /\ phase' = "up" /\ dl' = "sleep" /\ idle' = TRUE
        /\ row' = [r \in Runs |->
              IF r \in lost
                THEN [Persisted(r, "failed", TRUE, "failure") EXCEPT !.handoff = "failed"]
                ELSE row[r]]
        /\ \E ord \in Orders(lost) : finished' = FinishTogether(lost, ord)
        /\ unrecorded' = unrecorded \ lost
        /\ UNCHANGED <<task, forced, attempt, mem, att, sent, excused, faults, stops>>

-----------------------------------------------------------------------------
Init ==
    /\ row = [r \in Runs |-> Absent] /\ finished = {}
    /\ task = [r \in Runs |-> "none"] /\ forced = {}
    /\ phase = "up" /\ dl = "sleep"
    /\ cur = NoRun /\ reply = "none" /\ urgent = FALSE
    /\ body = FALSE /\ side = FALSE /\ outcome = "none"
    /\ mem = {} /\ att = [r \in Runs |-> 0] /\ idle = TRUE
    /\ sent = [r \in Runs |-> 0] /\ excused = {} /\ unrecorded = {}
    /\ faults = 0 /\ stops = 0

Aborts(r) == \E o \in IpcOutcomes : AbortCron(r, o)

Next ==
    \/ \E r \in Runs : Producer(r)
    \/ Poll \/ LoopEnds \/ Deliver
    \/ ChatActive \/ ChatQuiet
    \/ BeginShutdown \/ \E r \in CronRuns : Aborts(r)
    \/ CronStopped \/ StartFlush \/ AbortLoop \/ Exit \/ Crash \/ Restart

Spec == Init /\ [][Next]_vars

(* The delivery loop is always polled again, requests end (timeouts), the   *)
(* shutdown sequence has deadlines and process-compose restarts the bot.    *)
Fairness ==
    /\ WF_vars(Poll \/ LoopEnds \/ Deliver)
    /\ WF_vars(ChatQuiet)
    /\ \A r \in CronRuns : WF_vars(Aborts(r))
    /\ WF_vars(CronStopped \/ StartFlush \/ Exit \/ Restart)

FairSpec == Spec /\ Fairness

-----------------------------------------------------------------------------
RowType ==
    [status : {"absent", "queued", "running", "success", "failed"},
     handoff : {"none", "queued", "spawned", "failed"},
     job : Jobs \cup {"none"}, required : BOOLEAN,
     dstat : {"none", "pending", "delivered", "denied", "failed", "superseded"},
     json : {"null", "result", "failure"}, force : BOOLEAN]

(* Every variable keeps its type; a run whose process is down has no task   *)
(* and a delivery attempt is about a run of the ledger.                     *)
TypeOK ==
    /\ row \in [Runs -> RowType]
    /\ finished \subseteq Runs \X Runs
    /\ task \in [Runs -> {"none", "gone"} \cup CronActive \cup BgActive]
    /\ forced \subseteq CronRuns
    /\ phase \in {"up", "draining", "closing", "flush", "down"}
    /\ dl \in {"sleep", "fetch", "dedup", "gate", "session", "stop", "mark", "ended"}
              \cup Sending
    /\ cur \in Runs \cup {NoRun}
    /\ (cur = NoRun) <=> dl \in {"sleep", "fetch", "ended"}
    /\ reply \in {"none", "text", "both", "files"}
    /\ urgent \in BOOLEAN /\ body \in BOOLEAN /\ side \in BOOLEAN /\ idle \in BOOLEAN
    /\ outcome \in {"none", "delivered", "denied", "failed"}
    /\ mem \subseteq Runs /\ att \in [Runs -> 0..(MaxAttempts - 1)]
    /\ sent \in [Runs -> 0..2]
    /\ excused \subseteq Runs /\ unrecorded \subseteq Runs
    /\ faults \in 0..MaxFaults /\ stops \in 0..MaxStops

(* A run recorded as successful has its result on record: execute_job and   *)
(* complete_background_run write status and output in one transaction.      *)
SuccessHasOutput ==
    \A r \in Runs : row[r].status = "success" => row[r].json # "null"

(* The body of a run reaches the chat at most once, unless its result was   *)
(* recorded again, the delivery loop lost its memory during an attempt or   *)
(* Telegram took part of a request that it reported as failed.              *)
DuplicateNeedsFault == \A r \in Runs : sent[r] > 1 => r \in excused

(* delivery_status delivered is only ever recorded for a run whose body     *)
(* reached the chat, unless another outcome could not be recorded first.    *)
DeliveredWasSent ==
    \A r \in Runs :
        row[r].dstat = "delivered" => sent[r] > 0 \/ r \in unrecorded

(* While the bot runs, a queued background run has a task that will settle  *)
(* it: restarts recover the others, except when the owner refused.          *)
QueuedHasOwner ==
    phase # "down" =>
        \A r \in BgRuns : row[r].status = "queued" => task[r] \in BgActive \/ r \in unrecorded

(* Deduplication drops a deliverable cron result only in favour of a newer  *)
(* one of the same job that is still going to be delivered.                 *)
SupersededByNewer ==
    [][\A r \in CronRuns :
         Fetchable(r) /\ row'[r].dstat = "superseded" =>
            \E q \in CronRuns \ {r} :
                /\ row[q].job = row[r].job /\ Before(r, q)
                /\ Fetchable(q) /\ Fetchable(q)']_vars

(* Once the chats stay quiet, every deliverable result is settled: it is    *)
(* delivered, superseded, denied or given up after MAX_DELIVERY_ATTEMPTS.   *)
PendingSettles ==
    <>[][~ChatActive]_vars => \A r \in Runs : Fetchable(r) ~> ~Fetchable(r)

(* Tasks, ledger, delivery loop, shutdown and restarts together implement   *)
(* Outbox: a result that was settled is never settled otherwise or opened   *)
(* again, except by its own task when it records another one.               *)
Standing(r) == IF row[r].json = "null" THEN "none" ELSE row[r].dstat
Box == INSTANCE Outbox WITH
    out <- [r \in Runs |-> Standing(r)],
    posts <- sent, again <- excused, missed <- unrecorded
ImplementsOutbox == Box!Spec
=============================================================================
