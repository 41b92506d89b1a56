--------------------------- MODULE AsyncRunsProofs ---------------------------
(***************************************************************************)
(* Theorems about AsyncRuns, for any sets of runs and jobs, any number of  *)
(* attempts, of failed owner calls and of crashes and shutdowns.           *)
(*                                                                         *)
(* They rest on IInv, whose parts say what the tasks, the ledger and the   *)
(* delivery loop know of one another.                                      *)
(***************************************************************************)
EXTENDS AsyncRuns, TLAPS

-----------------------------------------------------------------------------
(* The inductive invariant.                                                 *)

(* A run that has not finished, and one whose task has not settled it, has  *)
(* no output on record, so no step of its task records a second one.        *)
Unfinished == {"absent", "queued", "running"}
Unsettled == {"none", "running", "reflecting", "handoff", "report", "spawned"}
OutputWhenSettled(r) ==
    row[r].status \in Unfinished \/ task[r] \in Unsettled => row[r].json = "null"

(* A background run that was spawned is no longer queued; one that is       *)
(* queued is in a handoff that a restart can find.                          *)
HandoffInOrder(r) ==
    /\ task[r] \in {"spawned", "refused"} => row[r].status # "queued"
    /\ row[r].status = "queued" => row[r].handoff = "queued"
    /\ task[r] = "none" => row[r].status = "absent"

(* SuccessHasOutput and QueuedHasOwner for one run.                         *)
HasOutput(r) == row[r].status = "success" => row[r].json # "null"
HasOwner(r) ==
    r \in BgRuns /\ phase # "down" /\ row[r].status = "queued" =>
        task[r] \in BgActive \/ r \in unrecorded

RunInv(r) == OutputWhenSettled(r) /\ HandoffInOrder(r) /\ HasOutput(r) /\ HasOwner(r)

(* A bot that is down has no task, no attempt and no memory of one.         *)
NothingWhenDown ==
    phase = "down" =>
        /\ dl = "ended" /\ mem = {}
        /\ \A r \in Runs : task[r] \in {"none", "gone"}

(* What the loop delivers stays deliverable until the loop settles it.      *)
CurrentFetchable == cur # NoRun => Fetchable(cur)

(* Body text that arrived was counted, and the attempt can end in no other  *)
(* way than with an outcome.                                                *)
BodyCounted ==
    body => side /\ dl \in {"files", "stop", "mark"} /\ sent[cur] > 0

(* An attempt that has sent no body starts from a run never sent.           *)
FreshAttempt ==
    dl \in {"session", "stop"} \cup Sending /\ ~body => sent[cur] = 0 \/ cur \in excused

(* Nothing that reached the chat can be fetched for delivery again: it is   *)
(* settled, remembered or in the hands of the current attempt.              *)
SentIsKnown ==
    \A r \in Runs :
        sent[r] > 0 /\ r \notin excused =>
            ~Fetchable(r) \/ r \in mem \/ (r = cur /\ (body \/ dl = "mark"))

SentHasOutput == \A r \in Runs : sent[r] > 0 => row[r].json # "null"

(* Only what was sent, or has an outcome that could not be recorded, is     *)
(* remembered or about to be recorded as delivered.                         *)
RememberedWasSent == \A r \in mem : sent[r] > 0 \/ r \in unrecorded
MarkedWasSent == dl = "mark" /\ outcome = "delivered" => sent[cur] > 0

LedgerInv == \A r \in Runs : RunInv(r)
LoopInv == NothingWhenDown /\ CurrentFetchable /\ BodyCounted /\ FreshAttempt
SentInv == SentIsKnown /\ SentHasOutput /\ DuplicateNeedsFault
MarkInv == RememberedWasSent /\ MarkedWasSent /\ DeliveredWasSent

IInv == TypeOK /\ LedgerInv /\ LoopInv /\ SentInv /\ MarkInv

-----------------------------------------------------------------------------
(* Type correctness.                                                        *)

Statuses == {"absent", "queued", "running", "success", "failed"}
Jsons == {"null", "result", "failure"}

RowTypes == [Runs -> RowType]

LEMMA RowAt ==
    ASSUME row \in RowTypes, NEW r \in Runs
    PROVE  row[r] \in RowType
  BY DEF RowTypes

LEMMA RowUpdated ==
    ASSUME row \in RowTypes, NEW r \in Runs, NEW x \in RowType, row' = [row EXCEPT ![r] = x]
    PROVE  row' \in RowTypes /\ row'[r] = x /\ \A q \in Runs \ {r} : row'[q] = row[q]
  BY DEF RowTypes

LEMMA PersistedFields ==
    ASSUME row \in RowTypes, NEW r \in Runs, NEW s \in Statuses, NEW req \in BOOLEAN,
           NEW json \in Jsons
    PROVE  /\ Persisted(r, s, req, json) \in RowType
           /\ Persisted(r, s, req, json).status = s
           /\ Persisted(r, s, req, json).required = req
           /\ Persisted(r, s, req, json).json = json
           /\ Persisted(r, s, req, json).dstat = IF req THEN "pending" ELSE "none"
           /\ Persisted(r, s, req, json).handoff = row[r].handoff
           /\ Persisted(r, s, req, json).job = row[r].job
  <1> DEFINE d == IF req THEN "pending" ELSE "none"
  <1>1. d \in {"none", "pending"}
    OBVIOUS
  <1>2. Persisted(r, s, req, json) =
            [row[r] EXCEPT !.status = s, !.required = req, !.json = json, !.dstat = d]
    BY DEF Persisted
  <1> HIDE DEF d
  <1>3. row[r] \in RowType
    BY RowAt
  <1>4. /\ Persisted(r, s, req, json) \in RowType
        /\ Persisted(r, s, req, json).status = s
        /\ Persisted(r, s, req, json).required = req
        /\ Persisted(r, s, req, json).json = json
        /\ Persisted(r, s, req, json).dstat = d
        /\ Persisted(r, s, req, json).handoff = row[r].handoff
        /\ Persisted(r, s, req, json).job = row[r].job
    BY <1>1, <1>2, <1>3 DEF RowType, Statuses, Jsons
  <1>5. QED
    BY <1>4 DEF d

(* The row a failed handoff leaves.                                         *)
Unhandled(r) == [Persisted(r, "failed", TRUE, "failure") EXCEPT !.handoff = "failed"]

LEMMA UnhandledFields ==
    ASSUME row \in RowTypes, NEW r \in Runs
    PROVE  /\ Unhandled(r) \in RowType
           /\ Unhandled(r).status = "failed" /\ Unhandled(r).dstat = "pending"
           /\ Unhandled(r).json = "failure" /\ Unhandled(r).handoff = "failed"
           /\ Unhandled(r).required = TRUE
  <1> DEFINE p == Persisted(r, "failed", TRUE, "failure")
  <1>1. p = [row[r] EXCEPT !.status = "failed", !.required = TRUE, !.json = "failure",
                           !.dstat = "pending"]
    BY DEF Persisted
  <1>2. row[r] \in RowType
    BY RowAt
  <1>3. /\ p \in RowType /\ p.status = "failed" /\ p.dstat = "pending"
        /\ p.json = "failure" /\ p.required = TRUE
    BY <1>1, <1>2 DEF RowType
  <1>4. Unhandled(r) = [p EXCEPT !.handoff = "failed"]
    BY DEF Unhandled
  <1> HIDE DEF p
  <1>5. QED
    BY <1>3, <1>4 DEF RowType

LEMMA StatusFields ==
    ASSUME row \in RowTypes, NEW r \in Runs, NEW s \in Statuses
    PROVE  /\ [row[r] EXCEPT !.status = s] \in RowType
           /\ [row[r] EXCEPT !.status = s].status = s
           /\ [row[r] EXCEPT !.status = s].json = row[r].json
           /\ [row[r] EXCEPT !.status = s].dstat = row[r].dstat
           /\ [row[r] EXCEPT !.status = s].handoff = row[r].handoff
           /\ [row[r] EXCEPT !.status = s].required = row[r].required
           /\ [row[r] EXCEPT !.status = s].job = row[r].job
  BY RowAt DEF RowType, Statuses

Spawned(r) == [row[r] EXCEPT !.status = "running", !.handoff = "spawned", !.required = TRUE,
                             !.dstat = "pending"]

LEMMA SpawnedFields ==
    ASSUME row \in RowTypes, NEW r \in Runs
    PROVE  /\ Spawned(r) \in RowType
           /\ Spawned(r).status = "running" /\ Spawned(r).json = row[r].json
           /\ Spawned(r).dstat = "pending" /\ Spawned(r).handoff = "spawned"
  BY RowAt DEF RowType, Spawned

LEMMA OutcomeFields ==
    ASSUME row \in RowTypes, NEW r \in Runs,
           NEW s \in {"none", "pending", "delivered", "denied", "failed", "superseded"}
    PROVE  /\ [row[r] EXCEPT !.dstat = s] \in RowType
           /\ [row[r] EXCEPT !.dstat = s].status = row[r].status
           /\ [row[r] EXCEPT !.dstat = s].json = row[r].json
           /\ [row[r] EXCEPT !.dstat = s].dstat = s
           /\ [row[r] EXCEPT !.dstat = s].handoff = row[r].handoff
           /\ [row[r] EXCEPT !.dstat = s].required = row[r].required
           /\ [row[r] EXCEPT !.dstat = s].job = row[r].job
  BY RowAt DEF RowType

LEMMA StartedFields ==
    ASSUME row \in RowTypes, NEW r \in Runs, NEW j \in Jobs
    PROVE  LET x == [row[r] EXCEPT !.status = "running", !.job = j]
           IN  /\ x \in RowType /\ x.status = "running" /\ x.json = row[r].json
               /\ x.dstat = row[r].dstat /\ x.handoff = row[r].handoff
  BY RowAt DEF RowType

LEMMA EnqueuedFields ==
    ASSUME row \in RowTypes, NEW r \in Runs
    PROVE  LET x == [row[r] EXCEPT !.status = "queued", !.handoff = "queued"]
           IN  /\ x \in RowType /\ x.status = "queued" /\ x.json = row[r].json
               /\ x.dstat = row[r].dstat /\ x.handoff = "queued"
  BY RowAt DEF RowType

-----------------------------------------------------------------------------
(* What the owner's operations do to the ledger.                            *)

LEMMA FinishTogetherType ==
    ASSUME TypeOK, NEW S \in SUBSET Runs, NEW ord \in SUBSET (S \X S)
    PROVE  FinishTogether(S, ord) \subseteq Runs \X Runs
  BY DEF TypeOK, FinishTogether, HasFinished

LEMMA FinishedNowType ==
    ASSUME TypeOK, NEW r \in Runs
    PROVE  FinishedNow(r) \subseteq Runs \X Runs
  <1>1. {<<r, r>>} \in SUBSET ({r} \X {r})
    OBVIOUS
  <1>2. QED
    BY <1>1, FinishTogetherType DEF FinishedNow

LEMMA IpcType ==
    ASSUME TypeOK, NEW o, Ipc(o)
    PROVE  faults' \in 0..MaxFaults
  BY AsyncRunsAssumption DEF TypeOK, Ipc

LEMMA RowsTyped == TypeOK => row \in RowTypes
  BY DEF TypeOK, RowTypes

(* The ledger of the next state, where only the row of r may differ.        *)
OnlyRow(r) ==
    /\ row' \in RowTypes /\ finished' \subseteq Runs \X Runs /\ faults' \in 0..MaxFaults
    /\ \A q \in Runs \ {r} : row'[q] = row[q]

LEMMA Persists ==
    ASSUME TypeOK, NEW o, NEW r \in Runs, NEW s \in Statuses, NEW req \in BOOLEAN,
           NEW json \in Jsons, PersistRunOutput(o, r, s, req, json)
    PROVE  /\ OnlyRow(r)
           /\ \/ /\ o = "down" /\ row' = row /\ excused' = excused
              \/ /\ o # "down" /\ row'[r] = Persisted(r, s, req, json)
                 /\ excused' = IF row[r].json # "null" THEN excused \cup {r} ELSE excused
  <1>1. row \in RowTypes /\ Persisted(r, s, req, json) \in RowType
    BY RowsTyped, PersistedFields
  <1>3. faults' \in 0..MaxFaults
    BY IpcType DEF PersistRunOutput
  <1>4. CASE o = "down"
    BY <1>1, <1>3, <1>4 DEF PersistRunOutput, ledger, OnlyRow, TypeOK
  <1>5. CASE o # "down"
    <2>1. row' = [row EXCEPT ![r] = Persisted(r, s, req, json)] /\ finished' = FinishedNow(r)
      BY <1>5 DEF PersistRunOutput
    <2> DEFINE x == Persisted(r, s, req, json)
    <2>2. x \in RowType /\ row' = [row EXCEPT ![r] = x]
      BY <1>1, <2>1
    <2> HIDE DEF x
    <2>3. row' \in RowTypes /\ row'[r] = x /\ \A q \in Runs \ {r} : row'[q] = row[q]
      BY <1>1, <2>2, RowUpdated
    <2>4. QED
      BY <1>3, <1>5, <2>1, <2>3, FinishedNowType DEF PersistRunOutput, OnlyRow, x
  <1>6. QED
    BY <1>4, <1>5

LEMMA Finishes ==
    ASSUME TypeOK, NEW o, NEW r \in Runs, NEW s \in Statuses, FinishRun(o, r, s)
    PROVE  /\ OnlyRow(r)
           /\ \/ o = "down" /\ row' = row
              \/ o # "down" /\ row'[r] = [row[r] EXCEPT !.status = s]
  <1>1. row \in RowTypes /\ [row[r] EXCEPT !.status = s] \in RowType
    BY RowsTyped, StatusFields
  <1>3. faults' \in 0..MaxFaults
    BY IpcType DEF FinishRun
  <1>4. CASE o = "down"
    BY <1>1, <1>3, <1>4 DEF FinishRun, ledger, OnlyRow, TypeOK
  <1>5. CASE o # "down"
    <2>1. row' = [row EXCEPT ![r] = [row[r] EXCEPT !.status = s]] /\ finished' = FinishedNow(r)
      BY <1>5 DEF FinishRun
    <2> DEFINE x == [row[r] EXCEPT !.status = s]
    <2>2. x \in RowType /\ row' = [row EXCEPT ![r] = x]
      BY <1>1, <2>1
    <2> HIDE DEF x
    <2>3. row' \in RowTypes /\ row'[r] = x /\ \A q \in Runs \ {r} : row'[q] = row[q]
      BY <1>1, <2>2, RowUpdated
    <2>4. QED
      BY <1>3, <1>5, <2>1, <2>3, FinishedNowType DEF OnlyRow, x
  <1>6. QED
    BY <1>4, <1>5

LEMMA FailsHandoff ==
    ASSUME TypeOK, NEW o, NEW r \in Runs, MarkHandoffFailed(o, r)
    PROVE  /\ OnlyRow(r)
           /\ \/ o = "down" /\ row' = row
              \/ o # "down" /\ row'[r] = Unhandled(r)
  <1>1. row \in RowTypes /\ Unhandled(r) \in RowType
    BY RowsTyped, UnhandledFields
  <1>3. faults' \in 0..MaxFaults
    BY IpcType DEF MarkHandoffFailed
  <1>4. CASE o = "down"
    BY <1>1, <1>3, <1>4 DEF MarkHandoffFailed, ledger, OnlyRow, TypeOK
  <1>5. CASE o # "down"
    <2>1. row' = [row EXCEPT ![r] = Unhandled(r)] /\ finished' = FinishedNow(r)
      BY <1>5 DEF MarkHandoffFailed, Unhandled
    <2> DEFINE x == Unhandled(r)
    <2>2. x \in RowType /\ row' = [row EXCEPT ![r] = x]
      BY <1>1, <2>1
    <2> HIDE DEF x
    <2>3. row' \in RowTypes /\ row'[r] = x /\ \A q \in Runs \ {r} : row'[q] = row[q]
      BY <1>1, <2>2, RowUpdated
    <2>4. QED
      BY <1>3, <1>5, <2>1, <2>3, FinishedNowType DEF OnlyRow, x
  <1>6. QED
    BY <1>4, <1>5

(* The operations that leave finished_at alone write one row x or nothing.  *)
LEMMA Writes ==
    ASSUME TypeOK, NEW o, NEW r \in Runs, NEW x \in RowType, Ipc(o), UNCHANGED finished,
           row' = IF o = "down" THEN row ELSE [row EXCEPT ![r] = x]
    PROVE  OnlyRow(r) /\ row'[r] = IF o = "down" THEN row[r] ELSE x
  BY RowsTyped, IpcType, RowUpdated DEF OnlyRow, TypeOK

LEMMA MarksSpawned ==
    ASSUME TypeOK, NEW o, NEW r \in Runs, MarkBackgroundSpawned(o, r)
    PROVE  OnlyRow(r) /\ row'[r] = IF o = "down" THEN row[r] ELSE Spawned(r)
  <1>1. Spawned(r) \in RowType
    BY RowsTyped, SpawnedFields
  <1>2. row' = IF o = "down" THEN row ELSE [row EXCEPT ![r] = Spawned(r)]
    BY DEF MarkBackgroundSpawned, Spawned
  <1>3. QED
    BY <1>1, <1>2, Writes DEF MarkBackgroundSpawned

-----------------------------------------------------------------------------
(* The tasks that own runs.                                                 *)

TaskStates == {"none", "gone"} \cup CronActive \cup BgActive

(* What every step of the task of r changes and what it leaves alone.       *)
TaskStep(r) ==
    /\ UNCHANGED <<phase, stops, dl, cur, reply, urgent, body, side, outcome, mem, att, idle,
                   sent>>
    /\ OnlyRow(r) /\ forced' \subseteq CronRuns
    /\ \E t \in TaskStates : Becomes(r, t)
    /\ excused \subseteq excused' /\ excused' \subseteq Runs
    /\ unrecorded \subseteq unrecorded' /\ unrecorded' \subseteq Runs

(* What the delivery loop relies on: output stays on record, a deliverable  *)
(* run stays deliverable, none becomes so again unnoticed, and only the     *)
(* loop records a delivery.                                                 *)
Kept(r) ==
    /\ row[r].json # "null" => row'[r].json # "null"
    /\ Fetchable(r) => Fetchable(r)'
    /\ row[r].json # "null" /\ ~Fetchable(r) /\ Fetchable(r)' => r \in excused'
    /\ row'[r].dstat = "delivered" => row[r].dstat = "delivered"

LEMMA Recorded ==
    ASSUME TypeOK, NEW o, NEW r \in Runs, NEW s \in Statuses, NEW req \in BOOLEAN,
           NEW json \in Jsons, PersistRunOutput(o, r, s, req, json)
    PROVE  \/ o = "down" /\ row'[r] = row[r] /\ excused' = excused
           \/ /\ o # "down" /\ row'[r].status = s /\ row'[r].json = json
              /\ row'[r].required = req /\ row'[r].dstat = IF req THEN "pending" ELSE "none"
              /\ row'[r].handoff = row[r].handoff
              /\ excused' = IF row[r].json # "null" THEN excused \cup {r} ELSE excused
  <1> DEFINE x == Persisted(r, s, req, json)
  <1>1. /\ x.status = s /\ x.json = json /\ x.required = req
        /\ x.dstat = IF req THEN "pending" ELSE "none"
        /\ x.handoff = row[r].handoff
    BY RowsTyped, PersistedFields
  <1>2. \/ o = "down" /\ row' = row /\ excused' = excused
        \/ /\ o # "down" /\ row'[r] = x
           /\ excused' = IF row[r].json # "null" THEN excused \cup {r} ELSE excused
    BY Persists
  <1> HIDE DEF x
  <1>3. QED
    BY <1>1, <1>2

LEMMA CronStepType ==
    ASSUME TypeOK, NEW r \in CronRuns, NEW from, NEW t \in TaskStates, CronStep(r, from, t),
           OnlyRow(r), excused \subseteq excused', excused' \subseteq Runs
    PROVE  TaskStep(r)
  BY DEF CronStep, TaskStep, loop, attempt, TypeOK

LEMMA BgStepType ==
    ASSUME TypeOK, NEW r \in BgRuns, NEW from, NEW t \in TaskStates, BgStep(r, from, t),
           OnlyRow(r), excused \subseteq excused', excused' \subseteq Runs,
           unrecorded \subseteq unrecorded', unrecorded' \subseteq Runs
    PROVE  TaskStep(r)
  BY DEF BgStep, TaskStep, loop, attempt, TypeOK

LEMMA ExcusedGrows ==
    ASSUME TypeOK, NEW o, NEW r \in Runs, NEW s \in Statuses, NEW req \in BOOLEAN,
           NEW json \in Jsons, PersistRunOutput(o, r, s, req, json)
    PROVE  excused \subseteq excused' /\ excused' \subseteq Runs
  BY Recorded DEF TypeOK

LEMMA CronStarts ==
    ASSUME TypeOK, NEW r \in CronRuns, RunInv(r), NEW o \in IpcOutcomes, NEW j \in Jobs,
           NEW f \in BOOLEAN, StartCron(r, j, f, o)
    PROVE  TaskStep(r) /\ RunInv(r)' /\ Kept(r)
  <1> DEFINE x == [row[r] EXCEPT !.status = "running", !.job = j]
  <1>1. r \in Runs /\ row \in RowTypes
    BY RowsTyped DEF Runs
  <1>2. /\ x \in RowType /\ x.status = "running" /\ x.json = row[r].json
        /\ x.dstat = row[r].dstat /\ x.handoff = row[r].handoff
    BY <1>1, StartedFields
  <1>3. row' = IF o = "down" THEN row ELSE [row EXCEPT ![r] = x]
    BY DEF StartCron
  <1> HIDE DEF x
  <1>4. OnlyRow(r) /\ row'[r] = IF o = "down" THEN row[r] ELSE x
    BY <1>1, <1>2, <1>3, Writes DEF StartCron
  <1>5. \E t \in {"running", "gone"} : Becomes(r, t)
    BY DEF StartCron
  <1>6. TaskStep(r)
    BY <1>4, <1>5 DEF StartCron, TaskStep, TaskStates, CronActive, loop, attempt, TypeOK
  <1>7. RunInv(r)'
    <2>1. task'[r] \in {"running", "gone"} /\ task[r] = "none"
      BY <1>1, <1>5 DEF Becomes, TypeOK, StartCron
    <2>2. r \notin BgRuns
      BY AsyncRunsAssumption
    <2>3. QED
      BY <1>2, <1>4, <2>1, <2>2 DEF RunInv, OutputWhenSettled, HandoffInOrder, HasOutput, HasOwner,
         Unsettled, Unfinished
  <1>8. Kept(r)
    <2>1. task[r] = "none" /\ row[r].json = "null"
      BY DEF StartCron, RunInv, OutputWhenSettled, Unsettled
    <2>2. QED
      BY <1>2, <1>4, <2>1 DEF Kept, Fetchable
  <1>9. QED
    BY <1>6, <1>7, <1>8

LEMMA CronSettles ==
    ASSUME TypeOK, NEW r \in CronRuns, RunInv(r), NEW o \in IpcOutcomes,
           NEW s \in {"success", "failed"}, NEW req \in BOOLEAN, NEW json \in Jsons,
           NEW from \in {"running", "reflecting"}, NEW t \in {"gone", "cleanup"},
           s = "success" => json # "null",
           CronStep(r, from, t), PersistRunOutput(o, r, s, req, json)
    PROVE  TaskStep(r) /\ RunInv(r)' /\ Kept(r)
  <1>1. r \in Runs /\ s \in Statuses /\ t \in TaskStates
    BY DEF Runs, Statuses, TaskStates, CronActive
  <1>2. \/ o = "down" /\ row'[r] = row[r] /\ excused' = excused
        \/ /\ o # "down" /\ row'[r].status = s /\ row'[r].json = json
           /\ row'[r].required = req /\ row'[r].dstat = IF req THEN "pending" ELSE "none"
           /\ excused' = IF row[r].json # "null" THEN excused \cup {r} ELSE excused
    BY <1>1, Recorded
  <1>3. TaskStep(r)
    BY <1>1, CronStepType, ExcusedGrows, Persists
  <1>4. task[r] = from /\ row[r].json = "null"
    BY DEF CronStep, RunInv, OutputWhenSettled, Unsettled
  <1>5. RunInv(r)'
    <2>1. task'[r] = t
      BY <1>1 DEF CronStep, Becomes, TypeOK
    <2>2. r \notin BgRuns
      BY AsyncRunsAssumption
    <2>3. QED
      BY <1>2, <1>4, <2>1, <2>2 DEF RunInv, OutputWhenSettled, HandoffInOrder, HasOutput, HasOwner,
         Unsettled, Unfinished
  <1>6. Kept(r)
    BY <1>2, <1>4 DEF Kept, Fetchable, Eligible
  <1>7. QED
    BY <1>3, <1>5, <1>6

LEMMA CronFinishes ==
    ASSUME TypeOK, NEW r \in CronRuns, RunInv(r), NEW o \in IpcOutcomes,
           NEW from \in {"running", "cleanup"}, NEW t \in {"gone", "reflecting"},
           from = "cleanup" => t = "gone",
           CronStep(r, from, t), FinishRun(o, r, "failed"), UNCHANGED excused
    PROVE  TaskStep(r) /\ RunInv(r)' /\ Kept(r)
  <1> DEFINE x == [row[r] EXCEPT !.status = "failed"]
  <1>1. r \in Runs /\ "failed" \in Statuses /\ t \in TaskStates
    BY DEF Runs, Statuses, TaskStates, CronActive
  <1>2. /\ x.status = "failed" /\ x.json = row[r].json /\ x.dstat = row[r].dstat
        /\ x.required = row[r].required
    BY <1>1, RowsTyped, StatusFields
  <1>3. OnlyRow(r) /\ (row'[r] = row[r] \/ row'[r] = x)
    BY <1>1, Finishes
  <1> HIDE DEF x
  <1>4. TaskStep(r)
    BY <1>1, <1>3, CronStepType DEF TypeOK
  <1>5. task[r] = from /\ task'[r] = t
    BY <1>1 DEF CronStep, Becomes, TypeOK
  <1>6. RunInv(r)'
    <2>1. r \notin BgRuns
      BY AsyncRunsAssumption
    <2>2. QED
      BY <1>2, <1>3, <1>5, <2>1 DEF RunInv, OutputWhenSettled, HandoffInOrder, HasOutput, HasOwner,
         Unsettled, Unfinished
  <1>7. Kept(r)
    <2>1. row[r].status \in Statuses
      BY <1>1, RowsTyped, RowAt DEF RowType, Statuses
    <2>2. row[r].status \notin Unfinished => row[r].status \in {"success", "failed"}
      BY <2>1 DEF Statuses, Unfinished
    <2>3. row[r].status \in Unfinished => row[r].json = "null"
      BY DEF RunInv, OutputWhenSettled
    <2>4. QED
      BY <1>2, <1>3, <2>2, <2>3 DEF Kept, Fetchable, Eligible
  <1>8. QED
    BY <1>4, <1>6, <1>7

LEMMA BgEnqueues ==
    ASSUME TypeOK, NEW r \in BgRuns, RunInv(r), NEW o \in IpcOutcomes, EnqueueBackground(r, o)
    PROVE  TaskStep(r) /\ RunInv(r)' /\ Kept(r)
  <1> DEFINE x == [row[r] EXCEPT !.status = "queued", !.handoff = "queued"]
  <1>1. r \in Runs /\ row \in RowTypes
    BY RowsTyped DEF Runs
  <1>2. /\ x \in RowType /\ x.status = "queued" /\ x.json = row[r].json
        /\ x.dstat = row[r].dstat /\ x.handoff = "queued"
    BY <1>1, EnqueuedFields
  <1>3. row' = IF o = "down" THEN row ELSE [row EXCEPT ![r] = x]
    BY DEF EnqueueBackground
  <1> HIDE DEF x
  <1>4. OnlyRow(r) /\ row'[r] = IF o = "down" THEN row[r] ELSE x
    BY <1>1, <1>2, <1>3, Writes DEF EnqueueBackground
  <1>5. \E t \in {"handoff", "gone"} : Becomes(r, t)
    BY DEF EnqueueBackground
  <1>6. TaskStep(r)
    BY <1>1, <1>4, <1>5
       DEF EnqueueBackground, TaskStep, TaskStates, BgActive, loop, attempt, TypeOK
  <1>7. RunInv(r)'
    <2>1. task[r] = "none" /\ task'[r] = IF o = "ok" THEN "handoff" ELSE "gone"
      BY <1>1 DEF EnqueueBackground, Becomes, TypeOK
    <2>2. task'[r] = "handoff" \/ r \in unrecorded'
      BY <2>1 DEF EnqueueBackground
    <2>3. row[r].status = "absent" /\ row[r].json = "null"
      BY <2>1 DEF RunInv, OutputWhenSettled, HandoffInOrder, Unsettled
    <2>4. QED
      BY <1>2, <1>4, <2>1, <2>2, <2>3 DEF RunInv, OutputWhenSettled, HandoffInOrder, HasOutput,
         HasOwner, BgActive
  <1>8. Kept(r)
    <2>1. task[r] = "none" /\ row[r].json = "null"
      BY DEF EnqueueBackground, RunInv, OutputWhenSettled, Unsettled
    <2>2. QED
      BY <1>2, <1>4, <2>1 DEF Kept, Fetchable
  <1>9. QED
    BY <1>6, <1>7, <1>8

LEMMA HandoffIsFailed ==
    ASSUME TypeOK, NEW r \in BgRuns, RunInv(r), NEW o \in IpcOutcomes, HandoffFails(r, o)
    PROVE  TaskStep(r) /\ RunInv(r)' /\ Kept(r)
  <1>1. r \in Runs /\ row \in RowTypes /\ "gone" \in TaskStates
    BY RowsTyped DEF Runs, TaskStates
  <1>2. /\ Unhandled(r).status = "failed" /\ Unhandled(r).dstat = "pending"
        /\ Unhandled(r).json = "failure" /\ Unhandled(r).required = TRUE
    BY <1>1, UnhandledFields
  <1>3. OnlyRow(r) /\ ((o = "down" /\ row' = row) \/ (o # "down" /\ row'[r] = Unhandled(r)))
    BY <1>1, FailsHandoff DEF HandoffFails
  <1>4. /\ BgStep(r, {"handoff", "report"}, "gone") /\ UNCHANGED excused
        /\ unrecorded' = IF o = "ok" THEN unrecorded ELSE unrecorded \cup {r}
    BY DEF HandoffFails
  <1>5. TaskStep(r)
    BY <1>1, <1>3, <1>4, BgStepType DEF TypeOK
  <1>6. task[r] \in {"handoff", "report"} /\ task'[r] = "gone"
    BY <1>1, <1>4 DEF BgStep, Becomes, TypeOK
  <1>7. row[r].json = "null"
    BY <1>6 DEF RunInv, OutputWhenSettled, Unsettled
  <1>8. RunInv(r)'
    BY <1>2, <1>3, <1>4, <1>6, <1>7 DEF RunInv, OutputWhenSettled, HandoffInOrder, HasOutput,
       HasOwner, Unsettled, Unfinished
  <1>9. Kept(r)
    BY <1>2, <1>3, <1>7 DEF Kept, Fetchable
  <1>10. QED
    BY <1>5, <1>8, <1>9

LEMMA HandoffIsConfirmed ==
    ASSUME TypeOK, NEW r \in BgRuns, RunInv(r), NEW o \in IpcOutcomes, HandoffConfirmed(r, o)
    PROVE  TaskStep(r) /\ RunInv(r)' /\ Kept(r)
  <1>1. r \in Runs /\ row \in RowTypes
    BY RowsTyped DEF Runs
  <1>2. /\ Spawned(r).status = "running" /\ Spawned(r).json = row[r].json
        /\ Spawned(r).dstat = "pending"
    BY <1>1, SpawnedFields
  <1>3. OnlyRow(r) /\ row'[r] = IF o = "down" THEN row[r] ELSE Spawned(r)
    BY <1>1, MarksSpawned DEF HandoffConfirmed
  <1> DEFINE t == IF o = "ok" THEN "spawned" ELSE "report"
  <1>4. /\ BgStep(r, {"handoff"}, t) /\ UNCHANGED <<excused, unrecorded>>
        /\ t \in TaskStates
    BY DEF HandoffConfirmed, TaskStates, BgActive
  <1>5. TaskStep(r)
    BY <1>1, <1>3, <1>4, BgStepType DEF TypeOK
  <1>6. task[r] = "handoff" /\ task'[r] = t
    BY <1>1, <1>4 DEF BgStep, Becomes, TypeOK
  <1>7. row[r].json = "null"
    BY <1>6 DEF RunInv, OutputWhenSettled, Unsettled
  <1>8. RunInv(r)'
    BY <1>2, <1>3, <1>4, <1>6, <1>7 DEF RunInv, OutputWhenSettled, HandoffInOrder, HasOutput,
       HasOwner, Unsettled, Unfinished, BgActive
  <1>9. Kept(r)
    BY <1>2, <1>3, <1>7 DEF Kept, Fetchable
  <1>10. QED
    BY <1>5, <1>8, <1>9

LEMMA BgSettles ==
    ASSUME TypeOK, NEW r \in BgRuns, RunInv(r), NEW o \in IpcOutcomes,
           NEW s \in {"success", "failed"}, NEW json \in {"result", "failure"},
           NEW from \in SUBSET {"spawned", "refused"}, NEW t \in {"gone", "refused"},
           BgStep(r, from, t), PersistRunOutput(o, r, s, TRUE, json), UNCHANGED unrecorded
    PROVE  TaskStep(r) /\ RunInv(r)' /\ Kept(r)
  <1> DEFINE req == TRUE
  <1>1. /\ r \in Runs /\ s \in Statuses /\ json \in Jsons /\ t \in TaskStates
        /\ req \in BOOLEAN /\ PersistRunOutput(o, r, s, req, json)
    BY DEF Runs, Statuses, Jsons, TaskStates, BgActive
  <1> HIDE DEF req
  <1>2. \/ o = "down" /\ row'[r] = row[r] /\ excused' = excused
        \/ /\ o # "down" /\ row'[r].status = s /\ row'[r].json = json
           /\ row'[r].required = req /\ row'[r].dstat = IF req THEN "pending" ELSE "none"
           /\ row'[r].handoff = row[r].handoff
           /\ excused' = IF row[r].json # "null" THEN excused \cup {r} ELSE excused
    BY <1>1, Recorded
  <1>3. TaskStep(r)
    BY <1>1, BgStepType, ExcusedGrows, Persists DEF TypeOK
  <1>4. task[r] \in {"spawned", "refused"} /\ task'[r] = t
    BY <1>1 DEF BgStep, Becomes, TypeOK
  <1>5. RunInv(r)'
    BY <1>1, <1>2, <1>4 DEF RunInv, OutputWhenSettled, HandoffInOrder, HasOutput, HasOwner,
       Unsettled, Unfinished, Jsons
  <1>6. Kept(r)
    BY <1>2, <1>4 DEF Kept, Fetchable, Eligible, req
  <1>7. QED
    BY <1>3, <1>5, <1>6

LEMMA ProducerStep ==
    ASSUME TypeOK, NEW r \in Runs, RunInv(r), Producer(r)
    PROVE  TaskStep(r) /\ RunInv(r)' /\ Kept(r)
  <1>1. PICK o \in IpcOutcomes :
            \/ /\ r \in CronRuns
               /\ \/ \E j \in Jobs, f \in BOOLEAN : StartCron(r, j, f, o)
                  \/ \E notify \in BOOLEAN : CronSucceeds(r, notify, o)
                  \/ CronAborts(r, o) \/ CronUnparsable(r, o) \/ CronCleanup(r, o)
                  \/ CronFails(r, o) \/ CronReports(r, o)
            \/ /\ r \in BgRuns
               /\ \/ EnqueueBackground(r, o)
                  \/ HandoffFails(r, o) \/ HandoffConfirmed(r, o)
                  \/ BgSucceeds(r, o) \/ BgFails(r, o)
    BY DEF Producer
  <1> DEFINE Goal == TaskStep(r) /\ RunInv(r)' /\ Kept(r)
  <1>2. CASE r \in CronRuns /\ \E j \in Jobs, f \in BOOLEAN : StartCron(r, j, f, o)
    BY <1>2, CronStarts
  <1>3. ASSUME r \in CronRuns, NEW notify \in BOOLEAN, CronSucceeds(r, notify, o)
        PROVE  Goal
    <2> DEFINE req == notify \/ r \in forced
               t == IF o = "ok" THEN "gone" ELSE "cleanup"
    <2>1. /\ CronStep(r, "running", t) /\ PersistRunOutput(o, r, "success", req, "result")
          /\ req \in BOOLEAN /\ t \in {"gone", "cleanup"}
      BY <1>3 DEF CronSucceeds
    <2> HIDE DEF req, t
    <2>2. QED
      BY <1>3, <2>1, CronSettles DEF Jsons
  <1>4. ASSUME r \in CronRuns, CronUnparsable(r, o)
        PROVE  Goal
    <2> DEFINE t == IF o = "ok" THEN "gone" ELSE "cleanup"
               req == FALSE
    <2>1. /\ CronStep(r, "running", t) /\ PersistRunOutput(o, r, "failed", req, "null")
          /\ t \in {"gone", "cleanup"} /\ req \in BOOLEAN
      BY <1>4 DEF CronUnparsable
    <2> HIDE DEF t, req
    <2>2. QED
      BY <1>4, <2>1, CronSettles DEF Jsons
  <1>5. ASSUME r \in CronRuns, CronReports(r, o)
        PROVE  Goal
    <2> DEFINE req == TRUE
    <2>1. /\ CronStep(r, "reflecting", "gone")
          /\ PersistRunOutput(o, r, "failed", req, "failure") /\ req \in BOOLEAN
      BY <1>5 DEF CronReports
    <2> HIDE DEF req
    <2>2. QED
      BY <1>5, <2>1, CronSettles DEF Jsons
  <1>6. CASE r \in CronRuns /\ (CronAborts(r, o) \/ CronCleanup(r, o) \/ CronFails(r, o))
    BY <1>6, CronFinishes DEF CronAborts, CronCleanup, CronFails
  <1>7. CASE r \in BgRuns /\ EnqueueBackground(r, o)
    BY <1>7, BgEnqueues
  <1>8. CASE r \in BgRuns /\ (HandoffFails(r, o) \/ HandoffConfirmed(r, o))
    BY <1>8, HandoffIsFailed, HandoffIsConfirmed
  <1>9. CASE r \in BgRuns /\ BgSucceeds(r, o)
    <2> DEFINE t == IF o = "ok" THEN "gone" ELSE "refused"
    <2>1. /\ BgStep(r, {"spawned"}, t) /\ PersistRunOutput(o, r, "success", TRUE, "result")
          /\ UNCHANGED unrecorded /\ t \in {"gone", "refused"}
      BY <1>9 DEF BgSucceeds
    <2> HIDE DEF t
    <2>2. QED
      BY <1>9, <2>1, BgSettles
  <1>10. CASE r \in BgRuns /\ BgFails(r, o)
    BY <1>10, BgSettles DEF BgFails
  <1>11. QED
    BY <1>1, <1>2, <1>3, <1>4, <1>5, <1>6, <1>7, <1>8, <1>9, <1>10

-----------------------------------------------------------------------------
(* Types of the other steps.                                                *)

LEMMA TaskStepType ==
    ASSUME TypeOK, NEW r \in Runs, TaskStep(r)
    PROVE  TypeOK'
  <1>1. row' \in [Runs -> RowType]
    BY DEF TaskStep, OnlyRow, RowTypes
  <1>2. task' \in [Runs -> TaskStates]
    BY DEF TaskStep, Becomes, TypeOK, TaskStates
  <1>3. QED
    BY <1>1, <1>2 DEF TaskStep, OnlyRow, TypeOK, TaskStates

(* The variables of the delivery loop.                                      *)
LoopType ==
    /\ dl \in {"sleep", "fetch", "dedup", "gate", "session", "stop", "mark", "ended"}
              \cup Sending
    /\ cur \in Runs \cup {NoRun}
    /\ (cur = NoRun) <=> dl \in {"sleep", "fetch", "ended"}
    /\ reply \in {"none", "text", "both", "files"}
    /\ urgent \in BOOLEAN /\ body \in BOOLEAN /\ side \in BOOLEAN /\ idle \in BOOLEAN
    /\ outcome \in {"none", "delivered", "denied", "failed"}
    /\ mem \subseteq Runs /\ att \in [Runs -> 0..(MaxAttempts - 1)]
    /\ sent \in [Runs -> 0..2]

LEMMA LoopTyped == TypeOK => LoopType
  BY DEF TypeOK, LoopType

LEMMA LoopStepType ==
    ASSUME TypeOK, LoopType', row' \in RowTypes, finished' \subseteq Runs \X Runs,
           faults' \in 0..MaxFaults, UNCHANGED <<task, forced, phase, stops>>,
           excused' \subseteq Runs, unrecorded' \subseteq Runs
    PROVE  TypeOK'
  BY DEF TypeOK, LoopType, RowTypes

LEMMA NoAttemptType ==
    ASSUME LoopType, NoAttempt, dl' \in {"sleep", "fetch", "ended"}, mem' \subseteq Runs,
           att' \in [Runs -> 0..(MaxAttempts - 1)], idle' \in BOOLEAN, UNCHANGED sent
    PROVE  LoopType'
  BY AsyncRunsAssumption DEF LoopType, NoAttempt, Runs

LEMMA BackLoopType ==
    ASSUME LoopType, NEW progress \in BOOLEAN, Back(progress), mem' \subseteq Runs,
           att' \in [Runs -> 0..(MaxAttempts - 1)], idle' \in BOOLEAN, UNCHANGED sent
    PROVE  LoopType'
  <1>1. dl' \in {"sleep", "fetch", "ended"} /\ NoAttempt
    BY DEF Back
  <1>2. QED
    BY <1>1, NoAttemptType

LEMMA FailType ==
    ASSUME LoopType, cur \in Runs, Fail, mem' \subseteq Runs, idle' \in BOOLEAN,
           sent' \in [Runs -> 0..2]
    PROVE  LoopType'
  <1>1. MaxAttempts \in Nat \ {0} /\ NoRun \notin Runs
    BY AsyncRunsAssumption DEF Runs
  <1>2. CASE att[cur] + 1 >= MaxAttempts
    BY <1>1, <1>2 DEF Fail, Concludes, LoopType
  <1>3. CASE ~(att[cur] + 1 >= MaxAttempts)
    <2>1. att' \in [Runs -> 0..(MaxAttempts - 1)]
      BY <1>1, <1>3 DEF Fail, LoopType
    <2>2. QED
      BY <1>1, <1>3, <2>1 DEF Fail, Back, NoAttempt, LoopType
  <1>4. QED
    BY <1>2, <1>3

LEMMA AttResetType ==
    ASSUME LoopType, att' = [att EXCEPT ![cur] = 0]
    PROVE  att' \in [Runs -> 0..(MaxAttempts - 1)]
  <1>1. 0 \in 0..(MaxAttempts - 1)
    BY AsyncRunsAssumption
  <1>2. att \in [Runs -> 0..(MaxAttempts - 1)]
    BY DEF LoopType
  <1>3. QED
    BY <1>1, <1>2

LEMMA ArrivesType ==
    ASSUME LoopType, cur \in Runs, BodyArrives
    PROVE  sent' \in [Runs -> 0..2]
  BY DEF LoopType, BodyArrives

LEMMA ArrivalType ==
    ASSUME TypeOK, cur \in Runs, NEW result, Arrival(result)
    PROVE  sent' \in [Runs -> 0..2] /\ excused \subseteq excused' /\ excused' \subseteq Runs
  BY LoopTyped, ArrivesType DEF Arrival, TypeOK, LoopType

LEMMA CurIsRun ==
    ASSUME TypeOK, dl \notin {"sleep", "fetch", "ended"}
    PROVE  cur \in Runs /\ cur # NoRun
  BY DEF TypeOK

(* The steps of the loop that write nothing.                                *)
Quiet ==
    \/ Poll \/ LoopEnds \/ ChatActive \/ ChatQuiet
    \/ FetchNone \/ FetchFails \/ FetchNext \/ Hold
    \/ GateDenied \/ GateLookupFails \/ GateReady
    \/ SessionFails \/ Interrupted
    \/ \E shape \in {"text", "both", "files"} : SessionReplies(shape)
    \/ \E result \in SendResults : Text(result) \/ Files(result)
    \/ \E ok \in BOOLEAN : Header(ok) \/ OutcomeUnknown(ok)

QuietFrame ==
    /\ UNCHANGED <<row, finished, task, forced, phase, stops, unrecorded>>
    /\ faults' \in 0..MaxFaults /\ excused \subseteq excused' /\ excused' \subseteq Runs

LEMMA QuietSteps ==
    ASSUME TypeOK, Quiet
    PROVE  QuietFrame /\ LoopType'
  <1> USE LoopTyped DEF QuietFrame, producers, ghosts, attempt
  <1>0. faults \in 0..MaxFaults /\ excused \subseteq Runs
    BY DEF TypeOK
  <1>1. CASE Poll \/ LoopEnds \/ ChatActive \/ ChatQuiet
    <2>1. CASE Poll
      BY <1>0, <2>1 DEF Poll, LoopType
    <2>2. CASE LoopEnds
      BY <1>0, <2>2 DEF LoopEnds, LoopType
    <2>3. CASE ChatActive
      BY <1>0, <2>3 DEF ChatActive, LoopType
    <2>4. CASE ChatQuiet
      BY <1>0, <2>4 DEF ChatQuiet, LoopType
    <2>5. QED
      BY <1>1, <2>1, <2>2, <2>3, <2>4
  <1>2. CASE FetchNone \/ Hold
    BY <1>0, <1>2, BackLoopType DEF FetchNone, Hold, LoopType
  <1>3. CASE FetchFails \/ GateLookupFails
    BY <1>0, <1>3, BackLoopType, IpcType DEF FetchFails, GateLookupFails, LoopType
  <1>4. CASE FetchNext
    BY <1>0, <1>4, AsyncRunsAssumption DEF FetchNext, LoopType, Runs, TypeOK, RowType
  <1>5. CASE GateDenied
    BY <1>0, <1>5, CurIsRun DEF GateDenied, Concludes, LoopType
  <1>6. CASE GateReady
    BY <1>0, <1>6, CurIsRun DEF GateReady, LoopType
  <1>7. CASE SessionFails
    BY <1>0, <1>7, CurIsRun, FailType DEF SessionFails, LoopType
  <1>8. CASE Interrupted
    <2>1. cur \in Runs /\ cur # NoRun
      BY <1>8, CurIsRun DEF Interrupted, Sending
    <2>2. CASE side
      <3>1. att' \in [Runs -> 0..(MaxAttempts - 1)]
        BY <1>8, <2>2, AttResetType DEF Interrupted
      <3>2. QED
        BY <1>0, <1>8, <2>1, <2>2, <3>1 DEF Interrupted, Concludes, LoopType
    <2>3. CASE ~side
      BY <1>0, <1>8, <2>3, BackLoopType DEF Interrupted, LoopType
    <2>4. QED
      BY <2>2, <2>3
  <1>9. ASSUME NEW shape \in {"text", "both", "files"}, SessionReplies(shape)
        PROVE  QuietFrame /\ LoopType'
    BY <1>0, <1>9 DEF SessionReplies, LoopType, Sending
  <1>10. ASSUME NEW result \in SendResults, Text(result)
         PROVE  QuietFrame /\ LoopType'
    <2>1. cur \in Runs /\ cur # NoRun
      BY <1>10, CurIsRun DEF Text
    <2>2. /\ sent' \in [Runs -> 0..2] /\ excused \subseteq excused' /\ excused' \subseteq Runs
      BY <1>10, <2>1, ArrivalType DEF Text
    <2>3. CASE reply = "both"
      BY <1>0, <1>10, <2>1, <2>2, <2>3 DEF Text, Begin, LoopType, Sending
    <2>4. CASE reply # "both" /\ result = "sent"
      BY <1>0, <1>10, <2>1, <2>2, <2>4 DEF Text, Concludes, LoopType
    <2>5. CASE reply # "both" /\ result # "sent"
      BY <1>0, <1>10, <2>1, <2>2, <2>5, FailType DEF Text, LoopType
    <2>6. QED
      BY <2>3, <2>4, <2>5
  <1>11. ASSUME NEW result \in SendResults, Files(result)
         PROVE  QuietFrame /\ LoopType'
    <2>1. cur \in Runs /\ cur # NoRun
      BY <1>11, CurIsRun DEF Files
    <2>2. /\ sent' \in [Runs -> 0..2] /\ excused \subseteq excused' /\ excused' \subseteq Runs
      BY <1>11, <2>1, ArrivalType DEF Files
    <2>3. CASE result = "sent" \/ ~AttachmentFailureIsFatal
      BY <1>0, <1>11, <2>1, <2>2, <2>3 DEF Files, Concludes, LoopType
    <2>4. CASE ~(result = "sent" \/ ~AttachmentFailureIsFatal)
      BY <1>0, <1>11, <2>1, <2>2, <2>4, FailType DEF Files, LoopType
    <2>5. QED
      BY <2>3, <2>4
  <1>12. ASSUME NEW ok \in BOOLEAN, Header(ok)
         PROVE  QuietFrame /\ LoopType'
    <2>1. cur \in Runs /\ cur # NoRun
      BY <1>12, CurIsRun DEF Header
    <2>2. CASE ok
      BY <1>0, <1>12, <2>1, <2>2 DEF Header, Begin, LoopType, Sending
    <2>3. CASE ~ok
      BY <1>0, <1>12, <2>1, <2>3, FailType DEF Header, LoopType
    <2>4. QED
      BY <2>2, <2>3
  <1>13. ASSUME NEW ok \in BOOLEAN, OutcomeUnknown(ok)
         PROVE  QuietFrame /\ LoopType'
    <2>1. cur \in Runs /\ cur # NoRun
      BY <1>13, CurIsRun DEF OutcomeUnknown, Sending
    <2>2. sent' \in [Runs -> 0..2]
      BY <1>13, <2>1, ArrivesType DEF OutcomeUnknown, LoopType
    <2>3. att' \in [Runs -> 0..(MaxAttempts - 1)]
      BY <1>13, AttResetType DEF OutcomeUnknown
    <2>4. QED
      BY <1>0, <1>13, <2>1, <2>2, <2>3 DEF OutcomeUnknown, Concludes, LoopType
  <1>14. QED
    BY <1>1, <1>2, <1>3, <1>4, <1>5, <1>6, <1>7, <1>8, <1>9, <1>10, <1>11, <1>12, <1>13 DEF Quiet

(* The steps of the loop that write the delivery status of one run or, to   *)
(* deduplicate, of several.                                                 *)
Marking == \E o \in IpcOutcomes : FetchRemembered(o) \/ Dedup(o) \/ GateRemembered(o) \/ Mark(o)

(* The rows differ from the last ones in their delivery status only.        *)
OnlyDstat(r) ==
    /\ row'[r].status = row[r].status /\ row'[r].json = row[r].json
    /\ row'[r].handoff = row[r].handoff /\ row'[r].required = row[r].required

MarkFrame ==
    /\ row' \in RowTypes /\ \A r \in Runs : OnlyDstat(r)
    /\ UNCHANGED <<finished, task, forced, phase, stops, excused>>
    /\ faults' \in 0..MaxFaults /\ unrecorded \subseteq unrecorded' /\ unrecorded' \subseteq Runs

LEMMA OutcomeFrame ==
    ASSUME TypeOK, NEW o, NEW r \in Runs,
           NEW s \in {"none", "delivered", "denied", "failed"}, DeliveryMarkOutcome(o, r, s)
    PROVE  /\ row' \in RowTypes /\ faults' \in 0..MaxFaults /\ UNCHANGED finished
           /\ \A q \in Runs : OnlyDstat(q)
           /\ \A q \in Runs \ {r} : row'[q] = row[q]
           /\ row'[r].dstat = IF o = "down" THEN row[r].dstat ELSE s
  <1> DEFINE x == [row[r] EXCEPT !.dstat = s]
  <1>0. s \in {"none", "pending", "delivered", "denied", "failed", "superseded"}
    OBVIOUS
  <1>1. /\ x.status = row[r].status /\ x.json = row[r].json /\ x.handoff = row[r].handoff
        /\ x.required = row[r].required /\ x.dstat = s /\ x \in RowType
    BY <1>0, RowsTyped, OutcomeFields
  <1>2. /\ Ipc(o) /\ UNCHANGED finished
        /\ row' = IF o = "down" THEN row ELSE [row EXCEPT ![r] = x]
    BY DEF DeliveryMarkOutcome
  <1> HIDE DEF x
  <1>3. OnlyRow(r) /\ row'[r] = IF o = "down" THEN row[r] ELSE x
    BY <1>1, <1>2, Writes
  <1>4. QED
    BY <1>1, <1>2, <1>3 DEF OnlyRow, OnlyDstat

LEMMA SupersededRows ==
    ASSUME TypeOK, NEW S \in SUBSET Runs, row' = Superseded(S)
    PROVE  /\ row' \in RowTypes
           /\ \A r \in Runs : OnlyDstat(r)
           /\ \A r \in Runs : IF r \in S /\ Eligible(r) THEN row'[r].dstat = "superseded"
                                                        ELSE row'[r] = row[r]
  <1> DEFINE x(r) == [row[r] EXCEPT !.dstat = "superseded"]
  <1>1. \A r \in Runs : /\ x(r) \in RowType /\ x(r).status = row[r].status
                        /\ x(r).json = row[r].json /\ x(r).handoff = row[r].handoff
                        /\ x(r).required = row[r].required /\ x(r).dstat = "superseded"
    BY RowsTyped, OutcomeFields
  <1>2. row' = [r \in Runs |-> IF r \in S /\ Eligible(r) THEN x(r) ELSE row[r]]
    BY DEF Superseded
  <1>3. \A r \in Runs : row[r] \in RowType
    BY RowsTyped, RowAt
  <1> HIDE DEF x
  <1>4. \A r \in Runs : row'[r] = IF r \in S /\ Eligible(r) THEN x(r) ELSE row[r]
    BY <1>2
  <1>5. row' \in RowTypes
    BY <1>1, <1>2, <1>3 DEF RowTypes
  <1>6. QED
    BY <1>1, <1>4, <1>5 DEF OnlyDstat

LEMMA UnchangedRows ==
    ASSUME TypeOK, UNCHANGED row
    PROVE  row' \in RowTypes /\ \A r \in Runs : OnlyDstat(r)
  BY RowsTyped DEF OnlyDstat

LEMMA MarkingSteps ==
    ASSUME TypeOK, Marking
    PROVE  MarkFrame /\ LoopType'
  <1> USE LoopTyped DEF attempt, ghosts
  <1>0. excused \subseteq Runs /\ unrecorded \subseteq Runs /\ mem \subseteq Runs
    BY DEF TypeOK
  <1>1. ASSUME NEW o \in IpcOutcomes, FetchRemembered(o)
        PROVE  MarkFrame /\ LoopType'
    <2>1. PICK r \in mem : OldestPending(r) /\ DeliveryMarkOutcome(o, r, "delivered")
      BY <1>1 DEF FetchRemembered
    <2>2. MarkFrame
      BY <1>0, <1>1, <2>1, OutcomeFrame DEF FetchRemembered, MarkFrame
    <2>3. LoopType'
      BY <1>1, BackLoopType DEF FetchRemembered, LoopType
    <2>4. QED
      BY <2>2, <2>3
  <1>2. ASSUME NEW o \in IpcOutcomes, Dedup(o)
        PROVE  MarkFrame /\ LoopType'
    <2> DEFINE job == OfJob(row[cur].job)
               grouped == {r \in job : Fetchable(r)}
    <2>1. job \subseteq Runs
      BY DEF OfJob, Runs
    <2>2. faults' \in 0..MaxFaults
      BY <1>2, IpcType DEF Dedup
    <2>3. CASE grouped = {}
      <3>1. Back(FALSE) /\ UNCHANGED row
        BY <1>2, <2>3 DEF Dedup
      <3>2. MarkFrame
        BY <1>0, <1>2, <2>2, <3>1, UnchangedRows DEF Dedup, MarkFrame, producers
      <3>3. LoopType'
        BY <1>2, <3>1, BackLoopType DEF Dedup, LoopType
      <3>4. QED
        BY <3>2, <3>3
    <2>4. CASE grouped # {}
      <3>1. PICK kept \in grouped :
                /\ row' = IF o = "down" THEN row ELSE Superseded(job \ {kept})
                /\ IF o # "ok"
                     THEN Back(FALSE)
                     ELSE /\ cur' = kept /\ dl' = "gate"
                          /\ urgent' = \E r \in grouped : row[r].force
                          /\ UNCHANGED <<reply, body, side, outcome>>
        BY <1>2, <2>4 DEF Dedup
      <3>2. row' \in RowTypes /\ \A r \in Runs : OnlyDstat(r)
        BY <2>1, <3>1, SupersededRows, UnchangedRows
      <3>3. MarkFrame
        BY <1>0, <1>2, <2>2, <3>2 DEF Dedup, MarkFrame, producers
      <3>4. LoopType'
        <4>1. CASE o # "ok"
          BY <1>2, <3>1, <4>1, BackLoopType DEF Dedup, LoopType
        <4>2. CASE o = "ok"
          <5>1. kept \in Runs /\ kept # NoRun
            BY <2>1, AsyncRunsAssumption DEF Runs
          <5>2. urgent' \in BOOLEAN
            BY <3>1, <4>2
          <5>3. QED
            BY <1>2, <3>1, <4>2, <5>1, <5>2 DEF Dedup, LoopType
        <4>3. QED
          BY <4>1, <4>2
      <3>5. QED
        BY <3>3, <3>4
    <2>5. QED
      BY <2>3, <2>4
  <1>3. ASSUME NEW o \in IpcOutcomes, GateRemembered(o)
        PROVE  MarkFrame /\ LoopType'
    <2>1. cur \in Runs /\ DeliveryMarkOutcome(o, cur, "delivered")
      BY <1>3, CurIsRun DEF GateRemembered
    <2>2. MarkFrame
      BY <1>0, <1>3, <2>1, OutcomeFrame DEF GateRemembered, MarkFrame
    <2>3. LoopType'
      BY <1>0, <1>3, BackLoopType DEF GateRemembered, LoopType
    <2>4. QED
      BY <2>2, <2>3
  <1>4. ASSUME NEW o \in IpcOutcomes, Mark(o)
        PROVE  MarkFrame /\ LoopType'
    <2>1. cur \in Runs /\ DeliveryMarkOutcome(o, cur, outcome)
      BY <1>4, CurIsRun DEF Mark
    <2>2. outcome \in {"none", "delivered", "denied", "failed"}
      BY DEF TypeOK
    <2>3. unrecorded \subseteq unrecorded' /\ unrecorded' \subseteq Runs /\ mem' \subseteq Runs
      BY <1>0, <1>4, <2>1 DEF Mark, Remembered
    <2>4. MarkFrame
      BY <1>4, <2>1, <2>2, <2>3, OutcomeFrame DEF Mark, MarkFrame
    <2>5. idle' \in BOOLEAN
      BY <1>4 DEF Mark, LoopType
    <2>6. LoopType'
      BY <1>4, <2>3, <2>5, BackLoopType DEF Mark, LoopType
    <2>7. QED
      BY <2>4, <2>6
  <1>5. QED
    BY <1>1, <1>2, <1>3, <1>4 DEF Marking

-----------------------------------------------------------------------------
(* Shutdown, crash and restart.                                             *)

(* The process ends or only its delivery loop starts over.                  *)
LEMMA FreshLoopType ==
    ASSUME TypeOK, NEW at \in {"sleep", "fetch", "ended"}, FreshLoop(at), idle' \in BOOLEAN,
           UNCHANGED sent
    PROVE  LoopType' /\ excused \subseteq excused' /\ excused' \subseteq Runs
  <1>1. mem' \subseteq Runs
    BY DEF FreshLoop
  <1>2. att' \in [Runs -> 0..(MaxAttempts - 1)]
    <2>1. 0 \in 0..(MaxAttempts - 1)
      BY AsyncRunsAssumption
    <2>2. QED
      BY <2>1 DEF FreshLoop
  <1>3. Forgets \subseteq Runs
    <2>1. dl \in Sending \cup {"stop", "mark"} => cur \in Runs
      BY CurIsRun DEF Sending
    <2>2. QED
      BY <2>1 DEF Forgets, TypeOK
  <1>4. LoopType'
    BY <1>1, <1>2, LoopTyped, NoAttemptType DEF FreshLoop
  <1>5. QED
    BY <1>3, <1>4 DEF FreshLoop, TypeOK

HaltFrame ==
    /\ phase' = "down" /\ FreshLoop("ended") /\ UNCHANGED <<ledger, unrecorded, sent>>
    /\ task' = [r \in Runs |-> IF task[r] = "none" THEN "none" ELSE "gone"]

LEMMA HaltStep ==
    ASSUME TypeOK, AbortLoop \/ Exit \/ Crash
    PROVE  TypeOK' /\ HaltFrame
  <1>1. Halt /\ stops' \in 0..MaxStops
    BY AsyncRunsAssumption DEF AbortLoop, Exit, Crash, TypeOK
  <1>2. LoopType' /\ excused' \subseteq Runs
    BY <1>1, FreshLoopType DEF Halt
  <1>3. task' \in [Runs -> TaskStates]
    BY <1>1 DEF Halt, TaskStates
  <1>4. TypeOK'
    BY <1>1, <1>2, <1>3 DEF Halt, TypeOK, LoopType, TaskStates, ledger
  <1>5. QED
    BY <1>1, <1>4 DEF Halt, HaltFrame

FlushFrame ==
    /\ phase' = "flush" /\ phase # "down" /\ FreshLoop("fetch")
    /\ UNCHANGED <<ledger, task, unrecorded, sent>>

LEMMA FlushStep ==
    ASSUME TypeOK, StartFlush
    PROVE  TypeOK' /\ FlushFrame
  <1>1. LoopType' /\ excused' \subseteq Runs
    BY FreshLoopType DEF StartFlush, TypeOK
  <1>2. TypeOK'
    BY <1>1 DEF StartFlush, TypeOK, LoopType, ledger
  <1>3. QED
    BY <1>2 DEF StartFlush, FlushFrame

(* The shutdown goes on without the loop noticing.                          *)
PhaseFrame ==
    /\ phase # "down" /\ phase' # "down"
    /\ UNCHANGED <<ledger, task, dl, attempt, mem, att, idle, ghosts>>

LEMMA PhaseStep ==
    ASSUME TypeOK, BeginShutdown \/ CronStopped
    PROVE  TypeOK' /\ PhaseFrame
  <1>1. CASE BeginShutdown
    BY <1>1, AsyncRunsAssumption
       DEF BeginShutdown, TypeOK, PhaseFrame, ledger, attempt, ghosts
  <1>2. CASE CronStopped
    BY <1>2 DEF CronStopped, TypeOK, PhaseFrame, ledger, attempt, ghosts
  <1>3. QED
    BY <1>1, <1>2

(* The rows of S are given up by a step that is not their task's: all of    *)
(* them were still running or queued.                                       *)
AbortedRow(q) == [row[q] EXCEPT !.status = "failed", !.required = TRUE, !.dstat = "pending"]

LEMMA AbortedFields ==
    ASSUME row \in RowTypes, NEW q \in Runs
    PROVE  /\ AbortedRow(q) \in RowType /\ AbortedRow(q).status = "failed"
           /\ AbortedRow(q).json = row[q].json /\ AbortedRow(q).dstat = "pending"
  BY RowAt DEF RowType, AbortedRow

RunningOf(j) == {q \in OfJob(j) : row[q].status = "running"}

AbortFrame(r) ==
    /\ phase = "draining" /\ task[r] \in CronActive /\ Becomes(r, "gone")
    /\ row' \in RowTypes
    /\ \A q \in Runs : \/ row'[q] = row[q]
                       \/ /\ row[q].status = "running" /\ row'[q].status = "failed"
                          /\ row'[q].json = row[q].json /\ row'[q].dstat = "pending"
    /\ UNCHANGED <<phase, dl, attempt, mem, att, idle, ghosts>>

LEMMA AbortStep ==
    ASSUME TypeOK, NEW r \in CronRuns, Aborts(r)
    PROVE  TypeOK' /\ AbortFrame(r)
  <1> DEFINE running == RunningOf(row[r].job)
  <1>0. PICK o \in IpcOutcomes : AbortCron(r, o)
    BY DEF Aborts
  <1>1. row \in RowTypes /\ running \subseteq Runs /\ r \in Runs
    BY RowsTyped DEF RunningOf, OfJob, Runs
  <1>2. faults' \in 0..MaxFaults
    BY <1>0, IpcType DEF AbortCron
  <1>3. \/ UNCHANGED ledger
        \/ /\ row' = [q \in Runs |-> IF q \in running THEN AbortedRow(q) ELSE row[q]]
           /\ \E ord \in Orders(running) : finished' = FinishTogether(running, ord)
    BY <1>0 DEF AbortCron, RunningOf, AbortedRow
  <1>4. \A q \in Runs : /\ AbortedRow(q) \in RowType /\ AbortedRow(q).status = "failed"
                        /\ AbortedRow(q).json = row[q].json /\ AbortedRow(q).dstat = "pending"
                        /\ row[q] \in RowType
    BY <1>1, AbortedFields, RowAt
  <1>5. finished' \subseteq Runs \X Runs
    BY <1>1, <1>3, FinishTogetherType DEF Orders, ledger, TypeOK
  <1>6. /\ row' \in RowTypes
        /\ \A q \in Runs : row'[q] = row[q] \/ (q \in running /\ row'[q] = AbortedRow(q))
    BY <1>1, <1>3, <1>4 DEF RowTypes, ledger
  <1>7. \A q \in running : row[q].status = "running"
    BY DEF RunningOf
  <1> HIDE DEF running
  <1>8. AbortFrame(r)
    BY <1>0, <1>1, <1>4, <1>6, <1>7 DEF AbortCron, AbortFrame
  <1>9. task' \in [Runs -> TaskStates]
    BY <1>1, <1>8 DEF AbortFrame, Becomes, TypeOK, TaskStates
  <1>10. TypeOK'
    <2>1. row' \in [Runs -> RowType]
      BY <1>6 DEF RowTypes
    <2>2. QED
      BY <1>0, <1>2, <1>5, <1>9, <2>1 DEF AbortCron, TypeOK, TaskStates, attempt, ghosts
  <1>11. QED
    BY <1>8, <1>10

RestartFrame ==
    /\ phase = "down" /\ phase' # "down" /\ dl' = "sleep" /\ row' \in RowTypes
    /\ \A q \in Runs : row[q].status = "queued" /\ row[q].handoff = "queued" /\ q \in BgRuns =>
          /\ row'[q].status = "failed" /\ row'[q].json = "failure"
          /\ row'[q].dstat = "pending" /\ row'[q].handoff = "failed"
    /\ \A q \in Runs : row'[q] = row[q] \/ (row[q].status = "queued" /\ q \in BgRuns
                                            /\ row[q].handoff = "queued")
    /\ \A q \in unrecorded \ unrecorded' : row'[q].dstat = "pending"
    /\ UNCHANGED <<task, attempt, mem, sent, excused>>

LEMMA RestartStep ==
    ASSUME TypeOK, NothingWhenDown, Restart
    PROVE  TypeOK' /\ RestartFrame
  <1> DEFINE lost == {r \in BgRuns : Interruptible(r)}
  <1>1. row \in RowTypes /\ lost \subseteq Runs
    BY RowsTyped DEF Runs
  <1>2. /\ row' = [q \in Runs |-> IF q \in lost THEN Unhandled(q) ELSE row[q]]
        /\ \E ord \in Orders(lost) : finished' = FinishTogether(lost, ord)
        /\ unrecorded' = unrecorded \ lost
    BY DEF Restart, Unhandled
  <1>3. \A q \in Runs : /\ Unhandled(q) \in RowType /\ Unhandled(q).status = "failed"
                        /\ Unhandled(q).dstat = "pending" /\ Unhandled(q).json = "failure"
                        /\ Unhandled(q).handoff = "failed" /\ row[q] \in RowType
    BY <1>1, UnhandledFields, RowAt
  <1>4. finished' \subseteq Runs \X Runs
    BY <1>1, <1>2, FinishTogetherType DEF Orders
  <1>5. /\ row' \in RowTypes
        /\ \A q \in Runs : row'[q] = IF q \in lost THEN Unhandled(q) ELSE row[q]
    BY <1>2, <1>3 DEF RowTypes
  <1>6. \A q \in Runs : q \in lost <=> /\ q \in BgRuns /\ row[q].status = "queued"
                                       /\ row[q].handoff = "queued"
    BY DEF Interruptible
  <1> HIDE DEF lost
  <1>7. RestartFrame
    <2>1. \A q \in Runs : row[q].status = "queued" /\ row[q].handoff = "queued" /\ q \in BgRuns =>
              /\ row'[q].status = "failed" /\ row'[q].json = "failure"
              /\ row'[q].dstat = "pending" /\ row'[q].handoff = "failed"
      BY <1>3, <1>5, <1>6
    <2>2. \A q \in Runs : row'[q] = row[q] \/ (row[q].status = "queued" /\ q \in BgRuns
                                               /\ row[q].handoff = "queued")
      BY <1>5, <1>6
    <2>3. \A q \in unrecorded \ unrecorded' : row'[q].dstat = "pending"
      BY <1>1, <1>2, <1>3, <1>5
    <2>4. /\ phase = "down" /\ phase' # "down" /\ dl' = "sleep"
          /\ UNCHANGED <<task, attempt, mem, sent, excused>>
      BY DEF Restart
    <2>5. QED
      BY <1>5, <2>1, <2>2, <2>3, <2>4 DEF RestartFrame
  <1>8. TypeOK'
    <2>1. row' \in [Runs -> RowType]
      BY <1>5 DEF RowTypes
    <2>2. (cur' = NoRun) <=> dl' \in {"sleep", "fetch", "ended"}
      BY DEF Restart, attempt, TypeOK, NothingWhenDown
    <2>3. QED
      BY <1>2, <1>4, <2>1, <2>2 DEF Restart, TypeOK, attempt
  <1>9. QED
    BY <1>7, <1>8

LEMMA TypeInit == Init => TypeOK
  <1> SUFFICES ASSUME Init PROVE TypeOK
    OBVIOUS
  <1>1. Absent \in RowType
    BY DEF Absent, RowType
  <1>2. row \in [Runs -> RowType]
    BY <1>1 DEF Init
  <1>3. 0 \in 0..(MaxAttempts - 1) /\ 0 \in 0..MaxFaults /\ 0 \in 0..MaxStops /\ 0 \in 0..2
    BY AsyncRunsAssumption
  <1>4. att \in [Runs -> 0..(MaxAttempts - 1)] /\ sent \in [Runs -> 0..2]
    BY <1>3 DEF Init
  <1>5. task \in [Runs -> {"none", "gone"} \cup CronActive \cup BgActive]
    BY DEF Init
  <1>6. QED
    BY <1>2, <1>3, <1>4, <1>5 DEF Init, TypeOK

LEMMA IdleWhenDown ==
    ASSUME TypeOK, NothingWhenDown, phase = "down", NEW r \in Runs, RunInv(r), Producer(r)
    PROVE  FALSE
  <1>1. task[r] \in {"none", "gone"}
    BY DEF NothingWhenDown
  <1>2. QED
    BY <1>1 DEF Producer, StartCron, CronStep, CronAborts, CronSucceeds, CronUnparsable, CronCleanup,
       CronFails, CronReports, EnqueueBackground, BgStep, HandoffFails, HandoffConfirmed,
       BgSucceeds, BgFails

LEMMA TypeStep ==
    ASSUME TypeOK, NothingWhenDown, LedgerInv, [Next]_vars
    PROVE  TypeOK'
  <1>1. ASSUME NEW r \in Runs, Producer(r)
        PROVE  TypeOK'
    BY <1>1, ProducerStep, TaskStepType DEF LedgerInv
  <1>2. CASE Quiet
    <2>1. QuietFrame /\ LoopType'
      BY <1>2, QuietSteps
    <2>2. row' \in RowTypes /\ finished' \subseteq Runs \X Runs /\ unrecorded' \subseteq Runs
      BY <2>1, RowsTyped DEF QuietFrame, TypeOK
    <2>3. QED
      BY <2>1, <2>2, LoopStepType DEF QuietFrame
  <1>3. CASE Marking
    <2>1. MarkFrame /\ LoopType'
      BY <1>3, MarkingSteps
    <2>2. finished' \subseteq Runs \X Runs /\ excused' \subseteq Runs
      BY <2>1 DEF MarkFrame, TypeOK
    <2>3. QED
      BY <2>1, <2>2, LoopStepType DEF MarkFrame
  <1>4. CASE BeginShutdown \/ CronStopped \/ StartFlush \/ AbortLoop \/ Exit \/ Crash \/ Restart
    BY <1>4, PhaseStep, FlushStep, HaltStep, RestartStep
  <1>5. ASSUME NEW r \in CronRuns, Aborts(r)
        PROVE  TypeOK'
    BY <1>5, AbortStep
  <1>6. CASE UNCHANGED vars
    BY <1>6 DEF vars, TypeOK, ledger, attempt, ghosts
  <1>7. QED
    BY <1>1, <1>2, <1>3, <1>4, <1>5, <1>6 DEF Next, Deliver, Quiet, Marking

-----------------------------------------------------------------------------
(* The invariant of tasks and ledger.                                       *)

LEMMA LedgerStep ==
    ASSUME TypeOK, NothingWhenDown, LedgerInv, [Next]_vars
    PROVE  LedgerInv'
  <1> USE DEF LedgerInv
  <1>0. \A q \in Runs : RunInv(q)
    OBVIOUS
  <1>1. ASSUME NEW r \in Runs, Producer(r)
        PROVE  LedgerInv'
    <2>1. TaskStep(r) /\ RunInv(r)'
      BY <1>1, ProducerStep
    <2>2. ASSUME NEW q \in Runs, q # r
          PROVE  RunInv(q)'
      <3>1. /\ row'[q] = row[q] /\ phase' = phase /\ unrecorded \subseteq unrecorded'
            /\ task'[q] = task[q]
        BY <2>1, <2>2 DEF TaskStep, OnlyRow, Becomes, TypeOK
      <3>2. QED
        BY <3>1, <1>0 DEF RunInv, OutputWhenSettled, HandoffInOrder, HasOutput, HasOwner
    <2>3. QED
      BY <2>1, <2>2
  <1>2. ASSUME \A q \in Runs : /\ row'[q].status = row[q].status /\ row'[q].json = row[q].json
                               /\ row'[q].handoff = row[q].handoff,
               UNCHANGED task, unrecorded \subseteq unrecorded', phase = "down" => phase' = "down"
        PROVE  LedgerInv'
    BY <1>2, <1>0 DEF RunInv, OutputWhenSettled, HandoffInOrder, HasOutput, HasOwner
  <1>3. CASE Quiet
    BY <1>2, <1>3, QuietSteps DEF QuietFrame
  <1>4. CASE Marking
    BY <1>2, <1>4, MarkingSteps DEF MarkFrame, OnlyDstat
  <1>5. CASE BeginShutdown \/ CronStopped
    BY <1>2, <1>5, PhaseStep DEF PhaseFrame, ledger, ghosts
  <1>6. CASE StartFlush
    BY <1>2, <1>6, FlushStep DEF FlushFrame, ledger
  <1>7. CASE AbortLoop \/ Exit \/ Crash
    <2>1. /\ row' = row /\ phase' = "down"
          /\ \A q \in Runs : task'[q] = IF task[q] = "none" THEN "none" ELSE "gone"
      BY <1>7, HaltStep DEF HaltFrame, ledger
    <2>2. QED
      BY <1>0, <2>1 DEF RunInv, OutputWhenSettled, HandoffInOrder, HasOutput, HasOwner, Unsettled
  <1>8. ASSUME NEW r \in CronRuns, Aborts(r)
        PROVE  LedgerInv'
    <2>1. AbortFrame(r)
      BY <1>8, AbortStep
    <2>2. ASSUME NEW q \in Runs
          PROVE  RunInv(q)'
      <3>1. /\ task'[q] = task[q] \/ (task'[q] = "gone" /\ task[q] \in CronActive /\ q = r)
            /\ phase' = phase /\ unrecorded' = unrecorded
        BY <2>1 DEF AbortFrame, Becomes, TypeOK, ghosts
      <3>2. \/ row'[q] = row[q]
            \/ /\ row[q].status = "running" /\ row'[q].status = "failed"
               /\ row'[q].json = row[q].json
        BY <2>1 DEF AbortFrame
      <3>3. q = r => q \notin BgRuns
        BY AsyncRunsAssumption
      <3>4. QED
        BY <1>0, <3>1, <3>2, <3>3
           DEF RunInv, OutputWhenSettled, HandoffInOrder, HasOutput, HasOwner, Unsettled,
               Unfinished
    <2>3. QED
      BY <2>2
  <1>9. CASE Restart
    <2>1. RestartFrame
      BY <1>9, RestartStep
    <2>2. ASSUME NEW q \in Runs
          PROVE  RunInv(q)'
      <3>1. task'[q] = task[q] /\ task[q] \in {"none", "gone"}
        BY <2>1 DEF RestartFrame, NothingWhenDown
      <3>2. CASE q \in BgRuns /\ row[q].status = "queued"
        <4>1. row[q].handoff = "queued" /\ task[q] = "gone"
          BY <1>0, <3>1, <3>2 DEF RunInv, HandoffInOrder
        <4>2. row'[q].status = "failed" /\ row'[q].json = "failure"
          BY <2>1, <3>2, <4>1 DEF RestartFrame
        <4>3. QED
          BY <3>1, <4>1, <4>2 DEF RunInv, OutputWhenSettled, HandoffInOrder, HasOutput, HasOwner,
             Unsettled, Unfinished
      <3>3. CASE ~(q \in BgRuns /\ row[q].status = "queued")
        <4>1. row'[q] = row[q]
          BY <2>1, <3>3 DEF RestartFrame
        <4>2. QED
          BY <1>0, <3>1, <3>3, <4>1 DEF RunInv, OutputWhenSettled, HandoffInOrder, HasOutput, HasOwner
      <3>4. QED
        BY <3>2, <3>3
    <2>3. QED
      BY <2>2
  <1>10. CASE UNCHANGED vars
    BY <1>2, <1>10 DEF vars, ledger, ghosts
  <1>11. QED
    BY <1>1, <1>3, <1>4, <1>5, <1>6, <1>7, <1>8, <1>9, <1>10 DEF Next, Deliver, Quiet, Marking

(* A bot that is down does nothing but start again.                         *)
LEMMA DownStep ==
    ASSUME TypeOK, NothingWhenDown, LedgerInv, [Next]_vars
    PROVE  NothingWhenDown'
  <1>1. ASSUME NEW r \in Runs, Producer(r)
        PROVE  phase # "down" /\ phase' = phase
    BY <1>1, IdleWhenDown, ProducerStep DEF LedgerInv, TaskStep
  <1>2. CASE Quiet
    <2>1. UNCHANGED <<task, phase>>
      BY <1>2, QuietSteps DEF QuietFrame
    <2>2. UNCHANGED mem
      BY <1>2 DEF Quiet, Poll, LoopEnds, ChatActive, ChatQuiet, FetchNone, FetchFails, FetchNext,
         Hold, GateDenied, GateLookupFails, GateReady, SessionFails, Interrupted, SessionReplies,
         Text, Files, Header, OutcomeUnknown
    <2>3. dl = "ended" /\ phase = "down" => dl' = "ended"
      BY <1>2 DEF Quiet, Poll, LoopEnds, ChatActive, ChatQuiet, FetchNone, FetchFails, FetchNext,
         Hold, GateDenied, GateLookupFails, GateReady, SessionFails, Interrupted, SessionReplies,
         Text, Files, Header, OutcomeUnknown, Sending
    <2>4. QED
      BY <2>1, <2>2, <2>3 DEF NothingWhenDown
  <1>3. CASE Marking
    <2>1. dl # "ended" /\ phase' = phase
      BY <1>3, MarkingSteps DEF Marking, FetchRemembered, Dedup, GateRemembered, Mark, MarkFrame
    <2>2. QED
      BY <2>1 DEF NothingWhenDown
  <1>4. CASE BeginShutdown \/ CronStopped \/ StartFlush
    BY <1>4, PhaseStep, FlushStep DEF PhaseFrame, FlushFrame, NothingWhenDown
  <1>5. CASE AbortLoop \/ Exit \/ Crash
    BY <1>5, HaltStep DEF HaltFrame, FreshLoop, NothingWhenDown
  <1>6. ASSUME NEW r \in CronRuns, Aborts(r)
        PROVE  NothingWhenDown'
    BY <1>6, AbortStep DEF AbortFrame, NothingWhenDown
  <1>7. CASE Restart
    BY <1>7, RestartStep DEF RestartFrame, NothingWhenDown
  <1>8. CASE UNCHANGED vars
    BY <1>8 DEF vars, NothingWhenDown
  <1>9. QED
    BY <1>1, <1>2, <1>3, <1>4, <1>5, <1>6, <1>7, <1>8
       DEF Next, Deliver, Quiet, Marking, NothingWhenDown

-----------------------------------------------------------------------------
(* The invariant of the delivery loop.                                      *)

Delivery ==
    /\ CurrentFetchable /\ BodyCounted /\ FreshAttempt /\ SentIsKnown /\ SentHasOutput
    /\ DuplicateNeedsFault /\ RememberedWasSent /\ MarkedWasSent /\ DeliveredWasSent

(* Steps of others: see Kept.                                               *)
LEMMA DeliveryKept ==
    ASSUME TypeOK, Delivery, \A r \in Runs : Kept(r),
           UNCHANGED <<dl, cur, body, side, outcome, mem, sent>>,
           excused \subseteq excused', unrecorded \subseteq unrecorded'
    PROVE  Delivery'
  <1> USE DEF Delivery, Kept
  <1>1. CurrentFetchable'
    BY DEF CurrentFetchable, TypeOK, Fetchable, Eligible
  <1>2. BodyCounted' /\ FreshAttempt'
    BY DEF BodyCounted, FreshAttempt
  <1>3. SentHasOutput' /\ DuplicateNeedsFault'
    BY DEF SentHasOutput, DuplicateNeedsFault
  <1>4. SentIsKnown'
    BY DEF SentIsKnown, SentHasOutput, Fetchable, Eligible
  <1>5. RememberedWasSent' /\ MarkedWasSent' /\ DeliveredWasSent'
    BY DEF RememberedWasSent, MarkedWasSent, DeliveredWasSent
  <1>6. QED
    BY <1>1, <1>2, <1>3, <1>4, <1>5

(* The loop gave its attempt up, or has none.                               *)
LEMMA DeliveryGivenUp ==
    ASSUME TypeOK, Delivery, NoAttempt, dl' \in {"sleep", "fetch", "ended"},
           UNCHANGED <<row, mem>>, unrecorded \subseteq unrecorded', excused \subseteq excused',
           ~body, dl # "mark",
           \A r \in Runs : sent'[r] = sent[r] \/ (r = cur /\ r \in excused' /\ sent'[r] > 0)
    PROVE  Delivery'
  <1>0. sent \in [Runs -> 0..2] /\ mem \subseteq Runs
    BY DEF TypeOK
  <1>1. CurrentFetchable' /\ BodyCounted' /\ FreshAttempt' /\ MarkedWasSent'
    BY DEF NoAttempt, CurrentFetchable, BodyCounted, FreshAttempt, MarkedWasSent, Sending
  <1>2. SentHasOutput' /\ DuplicateNeedsFault'
    <2>1. cur \in Runs => row[cur].json # "null"
      BY AsyncRunsAssumption DEF Delivery, CurrentFetchable, Fetchable, Runs
    <2>2. SentHasOutput'
      BY <2>1 DEF Delivery, SentHasOutput
    <2>3. DuplicateNeedsFault'
      BY DEF Delivery, DuplicateNeedsFault
    <2>4. QED
      BY <2>2, <2>3
  <1>3. SentIsKnown'
    BY <1>0 DEF Delivery, SentIsKnown, Fetchable, Eligible
  <1>4. RememberedWasSent' /\ DeliveredWasSent'
    BY <1>0 DEF Delivery, RememberedWasSent, DeliveredWasSent
  <1>5. QED
    BY <1>1, <1>2, <1>3, <1>4 DEF Delivery

(* The attempt goes on after a request: its body may have arrived.          *)
LEMMA DeliveryGoesOn ==
    ASSUME TypeOK, Delivery, UNCHANGED <<row, cur, mem, unrecorded>>, cur \in Runs,
           excused \subseteq excused',
           sent' \in [Runs -> 0..2], \A r \in Runs \ {cur} : sent'[r] = sent[r],
           (sent[cur] > 0 => sent'[cur] > 0), sent'[cur] > 1 => cur \in excused',
           dl' = "mark" /\ outcome' = "delivered" => sent'[cur] > 0,
           body' => side' /\ dl' \in {"files", "stop", "mark"} /\ sent'[cur] > 0,
           dl' # "mark" /\ ~body' => sent'[cur] = 0 \/ cur \in excused'
    PROVE  Delivery'
  <1>0. sent \in [Runs -> 0..2] /\ mem \subseteq Runs
    BY DEF TypeOK
  <1>1. CurrentFetchable' /\ BodyCounted' /\ MarkedWasSent' /\ FreshAttempt'
    BY DEF Delivery, CurrentFetchable, BodyCounted, FreshAttempt, MarkedWasSent, Fetchable, Eligible,
       Sending
  <1>2. SentHasOutput' /\ DuplicateNeedsFault'
    <2>1. row[cur].json # "null"
      BY AsyncRunsAssumption DEF Delivery, CurrentFetchable, Fetchable, Runs
    <2>2. SentHasOutput'
      BY <2>1 DEF Delivery, SentHasOutput
    <2>3. DuplicateNeedsFault'
      BY DEF Delivery, DuplicateNeedsFault
    <2>4. QED
      BY <2>2, <2>3
  <1>3. SentIsKnown'
    BY <1>0 DEF Delivery, SentIsKnown, Fetchable, Eligible
  <1>4. RememberedWasSent' /\ DeliveredWasSent'
    BY <1>0 DEF Delivery, RememberedWasSent, DeliveredWasSent
  <1>5. QED
    BY <1>1, <1>2, <1>3, <1>4 DEF Delivery

LEMMA SentWhenArrives ==
    ASSUME TypeOK, Delivery, cur \in Runs, ~body, dl \in Sending, BodyArrives
    PROVE  /\ \A r \in Runs \ {cur} : sent'[r] = sent[r]
           /\ (sent[cur] > 0 => sent'[cur] > 0) /\ sent'[cur] > 0
           /\ sent'[cur] > 1 => cur \in excused
  <1>1. sent \in [Runs -> 0..2]
    BY DEF TypeOK
  <1>2. sent[cur] = 0 \/ cur \in excused
    BY DEF Delivery, FreshAttempt
  <1>3. sent[cur] > 1 => cur \in excused
    BY DEF Delivery, DuplicateNeedsFault
  <1>4. sent[cur] \in 0..2
    BY <1>1
  <1>5. sent' = [sent EXCEPT ![cur] = IF cur \in excused THEN 1 ELSE IF sent[cur] = 2 THEN 2 ELSE sent[cur] + 1]
    BY DEF BodyArrives
  <1>6. QED
    BY <1>1, <1>2, <1>3, <1>4, <1>5

(* What a request to Telegram may change.                                   *)
Counted ==
    /\ excused \subseteq excused' /\ sent' \in [Runs -> 0..2]
    /\ \A r \in Runs \ {cur} : sent'[r] = sent[r]
    /\ sent[cur] > 0 => sent'[cur] > 0
    /\ sent'[cur] > 1 => cur \in excused'

LEMMA DeliveryArrival ==
    ASSUME TypeOK, Delivery, cur \in Runs, dl \in Sending, NEW result \in SendResults,
           Arrival(result)
    PROVE  /\ Counted
           /\ result = "failed" \/ body => sent' = sent
           /\ result = "sent" => sent'[cur] > 0
           /\ result = "lost" /\ ~body => cur \in excused' /\ sent'[cur] > 0
  <1>1. sent' \in [Runs -> 0..2] /\ excused \subseteq excused'
    BY ArrivalType
  <1>2. CASE result # "failed" /\ ~body
    <2>1. /\ \A r \in Runs \ {cur} : sent'[r] = sent[r]
          /\ sent[cur] > 0 => sent'[cur] > 0
          /\ sent'[cur] > 0
          /\ sent'[cur] > 1 => cur \in excused
      BY <1>2, SentWhenArrives DEF Arrival
    <2>2. result = "lost" => cur \in excused'
      BY <1>2 DEF Arrival
    <2>3. QED
      BY <1>1, <1>2, <2>1, <2>2 DEF Counted
  <1>3. CASE result = "failed" \/ body
    <2>1. sent' = sent
      BY <1>3 DEF Arrival
    <2>2. sent[cur] > 1 => cur \in excused
      BY DEF Delivery, DuplicateNeedsFault
    <2>3. body => sent[cur] > 0
      BY DEF Delivery, BodyCounted
    <2>4. QED
      BY <1>1, <1>3, <2>1, <2>2, <2>3 DEF Counted
  <1>4. QED
    BY <1>2, <1>3

LEMMA DeliveryFails ==
    ASSUME TypeOK, Delivery, cur \in Runs, ~body, dl \in {"session"} \cup Sending, Fail,
           UNCHANGED <<row, mem, unrecorded>>, Counted,
           sent'[cur] = sent[cur] \/ (cur \in excused' /\ sent'[cur] > 0)
    PROVE  Delivery'
  <1>1. CASE Concludes("failed")
    <2>1. dl' = "mark" /\ outcome' = "failed" /\ UNCHANGED <<cur, body, side>>
      BY <1>1 DEF Concludes
    <2>2. QED
      BY <2>1, DeliveryGoesOn DEF Counted
  <1>2. CASE Back(TRUE)
    <2>1. NoAttempt /\ dl' \in {"sleep", "fetch", "ended"} /\ dl # "mark"
      BY <1>2 DEF Back, Sending
    <2>2. QED
      BY <2>1, DeliveryGivenUp DEF Counted
  <1>3. QED
    BY <1>1, <1>2 DEF Fail

LEMMA CountedUnchanged ==
    ASSUME TypeOK, Delivery, cur \in Runs, UNCHANGED sent, excused \subseteq excused'
    PROVE  Counted
  BY DEF TypeOK, Delivery, DuplicateNeedsFault, Counted

LEMMA DeliveryQuiet ==
    ASSUME TypeOK, Delivery, Quiet
    PROVE  Delivery'
  <1> USE DEF attempt, ghosts, producers
  <1>0. QuietFrame /\ sent \in [Runs -> 0..2] /\ (dl \notin Sending \cup {"stop"} \cup {"mark"} => ~body)
    BY QuietSteps DEF TypeOK, Delivery, BodyCounted, Sending
  <1>1. CASE Poll \/ LoopEnds \/ ChatActive \/ ChatQuiet
    <2>1. UNCHANGED <<row, cur, body, side, outcome, mem, sent, excused, unrecorded>>
      BY <1>1 DEF Poll, LoopEnds, ChatActive, ChatQuiet
    <2>2. dl' = dl \/ (dl = "sleep" /\ dl' \in {"fetch", "ended"})
      BY <1>1 DEF Poll, LoopEnds, ChatActive, ChatQuiet
    <2>3. QED
      BY <2>1, <2>2 DEF Delivery, CurrentFetchable, BodyCounted, FreshAttempt, SentIsKnown,
         SentHasOutput, DuplicateNeedsFault, RememberedWasSent, MarkedWasSent, DeliveredWasSent,
         Fetchable, Eligible, Sending
  <1>2. CASE FetchNone \/ FetchFails \/ Hold \/ GateLookupFails
    <2>1. Back(FALSE) /\ dl \in {"fetch", "gate"} /\ UNCHANGED <<row, mem, sent, excused, unrecorded>>
      BY <1>2 DEF FetchNone, FetchFails, Hold, GateLookupFails
    <2>2. NoAttempt /\ dl' \in {"sleep", "fetch", "ended"} /\ ~body /\ dl # "mark"
      BY <1>0, <2>1 DEF Back, Sending
    <2>3. QED
      BY <2>1, <2>2, DeliveryGivenUp
  <1>3. CASE FetchNext
    <2>1. PICK r \in Runs \ mem : OldestPending(r) /\ cur' = r
      BY <1>3 DEF FetchNext
    <2>2. Fetchable(r) /\ dl' \in {"dedup", "gate"} /\ ~body /\ cur = NoRun
      BY <1>0, <1>3, <2>1 DEF OldestPending, Pending, FetchNext, Sending, TypeOK
    <2>3. UNCHANGED <<row, body, side, outcome, mem, sent, excused, unrecorded>>
      BY <1>3 DEF FetchNext
    <2>4. NoRun \notin Runs
      BY AsyncRunsAssumption DEF Runs
    <2>5. QED
      BY <2>1, <2>2, <2>3, <2>4 DEF Delivery, CurrentFetchable, BodyCounted, FreshAttempt, SentIsKnown,
         SentHasOutput, DuplicateNeedsFault, RememberedWasSent, MarkedWasSent, DeliveredWasSent,
         Fetchable, Eligible, Sending
  <1>4. CASE GateDenied \/ GateReady
    <2>1. cur \in Runs /\ cur # NoRun /\ dl = "gate" /\ cur \notin mem /\ ~body
      BY <1>0, <1>4, CurIsRun DEF GateDenied, GateReady, Sending
    <2>2. UNCHANGED <<row, cur, body, mem, sent, excused, unrecorded>>
      BY <1>4 DEF GateDenied, GateReady, Concludes
    <2>3. (dl' = "mark" /\ outcome' = "denied") \/ dl' = "session"
      BY <1>4 DEF GateDenied, GateReady, Concludes
    <2>4. Fetchable(cur)
      BY <2>1 DEF Delivery, CurrentFetchable
    <2>5. sent[cur] = 0 \/ cur \in excused
      BY <1>0, <2>1, <2>4 DEF Delivery, SentIsKnown
    <2>6. QED
      BY <1>0, <2>1, <2>2, <2>3, <2>5, DeliveryGoesOn DEF Delivery, DuplicateNeedsFault, TypeOK
  <1>5. CASE SessionFails
    <2>1. cur \in Runs /\ dl = "session" /\ ~body /\ Fail
          /\ UNCHANGED <<row, mem, sent, excused, unrecorded>>
      BY <1>0, <1>5, CurIsRun DEF SessionFails, Sending
    <2>2. Counted
      BY <2>1, CountedUnchanged
    <2>3. QED
      BY <2>1, <2>2, DeliveryFails
  <1>6. CASE Interrupted
    <2>1. cur \in Runs /\ dl \in {"session", "stop"} \cup Sending
          /\ UNCHANGED <<row, mem, sent, excused, unrecorded>>
      BY <1>6, CurIsRun DEF Interrupted, Sending
    <2>2. Counted
      BY <2>1, CountedUnchanged
    <2>3. CASE side /\ Concludes("failed")
      <3>1. dl' = "mark" /\ outcome' = "failed" /\ UNCHANGED <<cur, body, side>>
        BY <2>3 DEF Concludes
      <3>2. body => side /\ sent[cur] > 0
        BY DEF Delivery, BodyCounted
      <3>3. QED
        BY <2>1, <2>2, <3>1, <3>2, DeliveryGoesOn DEF Counted
    <2>4. CASE ~side /\ Back(FALSE)
      <3>1. ~body /\ dl # "mark" /\ NoAttempt /\ dl' \in {"sleep", "fetch", "ended"}
        BY <2>1, <2>4 DEF Delivery, BodyCounted, Back, Sending
      <3>2. QED
        BY <2>1, <3>1, DeliveryGivenUp
    <2>5. QED
      BY <1>6, <2>3, <2>4 DEF Interrupted
  <1>7. CASE \E shape \in {"text", "both", "files"} : SessionReplies(shape)
    <2>1. cur \in Runs /\ dl = "session" /\ ~body /\ dl' \in {"header", "text"}
          /\ UNCHANGED <<row, cur, body, mem, sent, excused, unrecorded>>
      BY <1>0, <1>7, CurIsRun DEF SessionReplies, Sending
    <2>2. Counted /\ (sent[cur] = 0 \/ cur \in excused)
      BY <2>1, CountedUnchanged DEF Delivery, FreshAttempt
    <2>3. QED
      BY <2>1, <2>2, DeliveryGoesOn DEF Counted
  <1>8. ASSUME NEW result \in SendResults, Text(result)
        PROVE  Delivery'
    <2>1. cur \in Runs /\ dl = "text" /\ dl \in Sending /\ ~body /\ Arrival(result)
          /\ UNCHANGED <<row, mem, unrecorded>>
      BY <1>8, CurIsRun DEF Text, Sending, Delivery, BodyCounted
    <2>2. /\ Counted
          /\ result = "failed" => sent' = sent
          /\ result = "sent" => sent'[cur] > 0
          /\ result = "lost" => cur \in excused' /\ sent'[cur] > 0
      BY <2>1, DeliveryArrival
    <2>3. sent[cur] = 0 \/ cur \in excused
      BY <2>1 DEF Delivery, FreshAttempt
    <2>4. result \in {"sent", "lost", "failed"}
      BY DEF SendResults
    <2>5. CASE reply = "both"
      <3>1. dl' \in {"files", "stop"} /\ body' = (result = "sent") /\ side' = (result = "sent")
            /\ cur' = cur
        BY <1>8, <2>5 DEF Text, Begin
      <3>2. QED
        BY <2>1, <2>2, <2>3, <2>4, <3>1, DeliveryGoesOn DEF Counted
    <2>6. CASE reply # "both" /\ result = "sent"
      <3>1. dl' = "mark" /\ UNCHANGED <<cur, body, side>>
        BY <1>8, <2>6 DEF Text, Concludes
      <3>2. QED
        BY <2>1, <2>2, <2>6, <3>1, DeliveryGoesOn DEF Counted
    <2>7. CASE reply # "both" /\ result # "sent"
      <3>1. Fail
        BY <1>8, <2>7 DEF Text
      <3>2. QED
        BY <2>1, <2>2, <2>4, <2>7, <3>1, DeliveryFails
    <2>8. QED
      BY <2>5, <2>6, <2>7
  <1>9. ASSUME NEW result \in SendResults, Files(result)
        PROVE  Delivery'
    <2>1. cur \in Runs /\ dl = "files" /\ dl \in Sending /\ Arrival(result)
          /\ UNCHANGED <<row, mem, unrecorded>>
      BY <1>9, CurIsRun DEF Files, Sending
    <2>2. /\ Counted
          /\ result = "failed" \/ body => sent' = sent
          /\ result = "sent" => sent'[cur] > 0
          /\ result = "lost" /\ ~body => cur \in excused' /\ sent'[cur] > 0
      BY <2>1, DeliveryArrival
    <2>3. body => side /\ sent'[cur] > 0
      BY <2>2 DEF Delivery, BodyCounted, Counted
    <2>4. result \in {"sent", "lost", "failed"}
      BY DEF SendResults
    <2>5. CASE result = "sent" \/ body
      <3>1. dl' = "mark" /\ UNCHANGED <<cur, body, side>>
        BY <1>9, <2>5 DEF Files, Concludes, AttachmentFailureIsFatal
      <3>2. sent'[cur] > 0
        BY <2>2, <2>3, <2>5
      <3>3. QED
        BY <2>1, <2>2, <2>3, <3>1, <3>2, DeliveryGoesOn DEF Counted
    <2>6. CASE result # "sent" /\ ~body
      <3>1. Fail
        BY <1>9, <2>6 DEF Files, AttachmentFailureIsFatal
      <3>2. QED
        BY <2>1, <2>2, <2>4, <2>6, <3>1, DeliveryFails
    <2>7. QED
      BY <2>5, <2>6
  <1>10. ASSUME NEW ok \in BOOLEAN, Header(ok)
         PROVE  Delivery'
    <2>1. cur \in Runs /\ dl = "header" /\ dl \in Sending /\ ~body
          /\ UNCHANGED <<row, mem, sent, excused, unrecorded>>
      BY <1>10, CurIsRun DEF Header, Sending, Delivery, BodyCounted
    <2>2. Counted /\ (sent[cur] = 0 \/ cur \in excused)
      BY <2>1, CountedUnchanged DEF Delivery, FreshAttempt
    <2>3. CASE ok
      <3>1. dl' \in {"files", "stop"} /\ UNCHANGED <<cur, body>>
        BY <1>10, <2>3 DEF Header, Begin
      <3>2. QED
        BY <2>1, <2>2, <3>1, DeliveryGoesOn DEF Counted
    <2>4. CASE ~ok
      BY <1>10, <2>1, <2>2, <2>4, DeliveryFails DEF Header
    <2>5. QED
      BY <2>3, <2>4
  <1>11. ASSUME NEW arrived \in BOOLEAN, OutcomeUnknown(arrived)
         PROVE  Delivery'
    <2>1. cur \in Runs /\ dl \in Sending /\ UNCHANGED <<row, mem, excused, unrecorded>>
      BY <1>11, CurIsRun DEF OutcomeUnknown, Sending
    <2>2. dl' = "mark" /\ outcome' = "failed" /\ UNCHANGED <<cur, body, side>>
      BY <1>11 DEF OutcomeUnknown, Concludes
    <2>3. CASE ~body /\ BodyArrives
      <3>1. Counted
        BY <2>1, <2>3, SentWhenArrives, ArrivesType, LoopTyped DEF Counted
      <3>2. QED
        BY <2>1, <2>2, <2>3, <3>1, DeliveryGoesOn DEF Counted
    <2>4. CASE UNCHANGED sent
      <3>1. Counted /\ (body => side /\ sent[cur] > 0)
        BY <2>1, <2>4, CountedUnchanged DEF Delivery, BodyCounted
      <3>2. QED
        BY <2>1, <2>2, <2>4, <3>1, DeliveryGoesOn DEF Counted
    <2>5. QED
      BY <1>11, <2>3, <2>4 DEF OutcomeUnknown
  <1>12. QED
    BY <1>1, <1>2, <1>3, <1>4, <1>5, <1>6, <1>7, <1>8, <1>9, <1>10, <1>11 DEF Quiet

(* Steps that record a delivery status end the attempt or turn to another.  *)
LEMMA DeliveryMarked ==
    ASSUME TypeOK, Delivery, MarkFrame, UNCHANGED sent, ~body',
           dl' \in {"sleep", "fetch", "ended", "gate"}, CurrentFetchable',
           \A r \in Runs : row'[r].dstat = "pending" => row[r].dstat = "pending",
           \A r \in Runs : row'[r].dstat = "delivered" =>
                              row[r].dstat = "delivered" \/ sent[r] > 0 \/ r \in unrecorded,
           \A r \in mem' : r \in mem \/ sent[r] > 0 \/ r \in unrecorded',
           \A r \in mem \ mem' : ~Fetchable(r)',
           body \/ dl = "mark" => row'[cur].dstat # "pending" \/ cur \in mem'
    PROVE  Delivery'
  <1>0. mem \subseteq Runs /\ unrecorded \subseteq unrecorded' /\ excused' = excused
    BY DEF TypeOK, MarkFrame
  <1>1. BodyCounted' /\ FreshAttempt' /\ MarkedWasSent'
    BY DEF BodyCounted, FreshAttempt, MarkedWasSent, Sending
  <1>2. SentHasOutput' /\ DuplicateNeedsFault'
    BY <1>0 DEF Delivery, SentHasOutput, DuplicateNeedsFault, MarkFrame, OnlyDstat
  <1>3. SentIsKnown'
    <2>1. ASSUME NEW r \in Runs, sent[r] > 0, r \notin excused, Fetchable(r)', r \notin mem'
          PROVE  FALSE
      <3>1. Fetchable(r)
        BY <2>1 DEF Fetchable, Eligible, MarkFrame, OnlyDstat
      <3>2. r \in mem \/ (r = cur /\ (body \/ dl = "mark"))
        BY <2>1, <3>1 DEF Delivery, SentIsKnown
      <3>3. row'[r].dstat = "pending"
        BY <2>1 DEF Fetchable, Eligible
      <3>4. QED
        BY <2>1, <3>2, <3>3
    <2>2. QED
      BY <1>0, <2>1 DEF SentIsKnown
  <1>4. RememberedWasSent' /\ DeliveredWasSent'
    BY <1>0 DEF Delivery, RememberedWasSent, DeliveredWasSent
  <1>5. QED
    BY <1>1, <1>2, <1>3, <1>4 DEF Delivery

LEMMA BackGivesUp ==
    ASSUME TypeOK, NEW progress \in BOOLEAN, Back(progress)
    PROVE  ~body' /\ dl' \in {"sleep", "fetch", "ended"} /\ CurrentFetchable'
  BY DEF Back, NoAttempt, CurrentFetchable

LEMMA DeliveryMarking ==
    ASSUME TypeOK, Delivery, Marking
    PROVE  Delivery'
  <1> USE DEF attempt, ghosts
  <1>0. MarkFrame /\ mem \subseteq Runs
    BY MarkingSteps DEF TypeOK
  <1>1. dl \notin Sending \cup {"stop", "mark"} => ~body
    BY DEF Delivery, BodyCounted, Sending
  <1>2. ASSUME NEW o \in IpcOutcomes, FetchRemembered(o)
        PROVE  Delivery'
    <2>1. PICK r \in mem : DeliveryMarkOutcome(o, r, "delivered")
      BY <1>2 DEF FetchRemembered
    <2>2. dl = "fetch" /\ ~body /\ cur = NoRun /\ UNCHANGED <<mem, sent>>
      BY <1>1, <1>2 DEF FetchRemembered, TypeOK, Sending
    <2>3. /\ \A q \in Runs \ {r} : row'[q] = row[q]
          /\ row'[r].dstat = IF o = "down" THEN row[r].dstat ELSE "delivered"
      BY <1>0, <2>1, OutcomeFrame
    <2>4. sent[r] > 0 \/ r \in unrecorded
      BY <2>1 DEF Delivery, RememberedWasSent
    <2>5. ~body' /\ dl' \in {"sleep", "fetch", "ended"} /\ CurrentFetchable'
      BY <1>2, <2>2, BackGivesUp DEF FetchRemembered, CurrentFetchable
    <2>6. \A q \in Runs : /\ row'[q].dstat = "pending" => row[q].dstat = "pending"
                          /\ row'[q].dstat = "delivered" =>
                               row[q].dstat = "delivered" \/ sent[q] > 0 \/ q \in unrecorded
      BY <2>3, <2>4
    <2>7. QED
      BY <1>0, <2>2, <2>5, <2>6, DeliveryMarked
  <1>3. ASSUME NEW o \in IpcOutcomes, Dedup(o)
        PROVE  Delivery'
    <2> DEFINE job == OfJob(row[cur].job)
               grouped == {r \in job : Fetchable(r)}
    <2>1. dl = "dedup" /\ ~body /\ UNCHANGED <<mem, sent>> /\ job \subseteq Runs
      BY <1>1, <1>3 DEF Dedup, Sending, OfJob, Runs
    <2>2. CASE grouped = {}
      <3>1. Back(FALSE) /\ UNCHANGED row
        BY <1>3, <2>2 DEF Dedup
      <3>2. QED
        BY <1>0, <2>1, <3>1, BackGivesUp, DeliveryMarked
    <2>3. CASE grouped # {}
      <3>1. PICK kept \in grouped :
                /\ row' = IF o = "down" THEN row ELSE Superseded(job \ {kept})
                /\ IF o # "ok" THEN Back(FALSE)
                               ELSE cur' = kept /\ dl' = "gate" /\ body' = body
        BY <1>3, <2>3 DEF Dedup
      <3>2. \A q \in Runs : row'[q] = row[q] \/ row'[q].dstat = "superseded"
        BY <2>1, <3>1, SupersededRows
      <3>3. row'[kept] = row[kept]
        BY <2>1, <3>1, SupersededRows
      <3>4. \A q \in Runs : /\ row'[q].dstat = "pending" => row[q].dstat = "pending"
                            /\ row'[q].dstat = "delivered" => row[q].dstat = "delivered"
        BY <3>2
      <3>5. CASE o # "ok"
        BY <1>0, <2>1, <3>1, <3>4, <3>5, BackGivesUp, DeliveryMarked
      <3>6. CASE o = "ok"
        <4>1. CurrentFetchable'
          BY <3>1, <3>3, <3>6 DEF CurrentFetchable, Fetchable, Eligible
        <4>2. QED
          BY <1>0, <2>1, <3>1, <3>4, <3>6, <4>1, DeliveryMarked
      <3>7. QED
        BY <3>5, <3>6
    <2>4. QED
      BY <2>2, <2>3
  <1>4. ASSUME NEW o \in IpcOutcomes, GateRemembered(o)
        PROVE  Delivery'
    <2>1. /\ dl = "gate" /\ ~body /\ cur \in mem /\ cur \in Runs /\ UNCHANGED sent
          /\ DeliveryMarkOutcome(o, cur, "delivered") /\ Back(TRUE)
          /\ mem' = IF o = "ok" THEN mem \ {cur} ELSE mem
      BY <1>0, <1>1, <1>4 DEF GateRemembered, Sending
    <2>2. /\ \A q \in Runs \ {cur} : row'[q] = row[q]
          /\ row'[cur].dstat = IF o = "down" THEN row[cur].dstat ELSE "delivered"
      BY <2>1, OutcomeFrame
    <2>3. sent[cur] > 0 \/ cur \in unrecorded
      BY <2>1 DEF Delivery, RememberedWasSent
    <2>4. \A q \in Runs : /\ row'[q].dstat = "pending" => row[q].dstat = "pending"
                          /\ row'[q].dstat = "delivered" =>
                               row[q].dstat = "delivered" \/ sent[q] > 0 \/ q \in unrecorded
      BY <2>2, <2>3
    <2>5. \A q \in mem \ mem' : ~Fetchable(q)'
      BY <2>1, <2>2 DEF Fetchable, Eligible
    <2>6. \A q \in mem' : q \in mem
      BY <2>1
    <2>7. QED
      BY <1>0, <2>1, <2>4, <2>5, <2>6, BackGivesUp, DeliveryMarked
  <1>5. ASSUME NEW o \in IpcOutcomes, Mark(o)
        PROVE  Delivery'
    <2>1. /\ dl = "mark" /\ cur \in Runs /\ UNCHANGED sent
          /\ DeliveryMarkOutcome(o, cur, outcome) /\ Back(TRUE)
          /\ mem' = IF o = "ok" THEN mem ELSE mem \cup {cur}
          /\ unrecorded' = IF o = "ok" \/ outcome = "delivered"
                           THEN unrecorded ELSE unrecorded \cup {cur}
      BY <1>5, CurIsRun DEF Mark, Remembered
    <2>2. outcome \in {"none", "delivered", "denied", "failed"}
      BY DEF TypeOK
    <2>3. /\ \A q \in Runs \ {cur} : row'[q] = row[q]
          /\ row'[cur].dstat = IF o = "down" THEN row[cur].dstat ELSE outcome
      BY <2>1, <2>2, OutcomeFrame
    <2>4. outcome = "delivered" => sent[cur] > 0
      BY <2>1 DEF Delivery, MarkedWasSent
    <2>5. \A q \in Runs : /\ row'[q].dstat = "pending" => row[q].dstat = "pending"
                          /\ row'[q].dstat = "delivered" =>
                               row[q].dstat = "delivered" \/ sent[q] > 0 \/ q \in unrecorded
      BY <2>2, <2>3, <2>4
    <2>6. row'[cur].dstat # "pending" \/ cur \in mem'
      BY <2>1, <2>2, <2>3
    <2>7. \A q \in mem' : q \in mem \/ sent[q] > 0 \/ q \in unrecorded'
      BY <2>1, <2>4
    <2>8. \A q \in mem : q \in mem'
      BY <2>1
    <2>9. QED
      BY <1>0, <2>1, <2>5, <2>6, <2>7, <2>8, BackGivesUp, DeliveryMarked
  <1>6. QED
    BY <1>2, <1>3, <1>4, <1>5 DEF Marking

(* Shutdown, crash and restart: what was sent and is forgotten is excused.  *)
LEMMA DeliveryForgotten ==
    ASSUME TypeOK, Delivery, NEW at \in {"fetch", "ended"}, FreshLoop(at),
           UNCHANGED <<row, sent, unrecorded>>
    PROVE  Delivery'
  <1>1. /\ cur' = NoRun /\ ~body' /\ mem' = {} /\ dl' \in {"fetch", "ended"}
        /\ excused' = excused \cup Forgets
    BY DEF FreshLoop, NoAttempt
  <1>2. CurrentFetchable' /\ BodyCounted' /\ FreshAttempt' /\ MarkedWasSent'
    BY <1>1 DEF CurrentFetchable, BodyCounted, FreshAttempt, MarkedWasSent, Sending
  <1>3. SentHasOutput' /\ DuplicateNeedsFault' /\ RememberedWasSent' /\ DeliveredWasSent'
    BY <1>1 DEF Delivery, SentHasOutput, DuplicateNeedsFault, RememberedWasSent, DeliveredWasSent
  <1>4. SentIsKnown'
    <2>1. ASSUME NEW r \in Runs, sent[r] > 0, r \notin excused', Fetchable(r)'
          PROVE  FALSE
      <3>1. Fetchable(r)
        BY <2>1 DEF Fetchable, Eligible
      <3>2. r \in mem \/ (r = cur /\ (body \/ dl = "mark"))
        BY <1>1, <2>1, <3>1 DEF Delivery, SentIsKnown
      <3>3. body => dl \in {"files", "stop", "mark"}
        BY DEF Delivery, BodyCounted
      <3>4. r \in Forgets
        BY <3>2, <3>3 DEF Forgets, Sending
      <3>5. QED
        BY <1>1, <2>1, <3>4
    <2>2. QED
      BY <2>1 DEF SentIsKnown
  <1>5. QED
    BY <1>2, <1>3, <1>4 DEF Delivery

LEMMA DeliveryRestarted ==
    ASSUME TypeOK, LedgerInv, NothingWhenDown, Delivery, RestartFrame
    PROVE  Delivery'
  <1>1. /\ cur = NoRun /\ cur' = NoRun /\ mem = {} /\ mem' = {} /\ ~body' /\ dl' = "sleep"
        /\ UNCHANGED <<sent, excused>>
    BY DEF RestartFrame, NothingWhenDown, TypeOK, attempt, Delivery, BodyCounted
  <1>2. CurrentFetchable' /\ BodyCounted' /\ FreshAttempt' /\ MarkedWasSent'
        /\ RememberedWasSent' /\ DuplicateNeedsFault'
    BY <1>1 DEF CurrentFetchable, BodyCounted, FreshAttempt, MarkedWasSent, Sending,
       RememberedWasSent, DuplicateNeedsFault, Delivery
  <1>3. ASSUME NEW r \in Runs
        PROVE  \/ row'[r] = row[r]
               \/ row[r].json = "null" /\ row'[r].json = "failure" /\ row'[r].dstat = "pending"
    BY DEF RestartFrame, LedgerInv, RunInv, OutputWhenSettled, Unfinished
  <1>4. NoRun \notin Runs
    BY AsyncRunsAssumption DEF Runs
  <1>5. SentHasOutput'
    BY <1>1, <1>3 DEF Delivery, SentHasOutput
  <1>6. SentIsKnown'
    <2>1. ASSUME NEW r \in Runs, sent[r] > 0, r \notin excused, Fetchable(r)'
          PROVE  FALSE
      <3>1. row'[r] = row[r]
        BY <1>3, <2>1 DEF Delivery, SentHasOutput
      <3>2. Fetchable(r)
        BY <2>1, <3>1 DEF Fetchable, Eligible
      <3>3. QED
        BY <1>1, <1>4, <2>1, <3>2 DEF Delivery, SentIsKnown
    <2>2. QED
      BY <1>1, <2>1 DEF SentIsKnown
  <1>7. DeliveredWasSent'
    <2>1. ASSUME NEW r \in Runs, row'[r].dstat = "delivered"
          PROVE  sent[r] > 0 \/ r \in unrecorded'
      <3>1. row[r].dstat = "delivered"
        BY <1>3, <2>1
      <3>2. r \in unrecorded => r \in unrecorded'
        BY <2>1 DEF RestartFrame
      <3>3. QED
        BY <3>1, <3>2 DEF Delivery, DeliveredWasSent
    <2>2. QED
      BY <1>1, <2>1 DEF DeliveredWasSent
  <1>8. QED
    BY <1>2, <1>5, <1>6, <1>7 DEF Delivery

(* The steps of others keep what the loop relies on.                        *)
LEMMA OthersKeep ==
    ASSUME TypeOK, LedgerInv,
           \/ \E r \in Runs : Producer(r)
           \/ \E r \in CronRuns : Aborts(r)
    PROVE  /\ \A q \in Runs : Kept(q)
           /\ UNCHANGED <<dl, cur, body, side, outcome, mem, sent>>
           /\ excused \subseteq excused' /\ unrecorded \subseteq unrecorded'
  <1>1. ASSUME NEW r \in Runs, Producer(r)
        PROVE  /\ \A q \in Runs : Kept(q)
               /\ UNCHANGED <<dl, cur, body, side, outcome, mem, sent>>
               /\ excused \subseteq excused' /\ unrecorded \subseteq unrecorded'
    <2>1. TaskStep(r) /\ Kept(r)
      BY <1>1, ProducerStep DEF LedgerInv
    <2>2. ASSUME NEW q \in Runs, q # r
          PROVE  Kept(q)
      BY <2>1, <2>2 DEF TaskStep, OnlyRow, Kept, Fetchable, Eligible
    <2>3. QED
      BY <2>1, <2>2 DEF TaskStep
  <1>2. ASSUME NEW r \in CronRuns, Aborts(r)
        PROVE  /\ \A q \in Runs : Kept(q)
               /\ UNCHANGED <<dl, cur, body, side, outcome, mem, sent>>
               /\ excused \subseteq excused' /\ unrecorded \subseteq unrecorded'
    <2>1. AbortFrame(r)
      BY <1>2, AbortStep
    <2>2. ASSUME NEW q \in Runs
          PROVE  Kept(q)
      <3>1. row[q].status = "running" => row[q].json = "null"
        BY DEF LedgerInv, RunInv, OutputWhenSettled, Unfinished
      <3>2. \/ row'[q] = row[q]
            \/ row[q].status = "running" /\ row'[q].dstat = "pending"
        BY <2>1 DEF AbortFrame
      <3>3. QED
        BY <3>1, <3>2 DEF Kept, Fetchable, Eligible
    <2>3. QED
      BY <2>1, <2>2 DEF AbortFrame, attempt, ghosts
  <1>3. QED
    BY <1>1, <1>2

LEMMA DeliveryStep ==
    ASSUME TypeOK, LedgerInv, NothingWhenDown, Delivery, [Next]_vars
    PROVE  Delivery'
  <1>1. CASE \/ \E r \in Runs : Producer(r)
             \/ \E r \in CronRuns : Aborts(r)
    BY <1>1, OthersKeep, DeliveryKept
  <1>2. CASE Quiet
    BY <1>2, DeliveryQuiet
  <1>3. CASE Marking
    BY <1>3, DeliveryMarking
  <1>4. CASE (BeginShutdown \/ CronStopped) \/ UNCHANGED vars
    <2>1. UNCHANGED <<row, dl, attempt, mem, ghosts>>
      BY <1>4, PhaseStep DEF PhaseFrame, ledger, vars
    <2>2. QED
      BY <2>1, DeliveryKept DEF Kept, Fetchable, Eligible, attempt, ghosts
  <1>5. CASE StartFlush
    BY <1>5, FlushStep, DeliveryForgotten DEF FlushFrame, ledger
  <1>6. CASE AbortLoop \/ Exit \/ Crash
    BY <1>6, HaltStep, DeliveryForgotten DEF HaltFrame, ledger
  <1>7. CASE Restart
    BY <1>7, RestartStep, DeliveryRestarted
  <1>8. QED
    BY <1>1, <1>2, <1>3, <1>4, <1>5, <1>6, <1>7 DEF Next, Deliver, Quiet, Marking

-----------------------------------------------------------------------------
(* The theorems.                                                            *)

LEMMA InvInit == Init => IInv
  <1> SUFFICES ASSUME Init PROVE IInv
    OBVIOUS
  <1>1. TypeOK
    BY TypeInit
  <1>2. \A r \in Runs : Absent = row[r] /\ task[r] = "none" /\ sent[r] = 0
    BY DEF Init
  <1>3. Absent.status = "absent" /\ Absent.json = "null" /\ Absent.dstat = "none"
    BY DEF Absent
  <1>4. LedgerInv
    BY <1>2, <1>3 DEF LedgerInv, RunInv, OutputWhenSettled, HandoffInOrder, HasOutput, HasOwner
  <1>5. LoopInv
    BY DEF Init, LoopInv, NothingWhenDown, CurrentFetchable, BodyCounted, FreshAttempt, Sending
  <1>6. SentInv
    BY <1>2 DEF SentInv, SentIsKnown, SentHasOutput, DuplicateNeedsFault
  <1>7. MarkInv
    BY <1>2, <1>3 DEF Init, MarkInv, RememberedWasSent, MarkedWasSent, DeliveredWasSent
  <1>8. QED
    BY <1>1, <1>4, <1>5, <1>6, <1>7 DEF IInv

LEMMA InvStep == IInv /\ [Next]_vars => IInv'
  <1> SUFFICES ASSUME IInv, [Next]_vars PROVE IInv'
    OBVIOUS
  <1>1. TypeOK /\ LedgerInv /\ NothingWhenDown /\ Delivery
    BY DEF IInv, LoopInv, SentInv, MarkInv, Delivery
  <1>2. TypeOK' /\ LedgerInv' /\ NothingWhenDown' /\ Delivery'
    BY <1>1, TypeStep, LedgerStep, DownStep, DeliveryStep
  <1>3. QED
    BY <1>2 DEF IInv, LoopInv, SentInv, MarkInv, Delivery

(* The inductive invariant holds in every reachable state.                  *)
THEOREM InductiveInvariant == Spec => []IInv
  BY InvInit, InvStep, PTL DEF Spec

(* Every variable keeps its type.                                           *)
THEOREM TypeCorrect == Spec => []TypeOK
  <1>1. IInv => TypeOK
    BY DEF IInv
  <1>2. QED
    BY <1>1, InductiveInvariant, PTL

(* No run is recorded as successful without its result: whatever fails or   *)
(* crashes between its steps, status and output go together.                *)
THEOREM SuccessIsRecorded == Spec => []SuccessHasOutput
  <1>1. IInv => SuccessHasOutput
    BY DEF IInv, LedgerInv, RunInv, HasOutput, SuccessHasOutput
  <1>2. QED
    BY <1>1, InductiveInvariant, PTL

(* While the bot runs, a queued background run has a task that settles it.  *)
THEOREM QueuedIsOwned == Spec => []QueuedHasOwner
  <1>1. IInv => QueuedHasOwner
    BY DEF IInv, LedgerInv, RunInv, HasOwner, QueuedHasOwner, Runs
  <1>2. QED
    BY <1>1, InductiveInvariant, PTL

(* A body reaches the chat twice only after one of the faults that the      *)
(* ledger cannot see.                                                       *)
THEOREM NoDuplicateWithoutFault == Spec => []DuplicateNeedsFault
  <1>1. IInv => DuplicateNeedsFault
    BY DEF IInv, SentInv
  <1>2. QED
    BY <1>1, InductiveInvariant, PTL

(* What the ledger calls delivered reached the chat, unless another outcome *)
(* could not be recorded first.                                             *)
THEOREM DeliveredIsSent == Spec => []DeliveredWasSent
  <1>1. IInv => DeliveredWasSent
    BY DEF IInv, MarkInv
  <1>2. QED
    BY <1>1, InductiveInvariant, PTL

(* Only deduplication supersedes a deliverable run, and it keeps a newer one *)
LEMMA SupersededStep ==
    ASSUME TypeOK, LedgerInv, NothingWhenDown, [Next]_vars, NEW r \in CronRuns,
           Fetchable(r), row'[r].dstat = "superseded"
    PROVE  \E q \in CronRuns \ {r} : /\ row[q].job = row[r].job /\ Before(r, q)
                                     /\ Fetchable(q) /\ Fetchable(q)'
  <1>0. r \in Runs /\ row[r].dstat = "pending"
    BY DEF Fetchable, Eligible, Runs
  <1>1. PICK o \in IpcOutcomes : Dedup(o)
    <2>1. ASSUME \/ \E q \in Runs : Producer(q)
                 \/ \E q \in CronRuns : Aborts(q)
          PROVE  FALSE
      <3>1. Fetchable(r)'
        BY <1>0, <2>1, OthersKeep DEF Kept
      <3>2. QED
        BY <3>1 DEF Fetchable, Eligible
    <2>2. ASSUME NEW o \in IpcOutcomes, NEW q \in Runs,
                 NEW s \in {"none", "delivered", "denied", "failed"}, DeliveryMarkOutcome(o, q, s)
          PROVE  FALSE
      <3>1. row'[r] = row[r] \/ row'[r].dstat \in {row[r].dstat, s}
        BY <1>0, <2>2, OutcomeFrame
      <3>2. QED
        BY <1>0, <3>1
    <2>3. ASSUME NEW o \in IpcOutcomes, FetchRemembered(o) \/ GateRemembered(o) \/ Mark(o)
          PROVE  FALSE
      <3>1. mem \subseteq Runs /\ outcome \in {"none", "delivered", "denied", "failed"}
        BY DEF TypeOK
      <3>2. CASE FetchRemembered(o)
        BY <2>2, <3>1, <3>2 DEF FetchRemembered
      <3>3. CASE GateRemembered(o)
        BY <2>2, <3>1, <3>3 DEF GateRemembered
      <3>4. CASE Mark(o)
        BY <2>2, <3>1, <3>4, CurIsRun DEF Mark
      <3>5. QED
        BY <2>3, <3>2, <3>3, <3>4
    <2>4. ASSUME UNCHANGED row
          PROVE  FALSE
      BY <1>0, <2>4
    <2>5. ~Quiet
      BY <2>4, QuietSteps DEF QuietFrame
    <2>6. ~(BeginShutdown \/ CronStopped) /\ ~StartFlush /\ ~(AbortLoop \/ Exit \/ Crash)
          /\ ~UNCHANGED vars
      BY <2>4, PhaseStep, FlushStep, HaltStep
         DEF PhaseFrame, FlushFrame, HaltFrame, ledger, vars
    <2>7. ~Restart
      BY <1>0, RestartStep DEF RestartFrame
    <2>8. QED
      BY <2>1, <2>3, <2>5, <2>6, <2>7 DEF Next, Deliver, Quiet
  <1> DEFINE job == OfJob(row[cur].job)
             grouped == {q \in job : Fetchable(q)}
  <1>2. job \subseteq CronRuns /\ job \subseteq Runs /\ \A q \in job : row[q].job = row[cur].job
    BY DEF OfJob, Runs
  <1>3. row' # row
    BY <1>0
  <1>4. PICK kept \in grouped :
            /\ \A q \in grouped \ {kept} : Before(q, kept)
            /\ o # "down" /\ row' = Superseded(job \ {kept})
    BY <1>1, <1>3 DEF Dedup, DedupCandidate
  <1>5. r \in job \ {kept}
    BY <1>0, <1>2, <1>4, SupersededRows
  <1>6. row'[kept] = row[kept]
    BY <1>2, <1>4, SupersededRows
  <1>7. Fetchable(kept)'
    BY <1>4, <1>6 DEF Fetchable, Eligible
  <1>8. Before(r, kept) /\ row[kept].job = row[r].job
    BY <1>2, <1>4, <1>5
  <1>9. QED
    BY <1>2, <1>4, <1>5, <1>7, <1>8

(* A deliverable cron result is superseded only in favour of a newer one of *)
(* its job that is still going to be delivered.                             *)
THEOREM DedupKeepsNewest == Spec => SupersededByNewer
  <1>1. IInv /\ [Next]_vars =>
          [\A r \in CronRuns :
             Fetchable(r) /\ row'[r].dstat = "superseded" =>
                \E q \in CronRuns \ {r} :
                    /\ row[q].job = row[r].job /\ Before(r, q)
                    /\ Fetchable(q) /\ Fetchable(q)']_vars
    BY SupersededStep DEF IInv, LoopInv
  <1>2. QED
    BY <1>1, InductiveInvariant, PTL DEF SupersededByNewer, Spec

-----------------------------------------------------------------------------
(* AsyncRuns implements Outbox: a step settles one result, records some,    *)
(* posts one, supersedes some, notes a fault or leaves the box alone.       *)

BoxStep == [Box!Next]_(Box!vars)

Recording(S) ==
    /\ \A q \in Runs : Standing(q)' = IF q \in S THEN "pending" ELSE Standing(q)
    /\ \A q \in S : Standing(q) # "none" => q \in excused'
    /\ excused \subseteq excused' /\ excused' \subseteq excused \cup S
    /\ unrecorded \ S \subseteq unrecorded' /\ unrecorded' \subseteq unrecorded \cup S
    /\ UNCHANGED sent

LEMMA Records ==
    ASSUME NEW S \in SUBSET Runs, Recording(S)
    PROVE  BoxStep
  <1>1. [q \in Runs |-> Standing(q)]' =
            [q \in Runs |-> IF q \in S THEN "pending" ELSE [r \in Runs |-> Standing(r)][q]]
    BY DEF Recording
  <1>2. excused \cup {r \in S : [q \in Runs |-> Standing(q)][r] # "none"} \subseteq excused'
    BY DEF Recording
  <1>3. Box!Record(S)
    BY <1>1, <1>2 DEF Recording, Box!Record
  <1>4. QED
    BY <1>3 DEF BoxStep, Box!Next

SameStanding == \A q \in Runs : Standing(q)' = Standing(q)

LEMMA SameOut ==
    ASSUME SameStanding
    PROVE  [q \in Runs |-> Standing(q)]' = [q \in Runs |-> Standing(q)]
  BY DEF SameStanding

LEMMA BoxStutters ==
    ASSUME SameStanding, UNCHANGED <<sent, excused, unrecorded>>
    PROVE  BoxStep
  BY SameOut DEF BoxStep, Box!vars

LEMMA Misses ==
    ASSUME SameStanding, NEW r \in Runs, unrecorded' = unrecorded \cup {r},
           UNCHANGED <<sent, excused>>
    PROVE  BoxStep
  <1>1. Box!Miss(r)
    BY SameOut DEF Box!Miss
  <1>2. QED
    BY <1>1 DEF BoxStep, Box!Next

LEMMA Excuses ==
    ASSUME SameStanding, NEW S \in SUBSET Runs, excused' = excused \cup S,
           \A q \in S : Standing(q) = "pending" \/ sent[q] > 0 \/ q \in unrecorded,
           UNCHANGED <<sent, unrecorded>>
    PROVE  BoxStep
  <1>1. \A q \in S : [r \in Runs |-> Standing(r)][q] = "pending" \/ sent[q] > 0 \/ q \in unrecorded
    OBVIOUS
  <1>2. Box!Forget(S)
    BY <1>1, SameOut DEF Box!Forget
  <1>3. QED
    BY <1>2 DEF BoxStep, Box!Next

LEMMA Posts ==
    ASSUME SameStanding, NEW r \in Runs, Standing(r) = "pending",
           sent[r] = 0 \/ r \in excused, sent' = [sent EXCEPT ![r] = 1],
           excused' \in {excused, excused \cup {r}}, UNCHANGED unrecorded
    PROVE  BoxStep
  <1>1. [q \in Runs |-> Standing(q)][r] = "pending"
    OBVIOUS
  <1>2. Box!Post(r)
    BY <1>1, SameOut DEF Box!Post
  <1>3. QED
    BY <1>2 DEF BoxStep, Box!Next

LEMMA Settles ==
    ASSUME NEW r \in Runs, NEW s \in {"delivered", "denied", "failed"},
           Standing(r) = "pending", Standing(r)' = s,
           \A q \in Runs \ {r} : Standing(q)' = Standing(q),
           s = "delivered" => sent[r] > 0 \/ r \in unrecorded,
           unrecorded' \in {unrecorded, unrecorded \cup {r}}, UNCHANGED <<sent, excused>>
    PROVE  BoxStep
  <1>1. [q \in Runs |-> Standing(q)][r] = "pending"
    OBVIOUS
  <1>2. [q \in Runs |-> Standing(q)]' = [[q \in Runs |-> Standing(q)] EXCEPT ![r] = s]
    OBVIOUS
  <1>3. Box!Settle(r, s)
    BY <1>1, <1>2 DEF Box!Settle
  <1>4. QED
    BY <1>3 DEF BoxStep, Box!Next

LEMMA Supersedes ==
    ASSUME NEW S \in SUBSET Runs, NEW k \in Runs \ S,
           \A q \in S \cup {k} : Standing(q) = "pending",
           \A q \in Runs : Standing(q)' = IF q \in S THEN "superseded" ELSE Standing(q),
           UNCHANGED <<sent, excused, unrecorded>>
    PROVE  BoxStep
  <1>1. \A q \in S \cup {k} : [r \in Runs |-> Standing(r)][q] = "pending"
    OBVIOUS
  <1>2. [q \in Runs |-> Standing(q)]' =
            [q \in Runs |-> IF q \in S THEN "superseded" ELSE [r \in Runs |-> Standing(r)][q]]
    OBVIOUS
  <1>3. Box!Supersede(S, k)
    BY <1>1, <1>2 DEF Box!Supersede
  <1>4. QED
    BY <1>3 DEF BoxStep, Box!Next

LEMMA RowKeepsStanding ==
    ASSUME NEW r \in Runs, OnlyRow(r), Standing(r)' = Standing(r)
    PROVE  SameStanding
  BY DEF OnlyRow, SameStanding, Standing

LEMMA SameRows ==
    ASSUME UNCHANGED row
    PROVE  SameStanding
  BY DEF SameStanding, Standing

LEMMA FetchableStanding ==
    ASSUME NEW r \in Runs, Fetchable(r)
    PROVE  Standing(r) = "pending"
  BY DEF Fetchable, Eligible, Standing

(* A task that records an output: it is the first of its run, or opens what *)
(* stood there before and excuses the run.                                  *)
LEMMA BoxPersists ==
    ASSUME TypeOK, NEW o, NEW r \in Runs, NEW s \in Statuses, NEW req \in BOOLEAN,
           NEW json \in Jsons, PersistRunOutput(o, r, s, req, json),
           (req /\ json # "null") \/ row[r].json = "null", UNCHANGED <<sent, unrecorded>>
    PROVE  BoxStep
  <1>1. \/ o = "down" /\ row'[r] = row[r] /\ excused' = excused
        \/ /\ o # "down" /\ row'[r].json = json
           /\ row'[r].dstat = IF req THEN "pending" ELSE "none"
           /\ excused' = IF row[r].json # "null" THEN excused \cup {r} ELSE excused
    BY Recorded
  <1>2. OnlyRow(r)
    BY Persists
  <1>3. CASE o = "down"
    <2>1. Standing(r)' = Standing(r) /\ excused' = excused
      BY <1>1, <1>3 DEF Standing
    <2>2. QED
      BY <1>2, <2>1, RowKeepsStanding, BoxStutters
  <1>4. CASE o # "down" /\ req /\ json # "null"
    <2>1. Standing(r)' = "pending"
      BY <1>1, <1>4 DEF Standing
    <2>2. Standing(r) # "none" => r \in excused'
      BY <1>1, <1>4 DEF Standing
    <2>3. excused \subseteq excused' /\ excused' \subseteq excused \cup {r}
      BY <1>1, <1>4
    <2>4. Recording({r})
      BY <1>2, <2>1, <2>2, <2>3 DEF OnlyRow, Recording, Standing
    <2>5. QED
      BY <2>4, Records
  <1>5. CASE o # "down" /\ ~(req /\ json # "null")
    <2>1. Standing(r)' = "none" /\ Standing(r) = "none" /\ excused' = excused
      BY <1>1, <1>5 DEF Standing
    <2>2. QED
      BY <1>2, <2>1, RowKeepsStanding, BoxStutters
  <1>6. QED
    BY <1>3, <1>4, <1>5

LEMMA BoxFinishes ==
    ASSUME TypeOK, NEW o, NEW r \in Runs, FinishRun(o, r, "failed"),
           UNCHANGED <<sent, excused, unrecorded>>
    PROVE  BoxStep
  <1> DEFINE x == [row[r] EXCEPT !.status = "failed"]
  <1>1. "failed" \in Statuses
    BY DEF Statuses
  <1>2. x.json = row[r].json /\ x.dstat = row[r].dstat
    BY <1>1, RowsTyped, StatusFields
  <1>3. OnlyRow(r) /\ (row'[r] = row[r] \/ row'[r] = x)
    BY <1>1, Finishes
  <1> HIDE DEF x
  <1>4. Standing(r)' = Standing(r)
    BY <1>2, <1>3 DEF Standing
  <1>5. QED
    BY <1>3, <1>4, RowKeepsStanding, BoxStutters

LEMMA BoxStarts ==
    ASSUME TypeOK, NEW o, NEW r \in CronRuns, NEW j \in Jobs, NEW f \in BOOLEAN,
           StartCron(r, j, f, o)
    PROVE  BoxStep
  <1> DEFINE x == [row[r] EXCEPT !.status = "running", !.job = j]
  <1>1. r \in Runs /\ row \in RowTypes
    BY RowsTyped DEF Runs
  <1>2. x \in RowType /\ x.json = row[r].json /\ x.dstat = row[r].dstat
    BY <1>1, StartedFields
  <1>3. row' = IF o = "down" THEN row ELSE [row EXCEPT ![r] = x]
    BY DEF StartCron
  <1> HIDE DEF x
  <1>4. OnlyRow(r) /\ row'[r] = IF o = "down" THEN row[r] ELSE x
    BY <1>1, <1>2, <1>3, Writes DEF StartCron
  <1>5. Standing(r)' = Standing(r)
    BY <1>2, <1>4 DEF Standing
  <1>6. QED
    BY <1>1, <1>4, <1>5, RowKeepsStanding, BoxStutters DEF StartCron, loop

LEMMA BoxEnqueues ==
    ASSUME TypeOK, NEW o, NEW r \in BgRuns, EnqueueBackground(r, o)
    PROVE  BoxStep
  <1> DEFINE x == [row[r] EXCEPT !.status = "queued", !.handoff = "queued"]
  <1>1. r \in Runs /\ row \in RowTypes
    BY RowsTyped DEF Runs
  <1>2. x \in RowType /\ x.json = row[r].json /\ x.dstat = row[r].dstat
    BY <1>1, EnqueuedFields
  <1>3. row' = IF o = "down" THEN row ELSE [row EXCEPT ![r] = x]
    BY DEF EnqueueBackground
  <1> HIDE DEF x
  <1>4. OnlyRow(r) /\ row'[r] = IF o = "down" THEN row[r] ELSE x
    BY <1>1, <1>2, <1>3, Writes DEF EnqueueBackground
  <1>5. Standing(r)' = Standing(r)
    BY <1>2, <1>4 DEF Standing
  <1>6. SameStanding /\ UNCHANGED <<sent, excused>>
    BY <1>1, <1>4, <1>5, RowKeepsStanding DEF EnqueueBackground, loop
  <1>7. unrecorded' = unrecorded \/ unrecorded' = unrecorded \cup {r}
    BY DEF EnqueueBackground
  <1>8. QED
    BY <1>1, <1>6, <1>7, BoxStutters, Misses

LEMMA BoxHandsOff ==
    ASSUME TypeOK, NEW o, NEW r \in BgRuns, RunInv(r), HandoffFails(r, o) \/ HandoffConfirmed(r, o)
    PROVE  BoxStep
  <1>1. r \in Runs /\ row \in RowTypes
    BY RowsTyped DEF Runs
  <1>2. row[r].json = "null" /\ UNCHANGED <<sent, excused>>
    BY DEF HandoffFails, HandoffConfirmed, BgStep, loop, RunInv, OutputWhenSettled, Unsettled
  <1>3. CASE HandoffConfirmed(r, o)
    <2>1. OnlyRow(r) /\ row'[r] = IF o = "down" THEN row[r] ELSE Spawned(r)
      BY <1>1, <1>3, MarksSpawned DEF HandoffConfirmed
    <2>2. Spawned(r).json = "null"
      BY <1>1, <1>2, SpawnedFields
    <2>3. Standing(r)' = Standing(r)
      BY <1>2, <2>1, <2>2 DEF Standing
    <2>4. QED
      BY <1>1, <1>2, <1>3, <2>1, <2>3, RowKeepsStanding, BoxStutters DEF HandoffConfirmed
  <1>4. CASE HandoffFails(r, o)
    <2>1. OnlyRow(r) /\ ((o = "down" /\ row' = row) \/ (o # "down" /\ row'[r] = Unhandled(r)))
      BY <1>1, <1>4, FailsHandoff DEF HandoffFails
    <2>2. Unhandled(r).json = "failure" /\ Unhandled(r).dstat = "pending"
      BY <1>1, UnhandledFields
    <2>3. unrecorded' = IF o = "ok" THEN unrecorded ELSE unrecorded \cup {r}
      BY <1>4 DEF HandoffFails
    <2>4. CASE o = "down"
      BY <1>1, <1>2, <2>1, <2>3, <2>4, SameRows, Misses
    <2>5. CASE o # "down"
      <3>1. Standing(r)' = "pending" /\ Standing(r) = "none"
        BY <1>2, <2>1, <2>2, <2>5 DEF Standing
      <3>2. unrecorded \ {r} \subseteq unrecorded' /\ unrecorded' \subseteq unrecorded \cup {r}
        BY <2>3
      <3>3. Recording({r})
        BY <1>2, <2>1, <3>1, <3>2 DEF OnlyRow, Recording, Standing
      <3>4. QED
        BY <1>1, <3>3, Records
    <2>6. QED
      BY <2>4, <2>5
  <1>5. QED
    BY <1>3, <1>4

LEMMA BoxProduces ==
    ASSUME TypeOK, NEW r \in Runs, RunInv(r), Producer(r)
    PROVE  BoxStep
  <1>1. PICK o \in IpcOutcomes :
            \/ /\ r \in CronRuns
               /\ \/ \E j \in Jobs, f \in BOOLEAN : StartCron(r, j, f, o)
                  \/ \E notify \in BOOLEAN : CronSucceeds(r, notify, o)
                  \/ CronAborts(r, o) \/ CronUnparsable(r, o) \/ CronCleanup(r, o)
                  \/ CronFails(r, o) \/ CronReports(r, o)
            \/ /\ r \in BgRuns
               /\ \/ EnqueueBackground(r, o)
                  \/ HandoffFails(r, o) \/ HandoffConfirmed(r, o)
                  \/ BgSucceeds(r, o) \/ BgFails(r, o)
    BY DEF Producer
  <1>2. task[r] \in {"running", "reflecting"} => row[r].json = "null"
    BY DEF RunInv, OutputWhenSettled, Unsettled
  <1>3. ASSUME r \in CronRuns, NEW notify \in BOOLEAN, CronSucceeds(r, notify, o)
        PROVE  BoxStep
    <2> DEFINE req == notify \/ r \in forced
    <2>1. /\ PersistRunOutput(o, r, "success", req, "result") /\ req \in BOOLEAN
          /\ row[r].json = "null" /\ UNCHANGED <<sent, unrecorded>>
      BY <1>2, <1>3 DEF CronSucceeds, CronStep, loop
    <2> HIDE DEF req
    <2>2. QED
      BY <2>1, BoxPersists DEF Jsons, Statuses
  <1>4. CASE CronUnparsable(r, o)
    <2> DEFINE req == FALSE
    <2>1. /\ PersistRunOutput(o, r, "failed", req, "null") /\ req \in BOOLEAN
          /\ row[r].json = "null" /\ UNCHANGED <<sent, unrecorded>>
      BY <1>2, <1>4 DEF CronUnparsable, CronStep, loop
    <2> HIDE DEF req
    <2>2. QED
      BY <2>1, BoxPersists DEF Jsons, Statuses
  <1> DEFINE always == TRUE
  <1>5. CASE CronReports(r, o) \/ BgFails(r, o)
    <2>1. /\ PersistRunOutput(o, r, "failed", always, "failure") /\ always \in BOOLEAN /\ always
          /\ UNCHANGED <<sent, unrecorded>>
      BY <1>5 DEF CronReports, BgFails, CronStep, BgStep, loop
    <2> HIDE DEF always
    <2>2. QED
      BY <2>1, BoxPersists DEF Jsons, Statuses
  <1>6. CASE BgSucceeds(r, o)
    <2>1. /\ PersistRunOutput(o, r, "success", always, "result") /\ always \in BOOLEAN /\ always
          /\ UNCHANGED <<sent, unrecorded>>
      BY <1>6 DEF BgSucceeds, BgStep, loop
    <2> HIDE DEF always
    <2>2. QED
      BY <2>1, BoxPersists DEF Jsons, Statuses
  <1>7. CASE CronAborts(r, o) \/ CronCleanup(r, o) \/ CronFails(r, o)
    <2>1. FinishRun(o, r, "failed") /\ UNCHANGED <<sent, excused, unrecorded>>
      BY <1>7 DEF CronAborts, CronCleanup, CronFails, CronStep, loop
    <2>2. QED
      BY <2>1, BoxFinishes
  <1>8. CASE r \in CronRuns /\ \E j \in Jobs, f \in BOOLEAN : StartCron(r, j, f, o)
    BY <1>8, BoxStarts
  <1>9. CASE r \in BgRuns /\ (EnqueueBackground(r, o) \/ HandoffFails(r, o) \/ HandoffConfirmed(r, o))
    BY <1>9, BoxEnqueues, BoxHandsOff
  <1>10. QED
    BY <1>1, <1>3, <1>4, <1>5, <1>6, <1>7, <1>8, <1>9

(* A request to Telegram posts the body of the current run or nothing.      *)
LEMMA BoxArrives ==
    ASSUME TypeOK, Delivery, cur \in Runs, cur # NoRun, dl \in Sending, UNCHANGED <<row, unrecorded>>,
           \/ UNCHANGED <<sent, excused>>
           \/ ~body /\ BodyArrives /\ excused' \in {excused, excused \cup {cur}}
    PROVE  BoxStep
  <1>1. SameStanding
    BY SameRows
  <1>2. CASE UNCHANGED <<sent, excused>>
    BY <1>1, <1>2, BoxStutters
  <1>3. CASE ~body /\ BodyArrives /\ excused' \in {excused, excused \cup {cur}}
    <2>1. sent[cur] = 0 \/ cur \in excused
      BY <1>3 DEF Delivery, FreshAttempt
    <2> DEFINE count == IF cur \in excused THEN 1 ELSE IF sent[cur] = 2 THEN 2 ELSE sent[cur] + 1
    <2>2. sent' = [sent EXCEPT ![cur] = 1]
      <3>1. sent' = [sent EXCEPT ![cur] = count]
        BY <1>3 DEF BodyArrives
      <3>2. count = 1
        BY <2>1
      <3> HIDE DEF count
      <3>3. QED
        BY <3>1, <3>2
    <2>3. Standing(cur) = "pending"
      BY FetchableStanding DEF Delivery, CurrentFetchable
    <2>4. QED
      BY <1>1, <1>3, <2>1, <2>2, <2>3, Posts
  <1>4. QED
    BY <1>2, <1>3

LEMMA BoxQuiet ==
    ASSUME TypeOK, Delivery, Quiet
    PROVE  BoxStep
  <1>1. UNCHANGED <<row, unrecorded>>
    BY QuietSteps DEF QuietFrame
  <1>2. ASSUME NEW result \in SendResults, Text(result) \/ Files(result)
        PROVE  BoxStep
    <2>1. cur \in Runs /\ cur # NoRun /\ dl \in Sending /\ Arrival(result)
      BY <1>2, CurIsRun DEF Text, Files, Sending
    <2>2. \/ UNCHANGED <<sent, excused>>
          \/ ~body /\ BodyArrives /\ excused' \in {excused, excused \cup {cur}}
      BY <2>1 DEF Arrival, SendResults
    <2>3. QED
      BY <1>1, <2>1, <2>2, BoxArrives
  <1>3. ASSUME NEW arrived \in BOOLEAN, OutcomeUnknown(arrived)
        PROVE  BoxStep
    <2>1. cur \in Runs /\ cur # NoRun /\ dl \in Sending
      BY <1>3, CurIsRun DEF OutcomeUnknown, Sending
    <2>2. \/ UNCHANGED <<sent, excused>>
          \/ ~body /\ BodyArrives /\ excused' \in {excused, excused \cup {cur}}
      BY <1>3 DEF OutcomeUnknown
    <2>3. QED
      BY <1>1, <2>1, <2>2, BoxArrives
  <1>4. ASSUME UNCHANGED <<sent, excused>>
        PROVE  BoxStep
    BY <1>1, <1>4, SameRows, BoxStutters
  <1>5. CASE Poll \/ LoopEnds \/ ChatActive \/ ChatQuiet \/ FetchNone \/ FetchFails \/ FetchNext
             \/ Hold \/ GateDenied \/ GateLookupFails \/ GateReady \/ SessionFails \/ Interrupted
    BY <1>4, <1>5 DEF Poll, LoopEnds, ChatActive, ChatQuiet, FetchNone, FetchFails, FetchNext,
       Hold, GateDenied, GateLookupFails, GateReady, SessionFails, Interrupted, ghosts
  <1>6. CASE \/ \E shape \in {"text", "both", "files"} : SessionReplies(shape)
             \/ \E ok \in BOOLEAN : Header(ok)
    BY <1>4, <1>6 DEF SessionReplies, Header, ghosts
  <1>7. QED
    BY <1>2, <1>3, <1>5, <1>6 DEF Quiet

(* The loop marks a deliverable run, or its mark does not get through.      *)
LEMMA BoxMarks ==
    ASSUME TypeOK, NEW o, NEW r \in Runs, NEW s \in {"delivered", "denied", "failed"},
           Fetchable(r), DeliveryMarkOutcome(o, r, s),
           s = "delivered" => sent[r] > 0 \/ r \in unrecorded,
           unrecorded' \in {unrecorded, unrecorded \cup {r}}, UNCHANGED <<sent, excused>>
    PROVE  BoxStep
  <1>1. s \in {"none", "delivered", "denied", "failed"}
    OBVIOUS
  <1>2. /\ OnlyDstat(r) /\ \A q \in Runs \ {r} : row'[q] = row[q]
        /\ row'[r].dstat = IF o = "down" THEN row[r].dstat ELSE s
    BY <1>1, OutcomeFrame
  <1>3. \A q \in Runs \ {r} : Standing(q)' = Standing(q)
    BY <1>2 DEF Standing
  <1>4. Standing(r) = "pending" /\ row[r].json # "null"
    BY FetchableStanding DEF Fetchable
  <1>5. CASE o = "down"
    <2>1. Standing(r)' = Standing(r)
      BY <1>2, <1>5 DEF Standing, OnlyDstat
    <2>2. SameStanding
      BY <1>3, <2>1 DEF SameStanding
    <2>3. QED
      BY <2>2, BoxStutters, Misses
  <1>6. CASE o # "down"
    <2>1. Standing(r)' = s
      BY <1>2, <1>4, <1>6 DEF Standing, OnlyDstat
    <2>2. QED
      BY <1>3, <1>4, <2>1, Settles
  <1>7. QED
    BY <1>5, <1>6

LEMMA BoxDedups ==
    ASSUME TypeOK, NEW o, Dedup(o)
    PROVE  BoxStep
  <1> DEFINE job == OfJob(row[cur].job)
             grouped == {r \in job : Fetchable(r)}
  <1>1. job \subseteq Runs /\ UNCHANGED <<sent, excused, unrecorded>>
    BY DEF OfJob, Runs, Dedup, ghosts
  <1>2. CASE UNCHANGED row
    BY <1>1, <1>2, SameRows, BoxStutters
  <1>3. CASE ~UNCHANGED row
    <2>1. PICK kept \in grouped : row' = Superseded(job \ {kept})
      BY <1>3 DEF Dedup
    <2> DEFINE S == grouped \ {kept}
    <2>2. S \in SUBSET Runs /\ kept \in Runs \ S
      BY <1>1, <2>1
    <2>3. \A q \in S \cup {kept} : Standing(q) = "pending"
      BY <1>1, <2>1, FetchableStanding
    <2>4. /\ \A r \in Runs : OnlyDstat(r)
          /\ \A r \in Runs : IF r \in job \ {kept} /\ Eligible(r)
                               THEN row'[r].dstat = "superseded" ELSE row'[r] = row[r]
      BY <1>1, <2>1, SupersededRows
    <2>5. ASSUME NEW q \in Runs
          PROVE  Standing(q)' = IF q \in S THEN "superseded" ELSE Standing(q)
      BY <2>4, <2>5 DEF Standing, OnlyDstat, Fetchable
    <2> HIDE DEF S
    <2>6. QED
      BY <1>1, <2>2, <2>3, <2>5, Supersedes
  <1>4. QED
    BY <1>2, <1>3

(* Only an attempt that was concluded is about to be marked.                *)
OutcomeKnown == dl = "mark" => outcome # "none"

LEMMA BoxMarking ==
    ASSUME TypeOK, Delivery, OutcomeKnown, Marking
    PROVE  BoxStep
  <1>0. mem \subseteq Runs
    BY DEF TypeOK
  <1>1. ASSUME NEW o \in IpcOutcomes, FetchRemembered(o)
        PROVE  BoxStep
    <2>1. PICK r \in mem : OldestPending(r) /\ DeliveryMarkOutcome(o, r, "delivered")
      BY <1>1 DEF FetchRemembered
    <2>2. Fetchable(r) /\ r \in Runs
      BY <1>0, <2>1 DEF OldestPending, Pending
    <2>3. sent[r] > 0 \/ r \in unrecorded
      BY <2>1 DEF Delivery, RememberedWasSent
    <2>4. UNCHANGED <<sent, excused, unrecorded>>
      BY <1>1 DEF FetchRemembered, ghosts
    <2>5. QED
      BY <2>1, <2>2, <2>3, <2>4, BoxMarks
  <1>2. ASSUME NEW o \in IpcOutcomes, GateRemembered(o)
        PROVE  BoxStep
    <2>1. cur \in mem /\ cur \in Runs /\ cur # NoRun /\ DeliveryMarkOutcome(o, cur, "delivered")
          /\ UNCHANGED <<sent, excused, unrecorded>>
      BY <1>0, <1>2, CurIsRun DEF GateRemembered, ghosts
    <2>2. Fetchable(cur) /\ (sent[cur] > 0 \/ cur \in unrecorded)
      BY <2>1 DEF Delivery, CurrentFetchable, RememberedWasSent
    <2>3. QED
      BY <2>1, <2>2, BoxMarks
  <1>3. ASSUME NEW o \in IpcOutcomes, Mark(o)
        PROVE  BoxStep
    <2>1. cur \in Runs /\ cur # NoRun /\ DeliveryMarkOutcome(o, cur, outcome) /\ dl = "mark"
          /\ unrecorded' \in {unrecorded, unrecorded \cup {cur}} /\ UNCHANGED <<sent, excused>>
      BY <1>3, CurIsRun DEF Mark
    <2>2. outcome \in {"delivered", "denied", "failed"}
      BY <2>1 DEF TypeOK, OutcomeKnown
    <2>3. Fetchable(cur) /\ (outcome = "delivered" => sent[cur] > 0)
      BY <2>1 DEF Delivery, CurrentFetchable, MarkedWasSent
    <2>4. QED
      BY <2>1, <2>2, <2>3, BoxMarks
  <1>4. QED
    BY <1>1, <1>2, <1>3, BoxDedups DEF Marking

(* What is forgotten was sent, missed or is still pending.                  *)
LEMMA BoxForgets ==
    ASSUME TypeOK, Delivery, NEW at, FreshLoop(at), UNCHANGED <<row, sent, unrecorded>>
    PROVE  BoxStep
  <1>1. excused' = excused \cup Forgets /\ SameStanding
    BY SameRows DEF FreshLoop
  <1>2. dl \in Sending \cup {"stop", "mark"} => cur \in Runs /\ Standing(cur) = "pending"
    BY CurIsRun, FetchableStanding DEF Sending, Delivery, CurrentFetchable
  <1>3. \A q \in mem : q \in Runs /\ (sent[q] > 0 \/ q \in unrecorded)
    BY DEF TypeOK, Delivery, RememberedWasSent
  <1>4. /\ Forgets \in SUBSET Runs
        /\ \A q \in Forgets : Standing(q) = "pending" \/ sent[q] > 0 \/ q \in unrecorded
    BY <1>2, <1>3 DEF Forgets
  <1>5. QED
    BY <1>1, <1>4, Excuses

(* The recovery records a failure for every run that was still queued.      *)
LEMMA BoxRecovers ==
    ASSUME TypeOK, LedgerInv, NothingWhenDown, Restart
    PROVE  BoxStep
  <1> DEFINE lost == {r \in BgRuns : Interruptible(r)}
  <1>1. lost \in SUBSET Runs /\ RestartFrame
    BY RestartStep DEF Runs
  <1>2. unrecorded' = unrecorded \ lost /\ UNCHANGED <<sent, excused>>
    BY DEF Restart
  <1>3. ASSUME NEW q \in lost
        PROVE  Standing(q) = "none" /\ Standing(q)' = "pending"
    <2>1. q \in Runs /\ q \in BgRuns /\ row[q].status = "queued" /\ row[q].handoff = "queued"
      BY <1>1 DEF Interruptible
    <2>2. row[q].json = "null" /\ row'[q].json = "failure" /\ row'[q].dstat = "pending"
      BY <1>1, <2>1 DEF RestartFrame, LedgerInv, RunInv, OutputWhenSettled, Unfinished
    <2>3. QED
      BY <2>2 DEF Standing
  <1>4. ASSUME NEW q \in Runs \ lost
        PROVE  Standing(q)' = Standing(q)
    <2>1. row'[q] = row[q]
      BY <1>1 DEF RestartFrame, Interruptible
    <2>2. QED
      BY <2>1 DEF Standing
  <1> HIDE DEF lost
  <1>5. Recording(lost)
    BY <1>2, <1>3, <1>4 DEF Recording
  <1>6. QED
    BY <1>1, <1>5, Records

LEMMA BoxAborts ==
    ASSUME TypeOK, LedgerInv, NEW r \in CronRuns, Aborts(r)
    PROVE  BoxStep
  <1>1. AbortFrame(r) /\ UNCHANGED <<sent, excused, unrecorded>>
    BY AbortStep DEF AbortFrame, ghosts
  <1>2. ASSUME NEW q \in Runs
        PROVE  Standing(q)' = Standing(q)
    <2>1. row[q].status = "running" => row[q].json = "null"
      BY DEF LedgerInv, RunInv, OutputWhenSettled, Unfinished
    <2>2. row'[q] = row[q] \/ (row[q].status = "running" /\ row'[q].json = row[q].json)
      BY <1>1 DEF AbortFrame
    <2>3. QED
      BY <2>1, <2>2 DEF Standing
  <1>3. QED
    BY <1>1, <1>2, BoxStutters DEF SameStanding

LEMMA BoxSteps ==
    ASSUME IInv, OutcomeKnown, [Next]_vars
    PROVE  BoxStep
  <1>0. TypeOK /\ LedgerInv /\ NothingWhenDown /\ Delivery
    BY DEF IInv, LoopInv, SentInv, MarkInv, Delivery
  <1>1. CASE \E r \in Runs : Producer(r)
    BY <1>0, <1>1, BoxProduces DEF LedgerInv
  <1>2. CASE \E r \in CronRuns : Aborts(r)
    BY <1>0, <1>2, BoxAborts
  <1>3. CASE Quiet
    BY <1>0, <1>3, BoxQuiet
  <1>4. CASE Marking
    BY <1>0, <1>4, BoxMarking
  <1>5. CASE (BeginShutdown \/ CronStopped) \/ UNCHANGED vars
    <2>1. UNCHANGED <<row, sent, excused, unrecorded>>
      BY <1>0, <1>5, PhaseStep DEF PhaseFrame, ledger, ghosts, vars
    <2>2. QED
      BY <2>1, SameRows, BoxStutters
  <1>6. CASE StartFlush
    BY <1>0, <1>6, FlushStep, BoxForgets DEF FlushFrame, ledger
  <1>7. CASE AbortLoop \/ Exit \/ Crash
    BY <1>0, <1>7, HaltStep, BoxForgets DEF HaltFrame, ledger
  <1>8. CASE Restart
    BY <1>0, <1>8, BoxRecovers
  <1>9. QED
    BY <1>1, <1>2, <1>3, <1>4, <1>5, <1>6, <1>7, <1>8 DEF Next, Deliver, Quiet, Marking

LEMMA OutcomeKept ==
    ASSUME IInv, OutcomeKnown, [Next]_vars
    PROVE  OutcomeKnown'
  <1>0. TypeOK /\ LedgerInv /\ NothingWhenDown
    BY DEF IInv, LoopInv
  <1>1. ASSUME UNCHANGED <<dl, outcome>>
        PROVE  OutcomeKnown'
    BY <1>1 DEF OutcomeKnown
  <1>2. ASSUME dl' # "mark"
        PROVE  OutcomeKnown'
    BY <1>2 DEF OutcomeKnown
  <1>3. ASSUME NEW s \in {"delivered", "denied", "failed"}, Concludes(s)
        PROVE  OutcomeKnown'
    BY <1>3 DEF Concludes, OutcomeKnown
  <1>4. ASSUME NEW progress \in BOOLEAN, Back(progress)
        PROVE  OutcomeKnown'
    BY <1>4 DEF Back, OutcomeKnown
  <1>5. ASSUME Fail
        PROVE  OutcomeKnown'
    BY <1>3, <1>4, <1>5 DEF Fail
  <1>6. CASE \/ \E r \in Runs : Producer(r)
             \/ \E r \in CronRuns : Aborts(r)
    BY <1>0, <1>1, <1>6, OthersKeep
  <1>7. CASE ChatActive \/ ChatQuiet \/ (BeginShutdown \/ CronStopped) \/ UNCHANGED vars
    <2>1. UNCHANGED <<dl, outcome>>
      BY <1>0, <1>7, PhaseStep DEF PhaseFrame, ChatActive, ChatQuiet, attempt, vars
    <2>2. QED
      BY <1>1, <2>1
  <1>8. CASE StartFlush \/ AbortLoop \/ Exit \/ Crash \/ Restart
    <2>1. dl' # "mark"
      BY <1>8 DEF StartFlush, AbortLoop, Exit, Crash, Halt, FreshLoop, Restart
    <2>2. QED
      BY <1>2, <2>1
  <1>9. CASE Poll \/ LoopEnds \/ FetchNext \/ GateReady
             \/ \E shape \in {"text", "both", "files"} : SessionReplies(shape)
    <2>1. dl' # "mark"
      BY <1>9 DEF Poll, LoopEnds, FetchNext, GateReady, SessionReplies
    <2>2. QED
      BY <1>2, <2>1
  <1>10. CASE FetchNone \/ FetchFails \/ Hold \/ GateLookupFails \/ GateDenied \/ SessionFails
              \/ Interrupted
    BY <1>3, <1>4, <1>5, <1>10 DEF FetchNone, FetchFails, Hold, GateLookupFails, GateDenied,
       SessionFails, Interrupted
  <1>11. ASSUME NEW result \in SendResults, Text(result) \/ Files(result)
         PROVE  OutcomeKnown'
    BY <1>2, <1>3, <1>5, <1>11 DEF Text, Files, Begin
  <1>12. ASSUME NEW ok \in BOOLEAN, Header(ok) \/ OutcomeUnknown(ok)
         PROVE  OutcomeKnown'
    BY <1>2, <1>3, <1>5, <1>12 DEF Header, OutcomeUnknown, Begin
  <1>13. ASSUME NEW o \in IpcOutcomes, FetchRemembered(o) \/ GateRemembered(o) \/ Mark(o)
         PROVE  OutcomeKnown'
    BY <1>1, <1>4, <1>13 DEF FetchRemembered, GateRemembered, Mark, attempt
  <1>14. ASSUME NEW o \in IpcOutcomes, Dedup(o)
         PROVE  OutcomeKnown'
    BY <1>2, <1>4, <1>14 DEF Dedup
  <1>15. QED
    BY <1>6, <1>7, <1>8, <1>9, <1>10, <1>11, <1>12, <1>13, <1>14 DEF Next, Deliver

LEMMA BoxInit == Init => Box!Init
  <1> SUFFICES ASSUME Init PROVE Box!Init
    OBVIOUS
  <1>1. \A r \in Runs : Standing(r) = "none"
    BY DEF Init, Absent, Standing
  <1>2. QED
    BY <1>1 DEF Init, Box!Init

(* Every step of the tasks, the owner, the delivery loop, the shutdown and  *)
(* the restart settles, posts or records at most one result, supersedes     *)
(* results in favour of one that waits, or leaves every result where it     *)
(* stands: the whole ledger keeps the promise of Outbox.                    *)
THEOREM KeepsOutboxPromise == Spec => ImplementsOutbox
  <1>1. Init => OutcomeKnown
    BY DEF Init, OutcomeKnown
  <1>2. IInv /\ OutcomeKnown /\ [Next]_vars => OutcomeKnown'
    BY OutcomeKept
  <1>3. IInv /\ OutcomeKnown /\ [Next]_vars => [Box!Next]_(Box!vars)
    BY BoxSteps DEF BoxStep
  <1>4. QED
    BY <1>1, <1>2, <1>3, BoxInit, InductiveInvariant, PTL
       DEF Spec, ImplementsOutbox, Box!Spec

===============================================================================
