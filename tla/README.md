# TLA+ models of right-agent

right-agent runs one bot process per agent and one Aggregator process per host.
The Aggregator owns every agent's database, routes the agents' MCP traffic and keeps
the credentials of their external MCP servers; the bot talks to Telegram, runs
Claude sessions in a microVM, supervises that VM and calls the Aggregator over a local
socket. Work that outlives a chat turn (cron jobs, background continuations, memory
writes) crosses that boundary several times, and either side can stop between any two
steps. This project models that work: what is stored, who acts on it, and what
happens when calls fail, answers are lost, steps interleave or processes restart.

Layout: one `.tla` module per component, an `MC*.tla` module that instantiates it for
TLC, `.cfg` files with the instances, `*Proofs.tla` modules with the proofs, and
`PROJECT.json` with the map from definitions to source lines, the mutants that show each
property can fail, and the hazards the properties are for. Check a run with
`tlc -config <cfg> <MC module>`, the proofs of a component with `tlapm <component>Proofs.tla`
(CronScheduler, AsyncRuns, AgentOwner, McpBackend, McpTokens, ForegroundTurns,
SandboxSupervisor; `MemoryProofs` for RetainQueue and MemoryClient). `SoleOwner`,
`PendingRows` and `Outbox` are abstract specifications, which AgentOwner, the two memory
modules and AsyncRuns implement.

## Inventory

| Component | State | Operations | Hard part | Correct when | Status |
| --- | --- | --- | --- | --- | --- |
| Pending-retain queue (`right-memory/retain_queue.rs`, `right/retain_owner.rs`, `bot/retain_ipc.rs`) | `pending_retains` rows with claim token, lease, age | enqueue, claim, ack, nack, reclaim, drain | late and lost requests, crashes, lease expiry, cap | leases are exclusive, no silent loss, the queue empties | `RetainQueue`, `PendingRows` |
| Memory client (`right-memory/resilient.rs`, `circuit.rs`, `status.rs`) | breaker, status watch, calls in flight | recall, retain, bank, drain | status written from a stale reading, half-open probes, sticky status | status follows the breaker, outages end | `MemoryClient`, `PendingRows` |
| Run ledger (`right-agent/async_runs.rs`, `right/db_owner_ops.rs`) | `async_runs` rows: status, handoff, delivery | insert, spawn, persist, finish, fail, recover, fetch, mark, deduplicate | calls that are applied but not confirmed | status and output agree | `AsyncRuns`, `Outbox` |
| Async delivery (`bot/async_delivery.rs`) | attempts, remembered runs, current attempt | poll, deduplicate, gate, run a session, send, mark, flush | partial sends, refused marks, shutdown in the middle | a result is posted once and always settled | `AsyncRuns`, `Outbox` |
| Background continuations (`bot/background.rs`) | a task per run | enqueue, handoff, complete, fail | stop between queueing and spawn | no run without an owner | `AsyncRuns` |
| Cron scheduler (`bot/cron.rs`, `bot/upgrade.rs`, `right-agent/cron_spec.rs`) | `cron_specs`, lock files, loops, executions, upgrade lock | reconcile, fire, trigger, execute, delete, upgrade, shut down | check-then-act on lock files, edits under a running job | no overlap, no upgrade under a job, one-shots run | `CronScheduler` |
| DB owner and agent routing (`right/db_owner.rs`, `right/internal_api.rs` reload, `right/aggregator.rs`) | owners, connection mutex, three routing maps | open, with_connection, drain, reload, restart | drain races with calls, reload dropped half way | one owner per agent, maps settle on the token file | `AgentOwner`, `SoleOwner` |
| MCP credentials (`right-mcp/refresh.rs`, `reconnect.rs`, `credentials.rs`, `right/mcp_persistence.rs`) | row, backend token, scheduler entry and timer | set-token, add, remove, headers, refresh, reconnect, restart | results of superseded refreshes | the last mutation wins | `McpTokens` |
| MCP proxy backend (`right-mcp/proxy.rs`, `health.rs`) | session, status, two locks | connect, tool call, probe, reconcile | rebuilds by several callers | one connect at a time, recovers | `McpBackend` |
| Telegram worker (`bot/telegram/worker.rs`, `handler.rs`, `mod.rs`, `dispatch.rs`, `bot/idle_compaction.rs`) | worker map, stop tokens, background requests, handoff gate, session locks | receive, turn, stop, background, hand off, sweep, shut down | check and act on shared maps, clicks that come late | a session has one process, controls reach the turn | `ForegroundTurns` |
| Sandbox supervisor and providers (`bot/sandbox_runtime.rs`, `sandbox_supervisor.rs`, `config_watcher.rs`, `sync.rs`, `telegram/dashboard/providers.rs`) | health, handle, reports, sync task, declarations, bindings, provider lock | probe, degrade, bring up, reload, dashboard requests | stale convergence, lock held through a backoff | the sandbox is found and replaced, its credentials converge | `SandboxSupervisor` |
| Skill learning, code generation, wizards, dashboard views, migrations, speech to text, memory alerts, content conversion | files, tables | - | - | - | not modelled, see below |
| `vendor/microsandbox` | - | - | - | - | third party |

Components meet in these ways: the bot calls owner operations (each one transaction) and
does not retry them; cron executions and background tasks write the rows which the delivery
loop reads; turns, delivery and compaction meet at the session lock; the memory status, made
by every call of Hindsight, gates the drain loop; a retain that fails goes into the queue; the
supervisor, the provider reload and the dashboard share one lock; the shutdown sequence of
`bot/lib.rs` stops cron, then the delivery loop, flushes, and waits for the supervisor.

## The modules

### RetainQueue

Rows are numbered by insertion, time is relative (`Tick` ages rows and runs leases
down). `Enqueue`, `Claim` and `HandleSettle` are the owner's three transactions;
`StartDrain`, the `Post*` actions and `Settled` are the drain loop, which visits a
batch row by row. A request is in `req` between the drainer that sent it and the
owner; `Lose` drops it, `BotCrash` leaves it under way for a dead drainer, so
that it can be handled after its successor has claimed the row again. `OwnerRestart`
loses every request and reclaims. The memory status is arbitrary here (`StatusChange`).
Row contents, the attempts counter and document ids are left out because no guard reads them.

### MemoryClient

Where the memory status comes from. `call` holds one call of `call_with_policy` per caller:
the worker's recall or retain (`Start`, `Finish`), the bank request of the start and its
background probe (`ProbeBank`, `BankReturns`), and the drain loop (`DrainTick`,
`DrainReturns`). Each attempt is admitted by the breaker (`Admit`), answered (`Answer`, which
classifies and records), and leaves its mark on the status in steps of their own: `ClearQuota`,
`SetAuthFailed`, `SetQuotaExhausted`, and for `refresh_status` first `ReadBreaker`, then
`WriteStatus`, between which any other call may move breaker and status. Breaker refresh is
part of `Tick`; a tick stands for the 30 seconds of WINDOW and INITIAL_OPEN. `raced` records
that the last write of the status came from a reading that no longer held.

Retries are scaled to the threshold (a bank request alone never reaches it, a retain may). A
prefetch is a recall whose retry is left out. Rejected retains are counted for an alert in the
code; no guard reads the counter. The Aggregator has a wrapper of its own, with its own breaker.

### PendingRows

What both halves of the memory path promise, without leases, drainers, crashes or circuits: a row
is `pending` until Hindsight took it (stored it, or refused its content), until it is `late`, or
until newer rows push it out of a full queue, oldest first. `KeepsPromise` states in RetainQueue
and in MemoryClient that the module implements it. In RetainQueue a row is `taken` once
Hindsight accepted or rejected it, and `late` past the age cap whoever holds it. In MemoryClient
`took` records that Hindsight took the row which the drain loop posted, until the row leaves; what the drain
loop hears of the call (`Heard`) must agree with it, although a refused attempt, an outage and a
refused row all come back through the same `call_with_policy`. The cap of MemoryClient is the bound
on its rows, so there only the two other reasons remain. The two modules are not composed into one:
each has what the other abstracts (leases and lost requests; breaker and status), and the
common abstract specification says that neither abstraction hides a lost row.

### AsyncRuns

`row` is the ledger, one record per run id. Every owner call is taken with an
outcome: `ok`, `lost` (applied, but the caller sees an error) or `down`. The tasks
that own a run (`StartCron` to `CronReports`, `EnqueueBackground` to `BgFails`)
follow `execute_job` and `spawn_background_continuation` call by call. The delivery
loop is one state machine (`dl`) from `Poll` to `Mark`; the shutdown flush is the same
machine with a new memory, started by `StartFlush`. A Telegram request is `sent`,
`failed` or `lost` (reported as failed although something arrived, which includes a
batch of files that failed half way); shutdown may cut a request before it starts
(`Interrupted`) or after (`OutcomeUnknown`).

Two records of the model are not state of the program: `excused` names runs whose
second posting has a known cause (its result was recorded twice, the loop's memory
was lost during an attempt, Telegram took a request it reported as failed), and
`unrecorded` names runs with an outcome that the owner did not take.

Left out: the NoTarget and malformed-JSON branches (an insert always has a target
here and only valid JSON is written); `retryable`, which nothing writes; the
early return of a verification run whose notice cannot be built (`cron.rs:1266`); the
idempotency table (request ids are fresh and calls are not retried); an owner call of
an aborted execution that arrives after the abort; several attachment batches
(one batch may fail in part).

### Outbox

What the ledger, its writers and the delivery loop promise together, without tasks, polls,
Telegram requests, memory or restarts: a recorded result waits (`pending`) until it is settled
once, as delivered, denied, failed or superseded; its body is posted only while it waits, at most
once, and before it counts as delivered; a superseded result gives way to one that goes on
waiting. `ImplementsOutbox` states that AsyncRuns implements it. `Standing` is where a result
stands: its `delivery_status`, or nothing while `delivery_json` is NULL (an aborted execution has
the status `pending` without anything to send, so the status alone is not enough).
The exceptions are explicit, because the code has them: the second output of a run (a background
success whose answer was lost is overwritten by its failure notice) opens what was settled, and
that run may be posted again; a run may also be posted again when the loop's memory of it was
lost or Telegram took a request that it reported as failed (`again`, which is `excused`); a mark
of a run with another outcome that did not get through is later made good as delivered (`missed`,
which is `unrecorded`).

### CronScheduler

`spec` holds a version per job: each creation or change gives a new one, so the
model can tell an edited specification from the one an execution was started for.
`lock` is the time left of a lock file, 0 when it is missing or stale. The
reconciler takes a snapshot (`LoadSpecs`), fires due one-shots, updates the loops and
fires triggers, one job per step; users act between any two of these. `Execute` is
`execute_job`: lock check, wait for the upgrade lock, write of the lock file, insert,
run, removal of the lock file, settling, deletion of a one-shot specification by the
drop guard. `gap` records that two executions of a job got past its lock check
together, that the lock of a running one expired or that cron_delete removed it.

`accounted` is a record of the model for `OneShotSettles`: the versions of due one-shots of which a
run came to the end of its session, or which something else took. A version may leave
`cron_specs` unrun, and the drop guard of `execute_job` does so more often than a reader of
`sessions.md` expects: a user replaced or deleted it; writing the lock file, inserting the run, its
prelude or its spawn failed; shutdown aborted it, or a crash cut the run of a specification that
was already deleted; the lock file of a run of an earlier version, or of one just aborted, turned it
away; or the deleter of an earlier version's run, which goes by name, took it along. Nothing else may:
a lock file left by a crashed execution only delays the job, because `fire_one_shot_specs` looks at
the lock before it hands the job to an execution and its drop guard.

The model has no clock for the five-second tick, so any number of ticks may pass
during a step. RunAt jobs before they are due, schedule parsing and what a run
records (see AsyncRuns) are left out.

### AgentOwner and SoleOwner

`own` holds the owners ever opened with their state, the queue of their connection mutex and
their learning task; `reg`, `disp` and `tmap` are the three routing maps of the Aggregator.
A request takes an owner from the map, checks its state, joins the queue, and leaves it
(`Request`): three steps, as in `with_connection`. `Reload` is `handle_reload` step by step: new
agents are opened, inserted and routed, tokens rotated, removed agents drained (the drain joins
the queue behind what is there), unregistered and forgotten, and the handler's future may be
dropped at any wait. `Restart` builds the owners from the token file.

`SoleOwner` says the same without registries, queues or reloads: an agent's tenures follow one
another, an operation is admitted by an open tenure, a shut tenure never opens again.
`ImplementsSoleOwner` checks the refinement: a tenure is open while its owner is Ready, and a
client is inside from its check of the state until it released the mutex. What a drain does not
wait for (a client between check and queue) is in `late`.

### McpTokens

The row of one OAuth server, the token of each backend ever built, the scheduler's entry with its
generation and timer, the refreshes in flight, the start-up reconnect task, and the dashboard's
requests (`hs`) with the mutation lock. Tokens are pairs of a grant (one per authorisation) and
a counter, so that the model can tell an older grant's token from the current one. The provider
may rotate the refresh token, refuse it or fail. `last` is the last committed mutation; `raced`,
`late` and `lost` name the known exceptions: a set-token that overlapped another mutation before
it had the lock, a reconnect task that went on after it was cancelled, and an entry given up.

### McpBackend

Status, session and the two locks of one proxy backend, with everybody who rebuilds the
session: tool calls, the plain connect, the reconciler, and the readiness probe of set-token.
`connect` is one state machine shared by all (`Connect`): wait for connect_mutex, talk to the
server, and, unless it is staged, store the instructions under the mutation lock.

### ForegroundTurns

One chat: worker map, the workers' tasks (`wk`), the handlers' two steps, stop token, background
request, handoff gate, session locks (a lock object per session, which the hourly `Sweep` may
drop while tasks still refer to it), delivery, idle compaction, and the shutdown's two tasks.
A worker goes from its batch through the gate, the lock, registration, the last check of the
stop token, the process and its end to reply, reflection or handoff. `overlap` is a history
variable: it becomes TRUE when two turns of the chat are in flight together, which /new and
/switch, or two handlers, can bring about; the maps have one entry per chat, so what the buttons
reach is then undefined, and the properties about buttons and gate say so.

Steps merged or narrowed: /new and /switch end the session, drop the sender and create the new session
in one step (`handler.rs:608` to 651); a schema-loop error on a session's first call ends it here
like any other failed first call, while `worker.rs:5578` returns earlier; compaction is armed only by
a turn that replied, though stopped, silent and refused turns arm it as well (`worker.rs:3593`); after
a failed send the handler goes on to spawn a worker without a second look at the map.

### SandboxSupervisor

Health and handle (two stores, in the code's order), the report channel of capacity one, the
chats that were refused, the VM with the bindings it has, the sync tasks, agent.yaml with what
the watcher and the bot have seen of it, the provider store, and the fair queue of
provider_mutation. `op` is what each user of that lock is doing: the supervisor's bring-up, the
reconcile task with its retries, and each dashboard request, of which rotate and update converge
after they let go of the lock. The agents a provider is shared with are the environment: `PeerShares`
binds a provider here and attaches it at once, `OwnerChanges` rotates or updates a shared record, of
which this agent hears nothing, and `PeerReconciles` converges this sandbox with the sharer's own
resolver, outside this agent's lock, keeping, losing or replacing any binding. The model does not
record who owns a record, so any stored provider may be changed by another agent, and this agent may
rotate one that it borrowed: more than the code allows, never less. Credentials are versions per provider. `excused` collects the
providers for which a difference between sandbox and store has a known cause, and is left again
once an application finds them equal: a call failed; the store moved while an older version was on
its way to the sandbox; an edit restored the text the watcher had read (`Overlooked`); the owner of a shared record changed
it, or a sharing agent reconciled this sandbox; or neither
the accepted configuration nor the one to be accepted named the binding when the reconciliation
began, which removes only what it knows (`Orphaned`). ConvergedWhenQuiet is therefore a statement
about what this agent is told; for a provider that another agent changed it promises nothing.

Steps merged: the provider store and agent.yaml change together (the code writes one, then the other,
and rolls back); the preflight of borrow and remove is part of `MutateRefused`; an application
that restarts the VM for a restart-backed secret (`handle.rs:482` to 531) leaves it running here, the
failure of that restart being one of the faults.

## Runs

Passing runs take one to five minutes with 2 workers:

| Run | Instance | States | Shows |
| --- | --- | --- | --- |
| `retain_queue` | 2 rows, cap 1, lease 1, age 1, 2 bots, 3 tokens | 68,000 | LeaseHonoured, NoSilentLoss, EveryRowLeaves, KeepsPromise |
| `memory_client` | a worker's call, bank, drain loop, 2 rows of which one is never taken, threshold 2, 1 change of what Hindsight answers | 261,000 | StatusSettles, OutageEnds, RowsDrain, KeepsPromise |
| `async_runs` | 2 cron runs of one job, 2 failed calls, 2 attempts | 617,000 | SuccessHasOutput, DeliveredWasSent, SupersededByNewer, ImplementsOutbox |
| `async_runs_restarts` | 1 cron and 1 background run, 1 attempt, 1 failed call, 1 stop | 677,000 | QueuedHasOwner, DuplicateNeedsFault, PendingSettles |
| `cron_scheduler` | an immediate, a one-shot and a recurring job, 2 executions, 1 edit, 1 trigger, 1 failed call, 1 stop | 376,000 | UpgradeExclusive, OverlapNeedsGap, LockHasRunner, OneShotSettles |
| `mcp_tokens` | 2 requests of any kind, 2 refreshes, 1 failure, 1 restart, rotating provider | 476,000 | LastMutationWins, RefreshStaysScheduled, StaleResultDiscarded |
| `mcp_backend` | a tool call, 1 set-token, 2 strikes, 2 attempts, 3 upstream events | 252,000 | AuthDeathSticks, GivesUpAfterStrikes, UnreachableRecovers |
| `agent_owner` | 2 agents, 1 client, 2 tokens, 4 owners, 2 edits, 1 fault | 407,000 | DrainWaitsForQueued, NoStaleToken, ImplementsSoleOwner, SettlesOnDisk |
| `foreground_turns` | 2 workers, 2 messages, 2 turns, 2 commands, clicks, deliveries or failures | 976,000 | LockedExclusive, ShutdownReachesTurn, ReplySurvivesClick, GateCoversHandoff, GateReleases |
| `sandbox_supervisor` | 1 provider, 1 chat, 1 request, 2 connections, 1 fault, 1 step of another agent, 1 retry | 218,000 | SyncFollowsSandbox, ConvergedWhenQuiet, Recovers, AffectedTold, ShutdownEnds, RequestsAnswered |

The type invariants, and bounds such as QueueWithinCap (which KeepsPromise implies),
OneReadyOwner and ConnectExclusive, are not in a row of their own: the theorems cover them. The supervisor's run starts either with a sandbox that was found, or
without one and with every provider stored; the second connection is the one after a degradation.

Why the bounds are enough. In the queue, a row must be leased, expire and be leased
again to another drainer while the first one's request is under way, and an insert must meet a
full queue with a leased row: two bots, one tick of lease, one row of cap; its safety is proved
for every cap and batch. Two rows at once, the first of them never taken, are the instance of
`memory_client`, where a half-open circuit, a doubled opening and the threshold are reached, and
one change leads from each failure of Hindsight to its return or the reverse. Deduplication needs
two runs of a job. A run remembered behind an older pending one (`GateRemembered`) takes two
failed calls. A stop is a crash or a shutdown; a restart follows each. A cron beside a background
run makes the delivery loop, the abort of executions and the recovery of handoffs meet. Two
executions are what an overlap takes; the invariants are proved for any number of edits. What a
second version of a job adds to `OneShotSettles` takes two edits: the immediate job alone, with two
edits and either no trigger (79,000 states) or no stop (228,000), was checked with the same result,
and shows that each exception about another version and about cut runs is needed.
A superseded refresh takes two grants; two requests give every pair of mutations, before, during
and after a restart. Two strikes make a count that may be reset; three events take a server away,
bring it back and let its token die. Two agents let one be removed while another is added; two
edits change the token file under a reload. Two turns make the second message meet the first
turn, its gate and its session. One provider with one request, one step of another agent and the
supervisor is three users of the provider lock; with two such steps (906,000 states) the invariants
were checked, the liveness properties take too long. Delivery across a restart has one attempt per
run, so its retry count is met by `async_runs` only. Behaviours may end at a bound (all runs used, all stops
taken), so deadlock is checked only where the system never stops: RetainQueue, MemoryClient and
AgentOwner.

Runs that find a disagreement between code and documentation, one property each
(details and quotations in `PROJECT.json`, findings):

| Run | The code | The documentation |
| --- | --- | --- |
| `fresh_token_overwritten` | the start-up reconnect looks at its cancellation only around the refresh: once answered, it stores the old grant's token over the one set-token has just stored | the loop is cancelled so it does not overwrite the fresh token (`reconnect.rs:3`) |
| `set_token_deadlock` | set-token holds the mutation lock and waits for connect_mutex, a plain connect holds connect_mutex and waits for the mutation lock, neither with a deadline | set-token runs a bounded retry loop (`mcp.md:99`) |

## Disagreements without a run

Seen while modelling; the modules reach those that lie in their scope, no run states them.

- A one-shot fires twice: its lock file goes before its specification (`cron.rs:1193` against
  `sessions.md:423`).
- A due one-shot is deleted unrun when its lock file cannot be written, its insert is refused, its
  prelude or spawn fails, or the lock of an earlier version's run turns it away (`cron.rs:2211` to
  2232, the drop guard), although it "fires once [...], then deletes" (`sessions.md:423`, 424).
- A cron run aborted at shutdown gets no delivery_json and is never fetched (`sessions.md:498`).
- Every cron run is inserted with force_notify false, so the idle gate holds a forced one
  (`sessions.md:447`).
- A loop started while a forced trigger is pending keeps the flag (`sessions.md:453`).
- After a refresh with a rotating provider, the scheduler's entry keeps the old refresh token, and
  the next refresh fails for good (`refresh.rs:445`).
- The reflection on a failed turn resumes the session after its lock was dropped
  (`reflection.rs:349`); `LockedExclusive` excepts it.
- At shutdown the lifecycle future may look for handoff gates before the signal task has raised
  any (`dispatch.rs:310`).
- A drain may miss an operation that had read Ready but not joined the queue (`db_owner.rs:299`);
  `late` in AgentOwner.
- A chat refused after the affected set was taken, and before Ready is visible to it, gets no
  back-online notice (`sandbox.md:210`).
- Every hard error of a bring-up ends the supervisor, also one that would heal: a resolver that
  does not answer (`sandbox_supervisor.rs:259` to 266 keeps hard errors for what cannot heal).
- Rotate and update converge outside the lock, and only in the agent that asked: a sandbox that
  borrows the record keeps the old credential until something else reconciles it
  (`dashboard/providers.rs:223`; `providers.md:139`, `telegram/dashboard.rs:174`).
- An agent that shares a provider reconciles the borrower's sandbox from its own process, with its
  own resolver and without the borrower's provider_mutation (`dashboard/providers.rs:697`,
  `provider_bindings.rs:35`).
- A declaration removed while the sandbox is unavailable is not removed by the next bring-up
  (`lib.rs:781`, `providers.md:173`).
- A hand edit of agent.yaml that drops a provider does not unbind it: bindings come from the store.
- The start-up clean-up of old memory alerts runs beside the first check, which may be suppressed
  by a row that is deleted right after (`memory_alerts.rs:34`).

## Fairness

RetainQueue: time passes, a drain tick that started proceeds, each request is handled
or lost. Drain ticks recur every 30 s and are skipped unless the status is Healthy at
that moment, so `StartDrain` is strongly fair; so is the handling of claims, since a claim
sent again and again over a local socket is not lost every time. Answers, acks and
nacks may all be lost. EveryRowLeaves assumes that the status returns to Healthy
infinitely often.

MemoryClient: every attempt has a timeout and the backoffs end, so each caller proceeds; time
passes; the probe's minute and the drain loop's interval elapse, the latter strongly fair for
the same reason as above. Nothing is assumed of the worker: OutageEnds and RowsDrain are
conditional on Hindsight being back for good and on recalls that reach it again and again
(`Talking`), because neither the drain loop nor a timer ever asks the breaker on its own.

AsyncRuns: the delivery loop is always polled again (its sleep, its session and its
Telegram requests have timeouts), the chat becomes quiet again, shutdown has deadlines
(`SHUTDOWN_JOB_TIMEOUT`, `ASYNC_DELIVERY_SHUTDOWN_TIMEOUT`) and process-compose restarts the
bot. Nothing is assumed of the producers. PendingSettles is conditional on chats that
eventually stay quiet: a chat that is never idle holds results for ever, by design.

CronScheduler: the reconciler ticks, executions and upgrades end
(`CRON_RUN_TIMEOUT`), time passes; a reader queued at the tokio RwLock gets it when the
writer leaves, hence strong fairness of `Enter`.

McpBackend: every caller proceeds when it can (the network calls have timeouts, the reconciler
has an interval); the tokio mutex is fair, hence strong fairness of the readiness probe at
connect_mutex. UnreachableRecovers excepts the crossed locks of `set_token_deadlock`.

AgentOwner: a reload that started proceeds, requests and learning tasks leave the mutex. Edits,
faults and new requests are free. SettlesOnDisk demands nothing once a fault happened.

ForegroundTurns: worker tasks proceed, since a Claude process is killed at its timeout. Handlers,
users, delivery, compaction and shutdown are free. McpTokens checks safety only.

SandboxSupervisor: supervisor, reconcile task, sync task and dashboard requests proceed; provider
lock waiters are served in order, as tokio's mutex does. An attach that is tried again and again
meets a running VM at some time (`SF` of `Attach`), which the bound on faults brings about.

## Proofs

`MemoryProofs` proves of RetainQueue, for all constants that satisfy `ConstantsAssumption`
(positive cap, batch, lease and bounds; the null token is not a token):

- `TypeCorrect`: `Spec => []TypeOK`;
- `LeasesAreHonoured`: `Spec => []LeaseHonoured`;
- `NothingLostSilently`: `Spec => []NoSilentLoss`;
- `QueueStaysWithinCap`: `Spec => []QueueWithinCap`;
- `QueueKeepsPromise`: `Spec => KeepsPromise`, the refinement of PendingRows.

The first three follow from its `InductiveInvariant`. LeaseHonoured is not inductive by itself: an
ack of an old drainer could carry the running drainer's token, and a drainer could believe
that its lease lasts longer than the owner does. The strengthening adds `OwnRequest` (a
drainer that waits has its own request outstanding, and one that posts has none),
`NoStaleToken` (no request of a dead incarnation carries the running drainer's token),
`LeaseView` (as long as the drainer believes its lease to last, the owner's lease on every
remaining row of the batch carries its token and lasts exactly as long) and, for NoSilentLoss,
`SettleBacked` (an ack or drop in flight is backed by what Hindsight answered). Each action
has one step in the proof, with one sub-step per part it can disturb. The cap needs
`OldestTakes`: what LIMIT k leaves of a table is empty or k rows smaller, because its least row
has at least k rows before it, all of them taken. The insert after the eviction is the only step
that adds a row. The refinement needs `RowInv`: the cap, ages of rows that are in the table
(`RowAges`), and answers only for rows that were inserted (`AnsweredRows`); `SettleBacked` says that an
ack or drop under way has its answer. Every step is then `Insert` (eviction and insert are one), `Settle`, `Take`, `Age`,
`Expire` or a stutter; that only a full table evicts, and the oldest rows first, is
`EvictsWhenFull` and `OldestFirst`.

The same module proves of MemoryClient, instantiated as `Client` beside RetainQueue:

- `ClientTypeCorrect`: `Client!Spec => []Client!TypeOK`;
- `StatusSettlesOnceIdle`: `Client!Spec => []Client!StatusSettles`;
- `ClientKeepsPromise`: `Client!Spec => Client!KeepsPromise`.

StatusSettles says nothing while a call is under way, so it cannot be inductive. `ClientInv` adds
`SettlerUnderWay`: when status and breaker disagree, and the status is not sticky nor
written from an overtaken reading, some call is between its admission and its last write. An answer
that moves the breaker leaves its own call on the way to `refresh_status`, a tick only takes an open
circuit to half open, and a write from a reading that still holds makes the two agree. The other parts are
types (`BreakerTyped`, `StoreTyped`, `FlagsTyped`, `CallsTyped`), `RoomForRetains` (each retain under
way has a row number left) and `DrainHasRow` (the row that is posted is still at the head: retains
only append). All steps of a call go through `Moved`, which changes one caller's record, so each
lemma is stated once for them. The refinement adds `ClientOrdered` (the queue is in insertion
order without repetition), `AgesFresh` (a row outside the queue has no age) and `DrainKnows` (the drain
loop's outcome is "ok" exactly when Hindsight took the row).

`CronSchedulerProofs` proves, for any sets of jobs and executions and any bounds that satisfy
`CronSchedulerAssumption` (the three kinds of job are disjoint, the TTL is positive):

- `CronTypeCorrect`: `Spec => []TypeOK`;
- `UpgradeIsExclusive`: `Spec => []UpgradeExclusive`;
- `OverlapOnlyThroughGap`: `Spec => []OverlapNeedsGap`;
- `LocksHaveRunners`: `Spec => []LockHasRunner`.

They follow from its `IInv`. TypeOK needs `SnapOK` and `LoopsOK`: what the reconciler still has
to fire, and what a loop holds, was present when it was loaded, so that an execution never
carries the version 0. OverlapNeedsGap needs `WaitersInGap` (an execution past the lock check
beside another one past it is in the gap) for the step that writes the lock file, and
`RunnerHasLock` (outside the gap a running execution has a fresh lock) for the lock check: an
execution that passes the check cannot have a running peer unless the lock was lost. Steps that
only start, end or release an execution are covered by `SafeWhenIdle` and `SafeWhenReleased`,
the others have a lemma each.

`AsyncRunsProofs` proves, for any runs, jobs, attempts and faults (`AsyncRunsAssumption`), TypeOK,
`SuccessIsRecorded`, `QueuedIsOwned`, `NoDuplicateWithoutFault`, `DeliveredIsSent` and the action
property `DedupKeepsNewest`. Its `IInv` has five parts: types; `LedgerInv`, which ties each row to
the task that owns the run and to the answers that task may still wait for; `LoopInv`, what the
delivery loop remembers of the run it has in hand; `SentInv` and `MarkInv`, which say that a run
whose body may reach the chat again is excused, and that a mark is written only for what was
sent. An owner call is `ok`, `lost` or `down`, so each step that calls the owner has the three
cases. `finished` is an order relation, so that "the newest of its job" needs no induction.

`KeepsOutboxPromise` is the refinement `Spec => ImplementsOutbox`. There is a lemma per kind of
step: `BoxPersists` (an output is recorded, whatever becomes of the answer), `BoxArrives` (a request
posts the body, or nothing), `BoxMarks`, `BoxDedups`, `BoxForgets` (crash, exit, abort and the start
of the flush), `BoxRecovers` (start-up) and `BoxAborts`; all other steps leave the box as it is. They
use `IInv`: `FreshAttempt` for a post, `RememberedWasSent` and `MarkedWasSent` for a settlement,
`OutputWhenSettled` for a record and an abort. `OutcomeKnown`, a small invariant of its own, says that
only an attempt that was concluded is marked.

`AgentOwnerProofs` proves, for any agents, clients, tokens, edits and faults:

- `SoleReadyOwner` and `Refinement` (`Spec => ImplementsSoleOwner`, step by step), from `RouteInv`:
  which owner of an agent can be ready at each point of a reload (`ReloadOwner`, `Building`,
  `Removing`, `ReadyRouted`, `Active`);
- `DrainIsComplete`, from `QueueInv`: a drain is in the queue once, whoever was in it before is in
  front (`Behind`), and nobody is left when it closes (`NoneLeft`). A waiter that gives up leaves the
  others in their order (`Kept`), which is a fact about folds stated with a monotone index map;
- `StaleTokensAreRefused`, from `TokenInv`: which tokens the bearer map can have for an agent at each
  step of a reload, among them those of the file that the reload read.

`McpBackendProofs` proves types, `ConnectsAreExclusive`, and the action properties
`AuthDeathIsKept` and `GivesUpOnlyAfterStrikes`, for any callers and any limit of strikes. The
latter needs `StrikesCounted`: the reconciler's counter is at most the number of misses in a row.

`McpTokensProofs` proves, for any number of requests, refreshes, failures and restarts, with or
without rotation, TypeOK, `StaleResultsAreDiscarded`, `LastMutationIsShown` and
`OauthStaysScheduled`. The invariant has two layers. `PartsInv` holds whatever overtook what: the
lock has one holder, a removal in the channel has its waiting request, a request makes one grant,
a current refresh belongs to the entry and was not cancelled. `Credentials` holds while no
set-token overlapped another mutation (`~raced`) and the reconnect task heeded its cancellation
(`~late`); neither is ever reset. Its parts hold only together: `Routed` (row and backend are of the
last mutation), `InFlight` (every message, entry and refresh is of the grant of the row), `Calm` (a
request that the scheduler has answered finds channel, loop and entry empty), `Reconnects` (a live
reconnect task is alone with the row it was given) and `Scheduled` (a grant that was not given up
has a message, an entry with a timer or a refresh, or the reconnect task). So a mutation finds
nothing under way that could write an older token, and the settled state follows.

`ForegroundTurnsProofs` proves, for any workers, handlers, messages and turns,
types, `SessionsAreExclusive`, `ShutdownReachesEveryTurn`, `RepliesSurviveClicks` and
`GateCoversHandoffs`. `IInv` has `LockInv` (the map still has the lock object of
every task that refers to one, so the sweep took only objects nobody refers to, and an object has
one holder), `TurnInv` (a token in the map is
of the turn that registered it, and turns of a chat that do not overlap are alone) and
`RequestInv` (a request, the shutdown's mark and the gate belong to a turn that is still there). That
a new lock object is always free is a counting argument over everybody who may hold one; it showed
that the bound on objects first chosen for TLC, one more than the tasks, is too small in general.
Steps of a worker are summarised by what they leave alone (`WorkerFrame`, `LockFrame`, `TurnFrame`,
`RequestFrame`), and each invariant is proved from these.

`SandboxSupervisorProofs` proves, for any providers, chats, requests, connections, failures, steps
of other agents and retries, types, `MutationExclusive` (the provider lock excludes), `SyncTaskFollows` and
`CredentialsConverge`. `LockInv` says that whoever is past the lock is at the head of its queue, and
that the queue has exactly those who wait or are past it; `LockStep` proves it once for a step that
stays, arrives or leaves. `StaleInv` is what ConvergedWhenQuiet needs at every state before the quiet
one: a binding that differs from the store and is not excused is still `Pending`, in the hands of a
supervisor that has yet to resolve (`Outage`), of the watcher or its task (`Heard`), of a
reconciliation that knows it (`Coming`) or of a request (`Serving`). The attempt to prove it corrected
the model: with two providers, which the run does not have, an edit that restores the text may
leave the other provider stale, and a stale convergence may forget a binding; both are excused now
where they happen.

No assumption is made beyond the named ones on the constants, which TLC evaluates in the runs. The
theorems about MemoryClient have its `MemoryClientAssumption` as a hypothesis (`ClientConstants`),
since an instance does not bring the assumption with it; the run `memory_client` evaluates it.

Model-checked only: the liveness properties (EveryRowLeaves, OutageEnds, RowsDrain, PendingSettles,
OneShotSettles, UnreachableRecovers, SettlesOnDisk, GateReleases, Recovers, AffectedTold,
ShutdownEnds, RequestsAnswered), which need fairness and ENABLED and so are outside the
prover's reach. Every invariant, action property and refinement of a passing run is a theorem. No
module declares a RECURSIVE operator, and no theorem needs induction over data.

## Not modelled

- Skill learning (prompts in sequence, a ledger of plain queries), code generation and wizards
  (files and terminal dialogue), migrations (data definition), dashboard views, login, speech to
  text, rich content, path and process helpers: no concurrent state of their own.
- Memory alerts: a read and a write of one row around a broadcast.
- In the worker: debouncing, attachments, prompts, texts, and the other users of session locks
  (the learning probe, the curator, a cron job's `then` action). In the supervisor: backoff
  durations, the keepalive of the sandbox, the sandboxes of the agents a provider is shared with (what
  those agents do to this one is modelled). In the
  Aggregator: the MCP transport, tool schemas, OAuth discovery. In the owner: queries that only
  read, and the backup, which is the same drain.
- The microVM itself (`vendor/microsandbox`) and the services behind HTTP are external: their
  answers are nondeterministic choices.

The repository has some 143,000 lines of implementation, tests beside the code included; about
three quarters are dialogue, rendering, file generation and queries, which these models leave
aside on purpose.

## Plan

Done: the composition of queue and client planned at first is replaced by their common abstract
specification, PendingRows. Left:

1. A finer shutdown of the cron loops, with executions spawned while they are aborted.
2. The other users of session locks in ForegroundTurns (learning probe, curator, `then` actions).

## Hazards without a property

Eight, listed with their lines in `PROJECT.json`. The modules reach all of them; the properties next
to them except them by name, because no document decides the case or the code decides it the other way:

- the one-shot deleter goes by name (`cron.rs:2239`), so a one-shot that is edited or re-created while
  its predecessor runs is deleted without having fired (`accounted` names it);
- the failure notice of a background run may overwrite its stored result (`background.rs:572`; `excused`);
- requests on an MCP server read the backend and cancel the refresh before the mutation lock
  (`internal_api.rs:920`; `raced`, `late`), and a failed mcp-add does not bring back the
  schedule it cancelled (`internal_api.rs:638`; `lost`);
- a scheduler entry keeps a refresh token that the provider has replaced (`refresh.rs:445`; `lost`);
- a reload whose caller goes away leaves the routing maps torn (`internal_api.rs:1306`): NoStaleToken
  excepts it, SettlesOnDisk asks for nothing after a fault;
- a value applied by a stale convergence stays until the next one (`dashboard/providers.rs:238`);
- a chat refused between `take_affected` and Ready is not told (`sandbox_runtime.rs:121`).

Known gaps outside the listed hazards: a bot that crashes leaves its running rows as they are
(documented); a second trigger between the reconciler's load and its clear is lost unseen; an
agent that cannot be built ends a reload before its removals; with two turns in flight the
buttons reach the later one or none; a /new between the two steps of deactivate_session_if_active
loses the session it chose; a reconciliation does not remove a binding that the accepted
configuration no longer names (`lib.rs:777`), nor does the watcher notice an edit of agent.yaml that
restores the text although the store has moved (`config_watcher.rs:55`).
