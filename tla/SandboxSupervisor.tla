------------------------- MODULE SandboxSupervisor -------------------------
(* The supervisor of an agent's sandbox and the provider credentials in it:  *)
(* crates/bot/src/sandbox_supervisor.rs, sandbox_runtime.rs, the provider    *)
(* reconcile task of lib.rs, config_watcher.rs, the sync task, the sandbox   *)
(* gate of the worker and the provider routes of the dashboard.              *)
(*                                                                           *)
(* The supervisor alone publishes health and sandbox handle, in two stores.  *)
(* It probes on a coalesced failure report, degrades, and brings the sandbox *)
(* up again under the provider lock, which it shares with the reconcile task *)
(* and the dashboard.  Rotation and update converge after releasing it.      *)
EXTENDS Naturals, FiniteSets, Sequences

CONSTANTS Providers,   \* credentials, one environment variable each
          Chats,       \* chats whose messages pass the gate
          Reqs,        \* dashboard requests, each made once
          MaxConns,    \* connections to the sandbox, one per attach
          MaxFaults,   \* failing calls, crashes and reboots of the virtual machine
          MaxEdits,    \* steps of other agents: shares, reconciliations, owners' changes
          MaxRetries   \* length of HOT_RECONCILE_BACKOFFS_MS

Actors == Reqs \cup {"sup", "rec"}
Kinds == {"create", "borrow", "remove", "rotate", "update"}
Conns == 0..MaxConns                       \* 0 is no sandbox
Versions == Nat                            \* 0 is no credential

ASSUME SupervisorAssumption ==
    /\ {"sup", "rec"} \cap Reqs = {} /\ Providers # {}
    /\ {MaxConns, MaxFaults, MaxEdits, MaxRetries} \subseteq Nat /\ MaxConns # 0

VARIABLES
    health,    \* SandboxRuntimeHandle.health is Ready
    sandbox,   \* SandboxRuntimeHandle.sandbox, by its connection
    affected,  \* chats that were refused
    wake,      \* the failure channel, of capacity one, holds a report
    vm,        \* "running", "booting" or "down"
    conn,      \* the latest connection
    bound,     \* provider -> version in the sandbox's own configuration
    pc,        \* the supervisor
    sync,      \* sync tasks, by the connection they use
    wk,        \* chat -> its worker
    yaml,      \* providers agent.yaml declares
    store,     \* provider -> version in the provider store
    cfg,       \* provider_config, the latest accepted declarations
    seen,      \* last_yaml of the watcher
    queue,     \* providers_rx
    mutex,     \* provider_mutation: its holder, then its waiters in order
    op,        \* what each actor does with the credentials
    shutdown,
    excused,   \* ghost: providers whose binding may differ from the store
    last, faults, edits

handle == <<health, sandbox, affected, wake>>
guest == <<vm, conn, bound>>
decl == <<yaml, store, cfg, seen, queue>>
budget == <<last, faults, edits>>
vars == <<handle, guest, pc, sync, wk, decl, mutex, op, shutdown, excused, budget>>

Idle == [pc |-> "idle", kind |-> "rotate", p |-> CHOOSE p \in Providers : TRUE,
         known |-> {}, want |-> [p \in Providers |-> 0], tries |-> 0]

Init ==
    /\ \/ health = TRUE /\ sandbox = 1 /\ conn = 1 /\ vm = "running" /\ sync = {1}
       \/ health = FALSE /\ sandbox = 0 /\ conn = 0 /\ vm = "down" /\ sync = {}
    /\ affected = {} /\ wake = FALSE /\ pc = "loop" /\ wk = [c \in Chats |-> "idle"]
    /\ store \in [Providers -> {0, 1}] /\ yaml = {p \in Providers : store[p] # 0}
    /\ bound = store /\ cfg = yaml /\ seen = yaml /\ queue = <<>>
    /\ mutex = <<>> /\ op = [a \in Actors |-> Idle] /\ shutdown = FALSE
    /\ excused = {} /\ last = 1 /\ faults = 0 /\ edits = 0

Charge == faults < MaxFaults /\ faults' = faults + 1
\* A call that fails for a reason in the state, or for no reason of the model.
FailsIf(reason) == (reason /\ UNCHANGED faults) \/ Charge

----------------------------------------------------------------------------
(* The sandbox, and who notices that it fails.                               *)

VmFails ==
    /\ vm # "down" /\ Charge
    /\ vm' \in {"booting", "down"} \ {vm}
    /\ UNCHANGED <<handle, conn, bound, pc, sync, wk, decl, mutex, op, shutdown, excused,
                   last, edits>>

VmBoots ==
    /\ vm = "booting" /\ vm' = "running"
    /\ UNCHANGED <<handle, conn, bound, pc, sync, wk, decl, mutex, op, shutdown, excused, budget>>

Usable(c) == vm = "running" /\ c = conn /\ c # 0

\* mutant: a failed cycle is only logged
SyncCycleSilent(s) ==
    /\ s \in sync /\ ~shutdown /\ ~Usable(s)
    /\ UNCHANGED vars

\* A cycle of the sync task that fails reports it; the channel keeps one report.
SyncCycle(s) ==
    /\ s \in sync /\ ~shutdown /\ ~Usable(s)
    /\ wake' = TRUE
    /\ UNCHANGED <<health, sandbox, affected, guest, pc, sync, wk, decl, mutex, op, shutdown,
                   excused, budget>>

\* A turn or a keepalive that fails reports it too, whatever the cause was.
ReportSuspectedFailure ==
    /\ ~shutdown /\ FailsIf(~Usable(sandbox)) /\ wake' = TRUE
    /\ UNCHANGED <<health, sandbox, affected, guest, pc, sync, wk, decl, mutex, op, shutdown,
                   excused, last, edits>>

\* The worker reads the health; it refuses the message, and then records the
\* chat.  (A message that passes makes a turn; recording a chat again while it
\* is recorded changes nothing.)
Gate(c) ==
    /\ wk[c] = "idle" /\ c \notin affected /\ ~shutdown /\ ~health
    /\ wk' = [wk EXCEPT ![c] = "refused"]
    /\ UNCHANGED <<handle, guest, pc, sync, decl, mutex, op, shutdown, excused, budget>>

NoteAffected(c) ==
    /\ wk[c] = "refused"
    /\ affected' = affected \cup {c} /\ wk' = [wk EXCEPT ![c] = "idle"]
    /\ UNCHANGED <<health, sandbox, wake, guest, pc, sync, decl, mutex, op, shutdown, excused,
                   budget>>

----------------------------------------------------------------------------
(* provider_mutation: a fair mutex, handed on in the order of arrival.       *)

Holds(a) == mutex # <<>> /\ Head(mutex) = a
Wait(a) == mutex' = Append(mutex, a)
Release(a) == mutex' = IF Holds(a) THEN Tail(mutex) ELSE mutex

Become(a, r) == op' = [op EXCEPT ![a] = r]
StepTo(a, l) == op' = [op EXCEPT ![a].pc = l]

\* What a reconciliation that starts now cannot mend: bindings that neither the
\* accepted configuration nor the one to be accepted names stay in the sandbox.
Orphaned(declared) == excused' = excused \cup {p \in Providers \ declared : bound[p] # 0}
\* What the watcher cannot see: an edit that restores the text it has read.
Overlooked ==
    IF yaml' # yaml /\ yaml' = seen THEN {p \in Providers : bound[p] # store'[p]} ELSE {}

----------------------------------------------------------------------------
(* hot_reconcile_providers, by a reconcile task, a request or the bring-up:  *)
(* the bindings the store resolves to are read, then those it lacks and the  *)
(* configurations name are removed and the others applied.                   *)

Reconciled(r, p) ==
    IF r.want[p] # 0 THEN r.want[p] ELSE IF p \in r.known THEN 0 ELSE bound[p]
ReconcileAll(r) == [p \in Providers |-> Reconciled(r, p)]
\* Removals come first; a failing call leaves a part of the work done.
Obsolete(r) == {p \in Providers : r.want[p] = 0}
PartlyDone(r) ==
    {[p \in Providers |-> IF p \in S THEN Reconciled(r, p) ELSE bound[p]] :
        S \in {T \in SUBSET Providers : T \subseteq Obsolete(r) \/ Obsolete(r) \subseteq T}}

\* Providers late were resolved to a version that is no longer the store's.
Settle(late) == excused' = (excused \ {p \in Providers : bound'[p] = store[p]}) \cup late
Unsettle == excused' = excused \cup {p \in Providers : bound'[p] # store[p]}

Resolve(a) ==
    /\ op[a].pc = "resolve"
    /\ op' = [op EXCEPT ![a].want = store, ![a].pc = "apply"]
    /\ UNCHANGED <<handle, guest, pc, sync, wk, decl, mutex, shutdown, excused, budget>>

\* What follows success, and what follows an error, for each caller.
Finished(a) ==
    IF a = "sup"
    THEN pc' = "stage" /\ Become(a, Idle) /\ UNCHANGED <<mutex, sync>>
    ELSE Become(a, IF a = "rec" THEN Idle ELSE [Idle EXCEPT !.pc = "answered"])
         /\ Release(a) /\ UNCHANGED <<pc, sync>>

Retried(a) ==
    a = "rec" /\ op[a].tries < MaxRetries
    /\ op' = [op EXCEPT ![a].pc = "backoff", ![a].tries = @ + 1]
    /\ UNCHANGED <<mutex, pc, sync>>
\* mutant: the guard outlives the loop
StopHolding == pc' = "done" /\ sync' = {} /\ UNCHANGED mutex
\* A hard error in the bring-up ends the supervisor: recovery_step breaks.
Stop == pc' = "done" /\ sync' = {} /\ Release("sup")
GivenUp(a) ==
    \/ Retried(a)
    \/ a = "rec" /\ op[a].tries = MaxRetries /\ Finished(a)
    \/ a \in Reqs /\ Finished(a)
    \/ a = "sup" /\ Stop /\ Become(a, Idle)

ResolveFails(a) ==
    /\ op[a].pc = "resolve" /\ Charge
    /\ excused' = Providers /\ GivenUp(a)
    /\ UNCHANGED <<handle, guest, wk, decl, shutdown, last, edits>>

Apply(a) ==
    /\ op[a].pc = "apply" /\ vm = "running"
    /\ bound' = ReconcileAll(op[a])
    /\ Settle({p \in Providers : op[a].want[p] # store[p]}) /\ Finished(a)
    /\ UNCHANGED <<handle, vm, conn, wk, decl, shutdown, budget>>

ApplyFails(a) ==
    /\ op[a].pc = "apply"
    /\ FailsIf(vm # "running")
    /\ bound' \in PartlyDone(op[a]) /\ Unsettle /\ GivenUp(a)
    /\ UNCHANGED <<handle, vm, conn, wk, decl, shutdown, last, edits>>

----------------------------------------------------------------------------
(* The configuration watcher and the reconcile task it feeds.                *)

\* Another agent shares a record with this one: it attaches to the sandbox, which
\* starts it when it is stopped, and its Aggregator call adds the provider to
\* store and agent.yaml.  An edit that restores the text the watcher has seen goes
\* unnoticed.
PeerShares(p) ==
    /\ edits < MaxEdits /\ edits' = edits + 1 /\ ~shutdown /\ store[p] = 0
    /\ yaml' = yaml \cup {p} /\ store' = [store EXCEPT ![p] = last + 1] /\ last' = last + 1
    /\ vm' = "running"
    /\ excused' = excused \cup Overlooked
    /\ UNCHANGED <<handle, conn, bound, pc, sync, wk, cfg, seen, queue, mutex, op, shutdown,
                   faults>>

\* The peer goes on to reconcile the sandbox, from its own process, under its own
\* lock and with the bindings of its own store: what this agent declares and the
\* peer lacks is removed, what the peer has is applied, the shared record or a
\* version (last + 1) that is not this store's.  A failure leaves a part of it done.
LeftByPeer(p) == {bound[p], 0, store[p], last + 1}
PeerReconciles ==
    /\ edits < MaxEdits /\ edits' = edits + 1 /\ vm = "running" /\ ~shutdown
    /\ bound' \in {b \in [Providers -> UNION {LeftByPeer(p) : p \in Providers}] :
                      \A p \in Providers : b[p] \in LeftByPeer(p)}
    /\ last' = last + 1 /\ Unsettle
    /\ UNCHANGED <<handle, vm, conn, pc, sync, wk, decl, mutex, op, shutdown, faults>>

\* The owner of a shared record rotates it or updates its configuration: what it
\* resolves to here is another version, and nothing is told this bot.
OwnerChanges(p) ==
    /\ edits < MaxEdits /\ edits' = edits + 1 /\ ~shutdown /\ store[p] # 0
    /\ store' = [store EXCEPT ![p] = last + 1] /\ last' = last + 1
    /\ excused' = excused \cup {p}
    /\ UNCHANGED <<handle, guest, pc, sync, wk, yaml, cfg, seen, queue, mutex, op, shutdown,
                   faults>>

\* Only sandbox.providers differs: the new configuration goes to the task.
ProvidersReload ==
    /\ yaml # seen /\ ~shutdown
    /\ seen' = yaml /\ queue' = Append(queue, yaml)
    /\ UNCHANGED <<handle, guest, pc, sync, wk, yaml, store, cfg, mutex, op, shutdown, excused,
                   budget>>

ReceiveConfig ==
    /\ op["rec"].pc = "idle" /\ queue # <<>> /\ ~shutdown
    /\ queue' = Tail(queue) /\ Wait("rec")
    /\ Become("rec", [Idle EXCEPT !.pc = "wait", !.known = Head(queue)])
    /\ UNCHANGED <<handle, guest, pc, sync, wk, yaml, store, cfg, seen, shutdown, excused,
                   budget>>

\* It is accepted; without a sandbox it is left to the next bring-up.
AcceptConfig ==
    /\ op["rec"].pc = "wait" /\ Holds("rec")
    /\ LET new == op["rec"].known IN
       /\ cfg' = new
       /\ IF sandbox = 0
          THEN Become("rec", Idle) /\ Release("rec") /\ UNCHANGED excused
          ELSE /\ op' = [op EXCEPT !["rec"].pc = "resolve", !["rec"].known = cfg \cup new]
               /\ Orphaned(cfg \cup new) /\ UNCHANGED mutex
    /\ UNCHANGED <<handle, guest, pc, sync, wk, yaml, store, seen, queue, shutdown, budget>>

\* The backoff between attempts ends with the timer, or with the task.
RetryReconcile ==
    /\ op["rec"].pc = "backoff"
    /\ IF shutdown THEN Become("rec", Idle) /\ Release("rec")
                   ELSE StepTo("rec", "resolve") /\ UNCHANGED mutex
    /\ UNCHANGED <<handle, guest, pc, sync, wk, decl, shutdown, excused, budget>>

----------------------------------------------------------------------------
(* The provider routes of the dashboard.                                     *)

Answered == [Idle EXCEPT !.pc = "answered"]
Declares(k) == k \in {"create", "borrow"}
Reconciles(k) == k \in {"borrow", "remove"}
\* rotate and update let go of the lock before they converge.
Unlocked(k) == k \in {"rotate", "update"}

\* handle_rotate looks for the sandbox before it waits for the lock.
Request(q, k, p) ==
    /\ op[q].pc = "idle" /\ ~shutdown
    /\ IF k = "rotate" /\ sandbox = 0
       THEN Become(q, Answered) /\ UNCHANGED mutex
       ELSE Become(q, [Idle EXCEPT !.pc = "wait", !.kind = k, !.p = p]) /\ Wait(q)
    /\ UNCHANGED <<handle, guest, pc, sync, wk, decl, shutdown, excused, budget>>

\* The others look under the lock; handle_rotate reloads the configuration.
Locked(q) ==
    /\ op[q].pc = "wait" /\ Holds(q)
    /\ IF op[q].kind = "rotate"
       THEN /\ cfg' = yaml
            /\ IF op[q].p \in yaml THEN StepTo(q, "mutate") /\ UNCHANGED mutex
                                   ELSE Become(q, Answered) /\ Release(q)
       ELSE /\ IF sandbox = 0 THEN Become(q, Answered) /\ Release(q)
               ELSE /\ op' = [op EXCEPT ![q].pc = "mutate",
                                 ![q].known = IF Reconciles(op[q].kind) THEN yaml ELSE {}]
                    /\ UNCHANGED mutex
            /\ UNCHANGED cfg
    /\ UNCHANGED <<handle, guest, pc, sync, wk, yaml, store, seen, queue, shutdown, excused,
                   budget>>

\* The Aggregator changes store and agent.yaml together, or refuses.
Mutated(k, p) ==
    IF Declares(k) THEN store[p] = 0 /\ yaml' = yaml \cup {p} /\ last' = last + 1
                        /\ store' = [store EXCEPT ![p] = last + 1]
    ELSE IF k = "remove" THEN store[p] # 0 /\ yaml' = yaml \ {p} /\ UNCHANGED last
                              /\ store' = [store EXCEPT ![p] = 0]
    ELSE store[p] # 0 /\ UNCHANGED yaml /\ last' = last + 1
         /\ store' = [store EXCEPT ![p] = last + 1]

Mutate(q) ==
    /\ op[q].pc = "mutate" /\ Mutated(op[q].kind, op[q].p)
    /\ IF op[q].kind = "rotate" THEN StepTo(q, "converge") /\ Release(q)
                                ELSE StepTo(q, "publish") /\ UNCHANGED mutex
    /\ excused' = excused \cup Overlooked
    /\ UNCHANGED <<handle, guest, pc, sync, wk, cfg, seen, queue, shutdown, faults, edits>>

MutateRefused(q) ==
    /\ op[q].pc = "mutate"
    /\ FailsIf(Declares(op[q].kind) # (store[op[q].p] = 0))
    /\ Become(q, Answered) /\ Release(q)
    /\ UNCHANGED <<handle, guest, pc, sync, wk, decl, shutdown, excused, last, edits>>

\* The answer is lost, and nothing is propagated.
MutateLost(q) ==
    /\ op[q].pc = "mutate" /\ Mutated(op[q].kind, op[q].p) /\ Charge
    /\ Become(q, Answered) /\ Release(q)
    /\ excused' = excused \cup {op[q].p} \cup Overlooked
    /\ UNCHANGED <<handle, guest, pc, sync, wk, cfg, seen, queue, shutdown, edits>>

\* The configuration is reloaded and accepted.
Publish(q) ==
    /\ op[q].pc = "publish"
    /\ LET k == op[q].kind IN
       /\ cfg' = yaml
       /\ IF Reconciles(k) THEN Orphaned(op[q].known \cup yaml) ELSE UNCHANGED excused
       /\ op' = [op EXCEPT ![q].pc = IF k = "update" THEN "converge"
                                     ELSE IF k = "create" THEN "resolve_named" ELSE "resolve",
                           ![q].known = @ \cup yaml]
       /\ IF k = "update" THEN Release(q) ELSE UNCHANGED mutex
    /\ UNCHANGED <<handle, guest, pc, sync, wk, yaml, store, seen, queue, shutdown, budget>>

\* converge_provider_holder, without the lock: agent.yaml is read, then accepted.
Converge(q) ==
    /\ op[q].pc = "converge"
    /\ op' = [op EXCEPT ![q].pc = "accept", ![q].known = yaml]
    /\ UNCHANGED <<handle, guest, pc, sync, wk, decl, mutex, shutdown, excused, budget>>

ConvergeAccepts(q) ==
    /\ op[q].pc = "accept"
    /\ cfg' = op[q].known
    /\ excused' = excused \cup (IF sandbox = 0 THEN {op[q].p} ELSE {})
    /\ IF sandbox = 0
       THEN Become(q, Answered) ELSE StepTo(q, "resolve_named")
    /\ UNCHANGED <<handle, guest, pc, sync, wk, yaml, store, seen, queue, mutex, shutdown, budget>>

ResolveNamed(q) ==
    /\ op[q].pc = "resolve_named"
    /\ LET p == op[q].p IN
       \/ /\ store[p] # 0 /\ p \in op[q].known
          /\ op' = [op EXCEPT ![q].pc = "apply_named", ![q].want[p] = store[p]]
          /\ UNCHANGED <<mutex, excused, faults>>
       \/ /\ FailsIf(store[p] = 0 \/ p \notin op[q].known)
          /\ Become(q, Answered) /\ Release(q)
          /\ excused' = excused \cup {p}
    /\ UNCHANGED <<handle, guest, pc, sync, wk, decl, shutdown, last, edits>>

\* Without the lock the version resolved may be an old one by now.
ApplyNamed(q) ==
    /\ op[q].pc = "apply_named"
    /\ LET p == op[q].p IN
       \/ /\ vm = "running" /\ bound' = [bound EXCEPT ![p] = op[q].want[p]]
          /\ Settle({op[q].p} \cap {x \in Providers : op[q].want[x] # store[x]})
          /\ UNCHANGED faults
       \/ /\ FailsIf(vm # "running")
          /\ excused' = excused \cup {p} /\ UNCHANGED bound
    /\ Become(q, Answered) /\ Release(q)
    /\ UNCHANGED <<handle, vm, conn, pc, sync, wk, decl, shutdown, last, edits>>

----------------------------------------------------------------------------
(* monitor_step: the handle is Ready.                                        *)

TakeReport ==
    /\ pc = "loop" /\ health /\ wake
    /\ wake' = FALSE /\ pc' = "probe"
    /\ UNCHANGED <<health, sandbox, affected, guest, sync, wk, decl, mutex, op, shutdown,
                   excused, budget>>

\* mutant: the shutdown is looked at when a report arrives
MonitorDeaf ==
    /\ pc = "loop" /\ health /\ shutdown /\ wake /\ Stop
    /\ UNCHANGED <<handle, guest, wk, decl, op, shutdown, excused, budget>>

MonitorBreaks ==
    /\ pc = "loop" /\ health /\ shutdown /\ Stop
    /\ UNCHANGED <<handle, guest, wk, decl, op, shutdown, excused, budget>>

\* A sandbox that is still booting is no failure; any other error is.
ProbePasses ==
    /\ pc = "probe" /\ vm # "down" /\ pc' = "loop"
    /\ UNCHANGED <<handle, guest, sync, wk, decl, mutex, op, shutdown, excused, budget>>

\* set_unavailable: health first, then the sandbox.
ProbeFails ==
    /\ pc = "probe"
    /\ FailsIf(vm = "down")
    /\ health' = FALSE /\ pc' = "clear"
    /\ UNCHANGED <<sandbox, affected, wake, guest, sync, wk, decl, mutex, op, shutdown, excused,
                   last, edits>>

ClearSandbox ==
    /\ pc = "clear" /\ sandbox' = 0 /\ pc' = "abort"
    /\ UNCHANGED <<health, affected, wake, guest, sync, wk, decl, mutex, op, shutdown, excused,
                   budget>>

\* mutant: the sync task is left running
AbortSyncNot ==
    /\ pc = "abort" /\ pc' = "loop"
    /\ UNCHANGED <<handle, guest, sync, wk, decl, mutex, op, shutdown, excused, budget>>

AbortSync ==
    /\ pc = "abort" /\ sync' = {} /\ pc' = "loop"
    /\ UNCHANGED <<handle, guest, wk, decl, mutex, op, shutdown, excused, budget>>

----------------------------------------------------------------------------
(* recovery_step: one bring-up, under the provider lock to its end.          *)

RecoveryWaits ==
    /\ pc = "loop" /\ ~health /\ pc' = "wait" /\ Wait("sup")
    /\ UNCHANGED <<handle, guest, sync, wk, decl, op, shutdown, excused, budget>>

\* Runtime, host and readiness: what fails here is a diagnosis, retried.
Unavailable ==
    /\ pc = "wait" /\ Holds("sup") /\ pc' = "backoff"
    /\ UNCHANGED <<handle, guest, sync, wk, decl, mutex, op, shutdown, excused, budget>>

\* sandbox_spec resolves the bindings first: its failure is a hard error.
SpecFails ==
    /\ pc = "wait" /\ Holds("sup") /\ Charge /\ Stop
    /\ UNCHANGED <<handle, guest, wk, decl, op, shutdown, excused, last, edits>>

\* mutant: a sandbox that exists is taken as it is
AttachOnly ==
    /\ pc = "wait" /\ Holds("sup") /\ conn < MaxConns
    /\ conn' = conn + 1 /\ vm' = "running" /\ pc' = "stage" /\ Orphaned(cfg)
    /\ UNCHANGED <<handle, bound, sync, wk, decl, mutex, op, shutdown, budget>>

\* create_or_attach starts the sandbox by its name, with the bindings it has.
Attach ==
    /\ pc = "wait" /\ Holds("sup") /\ conn < MaxConns
    /\ conn' = conn + 1 /\ vm' = "running" /\ pc' = "reconcile"
    /\ Become("sup", [Idle EXCEPT !.pc = "resolve", !.known = cfg]) /\ Orphaned(cfg)
    /\ UNCHANGED <<handle, bound, sync, wk, decl, mutex, shutdown, budget>>

\* initial_sync and the startup upgrade: a transient failure is retried, any
\* other is a hard error.
StageFails ==
    /\ pc = "stage"
    /\ FailsIf(vm # "running")
    /\ \/ pc' = "backoff" /\ UNCHANGED <<mutex, sync>>
       \/ Stop
    /\ UNCHANGED <<handle, guest, wk, decl, op, shutdown, excused, last, edits>>

\* set_ready: the sandbox first, then the health.
SetSandbox ==
    /\ pc = "stage" /\ sandbox' = conn /\ pc' = "ready"
    /\ UNCHANGED <<health, affected, wake, guest, sync, wk, decl, mutex, op, shutdown, excused,
                   budget>>

SetHealth ==
    /\ pc = "ready" /\ health' = TRUE /\ pc' = "spawn"
    /\ UNCHANGED <<sandbox, affected, wake, guest, sync, wk, decl, mutex, op, shutdown, excused,
                   budget>>

SpawnSync ==
    /\ pc = "spawn" /\ sync' = sync \cup {sandbox} /\ pc' = "notify"
    /\ UNCHANGED <<handle, guest, wk, decl, mutex, op, shutdown, excused, budget>>

\* mutant: the affected chats are read and not taken
NotifyKeeps ==
    /\ pc = "notify" /\ pc' = "loop" /\ Release("sup")
    /\ UNCHANGED <<handle, guest, sync, wk, decl, op, shutdown, excused, budget>>

\* The affected chats are taken and told, each as far as Telegram allows.
NotifyBackOnline ==
    /\ pc = "notify" /\ affected' = {} /\ pc' = "loop" /\ Release("sup")
    /\ UNCHANGED <<health, sandbox, wake, guest, sync, wk, decl, op, shutdown, excused, budget>>

\* The backoff, of 5 to 30 seconds, with the lock still held.
Backoff ==
    /\ pc = "backoff"
    /\ \/ shutdown /\ Stop
       \/ ~shutdown /\ pc' = "loop" /\ Release("sup") /\ UNCHANGED sync
    /\ UNCHANGED <<handle, guest, wk, decl, op, shutdown, excused, budget>>

\* A signal, or a change of agent.yaml that needs a restart.
Shutdown ==
    /\ ~shutdown /\ shutdown' = TRUE
    /\ UNCHANGED <<handle, guest, pc, sync, wk, decl, mutex, op, excused, budget>>

Reconcile(a) == Resolve(a) \/ ResolveFails(a) \/ Apply(a) \/ ApplyFails(a)
Monitor == TakeReport \/ MonitorBreaks \/ ProbePasses \/ ProbeFails \/ ClearSandbox \/ AbortSync
Recovery ==
    \/ RecoveryWaits \/ Unavailable \/ SpecFails \/ Attach \/ StageFails \/ SetSandbox
    \/ SetHealth \/ SpawnSync \/ NotifyBackOnline \/ Backoff
RunSupervisor == Monitor \/ Recovery \/ Reconcile("sup")
ReconcileTask == ReceiveConfig \/ AcceptConfig \/ RetryReconcile \/ Reconcile("rec")
Serve(q) ==
    \/ Locked(q) \/ Mutate(q) \/ MutateRefused(q) \/ MutateLost(q) \/ Publish(q)
    \/ Converge(q) \/ ConvergeAccepts(q) \/ ResolveNamed(q) \/ ApplyNamed(q)
    \/ Reconcile(q)

Next ==
    \/ RunSupervisor \/ ReconcileTask \/ ProvidersReload \/ Shutdown
    \/ VmFails \/ VmBoots \/ ReportSuspectedFailure
    \/ \E s \in sync : SyncCycle(s)
    \/ \E c \in Chats : Gate(c) \/ NoteAffected(c)
    \/ PeerReconciles \/ \E p \in Providers : PeerShares(p) \/ OwnerChanges(p)
    \/ \E q \in Reqs : Serve(q) \/ \E k \in Kinds, p \in Providers : Request(q, k, p)

(* Tasks that can go on do, sync cycles come round, and the cause of an      *)
(* outage does not last for ever: of the bring-ups retried without end one   *)
(* attaches.                                                                 *)
Fairness ==
    /\ WF_vars(RunSupervisor) /\ WF_vars(ReconcileTask)
    /\ WF_vars(\E s \in sync : SyncCycle(s))
    /\ SF_vars(Attach)
    /\ \A q \in Reqs : WF_vars(Serve(q))

Spec == Init /\ [][Next]_vars
FairSpec == Spec /\ Fairness

----------------------------------------------------------------------------
Op == [pc : {"idle", "wait", "resolve", "apply", "backoff", "mutate", "publish", "converge",
             "accept", "resolve_named", "apply_named", "answered"},
       kind : Kinds, p : Providers, known : SUBSET Providers,
       want : [Providers -> Versions], tries : 0..MaxRetries]

\* Type invariant; the mutex queue holds each actor at most once.
TypeOK ==
    /\ health \in BOOLEAN /\ sandbox \in Conns /\ affected \subseteq Chats /\ wake \in BOOLEAN
    /\ vm \in {"running", "booting", "down"} /\ conn \in Conns
    /\ bound \in [Providers -> Versions] /\ store \in [Providers -> Versions]
    /\ pc \in {"loop", "probe", "clear", "abort", "wait", "reconcile", "stage", "ready",
               "spawn", "notify", "backoff", "done"}
    /\ sync \subseteq Conns /\ wk \in [Chats -> {"idle", "refused"}]
    /\ yaml \subseteq Providers /\ cfg \subseteq Providers /\ seen \subseteq Providers
    /\ op \in [Actors -> Op]
    /\ mutex \in Seq(Actors) /\ \A i, j \in DOMAIN mutex : mutex[i] = mutex[j] => i = j
    /\ queue \in Seq(SUBSET Providers)
    /\ shutdown \in BOOLEAN /\ excused \subseteq Providers /\ last \in Versions
    /\ faults \in 0..MaxFaults /\ edits \in 0..MaxEdits

\* The supervisor owns the sync task: at most one runs, on the connection that
\* is published, except between a degradation and the abort, and none is left
\* when recovery or the supervisor itself is over.
SyncFollowsSandbox ==
    /\ pc \notin {"clear", "abort"} => sync \subseteq {sandbox}
    /\ Cardinality(sync) <= 1
    /\ pc = "loop" => (sync # {}) = health

\* Nothing that works on the credentials is under way.
Quiet ==
    /\ pc = "loop" /\ health /\ queue = <<>> /\ (seen = yaml \/ shutdown)
    /\ \A a \in Actors : op[a].pc \in {"idle", "answered"}
\* However recovery, watcher, dashboard and peers interleave, once all work of this
\* bot is done the sandbox has the credentials of the store, unless, and only until
\* the next reconciliation, a call failed, the store moved while an older version
\* was on its way to the sandbox, the text the watcher had read was restored, the
\* binding was in no configuration when the reconciliation began, the owner of a
\* shared record changed it, or a sharing peer reconciled this sandbox.
ConvergedWhenQuiet ==
    Quiet /\ ~shutdown => \A p \in Providers \ excused : bound[p] = store[p]

\* A sandbox that is down is noticed and brought up, or its supervisor is over:
\* no report that matters is lost in the channel that keeps only one.
Recovers == vm = "down" ~> (vm # "down" /\ health) \/ pc = "done"

\* A chat recorded during the outage is told when it ends.
AffectedTold ==
    \A c \in Chats : c \in affected /\ ~health ~> c \notin affected \/ pc = "done"

\* The shutdown of the bot, which waits for the supervisor without a deadline,
\* gets past it, whatever bring-up, lock or backoff it is in.
ShutdownEnds == shutdown ~> pc = "done"

\* A request to the dashboard is answered although recovery keeps the lock
\* through its backoff.
RequestsAnswered ==
    \A q \in Reqs : op[q].pc # "idle" ~> op[q].pc = "answered"
=============================================================================
