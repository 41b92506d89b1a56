---------------------- MODULE SandboxSupervisorProofs ----------------------
(***************************************************************************)
(* Theorems about SandboxSupervisor, for any sets of providers, chats and  *)
(* requests and any number of connections, failures, edits and retries.    *)
(***************************************************************************)
EXTENDS SandboxSupervisor, FiniteSetTheorems, SequenceTheorems, TLAPS

----------------------------------------------------------------------------
(* The inductive invariant.                                                 *)

(* Who is in the queue of provider_mutation, waiting or as its holder.      *)
Queued(a) == \E i \in DOMAIN mutex : mutex[i] = a
Named == {"resolve_named", "apply_named"}
Inside(a) ==
  \/ /\ a = "sup"
     /\ pc \in {"reconcile", "stage", "ready", "spawn", "notify", "backoff"}
  \/ a = "rec" /\ op[a].pc \in {"resolve", "apply", "backoff"}
  \/ a \in Reqs /\ op[a].pc \in {"mutate", "publish", "resolve", "apply"}
  \/ a \in Reqs /\ op[a].pc \in Named /\ ~Unlocked(op[a].kind)
Waiting(a) ==
  \/ a = "sup" /\ pc = "wait"
  \/ a # "sup" /\ op[a].pc = "wait"
HolderInside == \A a \in Actors : Inside(a) => Holds(a)
QueueComplete == \A a \in Actors : Queued(a) <=> (Inside(a) \/ Waiting(a))
LockInv == HolderInside /\ QueueComplete

(* Where each actor can be, and what kind of request gets there.            *)
SupPlaces ==
  /\ op["sup"].pc \in {"idle", "resolve", "apply"}
  /\ (op["sup"].pc # "idle") <=> (pc = "reconcile")
RecPlaces == op["rec"].pc \in {"idle", "wait", "resolve", "apply", "backoff"}
ReqPlaces(q) ==
  /\ op[q].pc # "backoff"
  /\ op[q].pc \in {"converge", "accept"} => Unlocked(op[q].kind)
  /\ op[q].pc \in {"resolve", "apply"} => Reconciles(op[q].kind)
  /\ op[q].pc = "publish" => op[q].kind # "rotate"
  /\ op[q].pc \in Named => ~Reconciles(op[q].kind)
PlacesInv == SupPlaces /\ RecPlaces /\ \A q \in Reqs : ReqPlaces(q)

(* Health, handle and sync task, at each place of the supervisor.           *)
PhaseInv ==
  /\ pc \in {"clear", "abort", "wait", "reconcile", "stage", "ready", "backoff"} => ~health
  /\ pc \in {"probe", "spawn", "notify"} => health
  /\ pc \in {"reconcile", "stage"} => conn # 0
  /\ sandbox = 0 => ~health /\ pc \notin {"ready", "clear"}
SyncInv ==
  /\ pc \in {"wait", "reconcile", "stage", "ready", "spawn", "backoff", "done"} => sync = {}
  /\ pc \in {"probe", "notify"} => sync = {sandbox}
  /\ pc = "loop" => sync = (IF health THEN {sandbox} ELSE {})
  /\ \E c \in Conns : sync \subseteq {c}

(* agent.yaml declares what the store has.                                  *)
YamlIsStore == yaml = {p \in Providers : store[p] # 0}

(* A binding that differs from the store will be looked at again: the       *)
(* supervisor has yet to resolve the bindings, the watcher or its task has  *)
(* yet to act, a reconciliation is under way, or a request will bind it.    *)
Outage ==
  \/ pc \in {"clear", "abort", "wait", "backoff", "done"}
  \/ pc = "loop" /\ ~health
Heard == yaml # seen \/ queue # <<>> \/ op["rec"].pc = "wait"
Coming(a, p) ==
  /\ store[p] # 0 \/ p \in op[a].known
  /\ op[a].pc = "resolve" \/ (op[a].pc = "apply" /\ op[a].want[p] = store[p])
Serving(q, p) ==
  \/ op[q].pc = "publish" /\ (op[q].p = p \/ Reconciles(op[q].kind))
  \/ op[q].p = p /\ op[q].pc \in {"converge", "accept", "resolve_named"}
  \/ op[q].p = p /\ op[q].pc = "apply_named" /\ op[q].want[p] = store[p]
Pending(p) ==
  \/ Outage \/ Heard
  \/ \E a \in Actors : Coming(a, p)
  \/ \E q \in Reqs : Serving(q, p)
Stale(p) == p \notin excused /\ bound[p] # store[p]
StaleInv == ~shutdown => \A p \in Providers : Stale(p) => Pending(p)

IInv == TypeOK /\ LockInv /\ PlacesInv /\ PhaseInv /\ SyncInv /\ YamlIsStore /\ StaleInv

----------------------------------------------------------------------------
(* The actors and what they do.                                             *)

LEMMA Bounds ==
  /\ MaxConns \in Nat /\ MaxConns # 0
  /\ MaxFaults \in Nat /\ MaxEdits \in Nat /\ MaxRetries \in Nat
  BY SupervisorAssumption

LEMMA ActorSet ==
  /\ "sup" \in Actors /\ "rec" \in Actors /\ Reqs \subseteq Actors
  /\ \A q \in Reqs : q # "sup" /\ q # "rec"
  /\ \A a \in Actors : a = "sup" \/ a = "rec" \/ a \in Reqs
  BY SupervisorAssumption DEF Actors

LEMMA IdleType ==
  /\ Idle \in Op /\ [Idle EXCEPT !.pc = "answered"] \in Op
  /\ Idle.pc = "idle" /\ [Idle EXCEPT !.pc = "answered"].pc = "answered"
  <1>1. (CHOOSE p \in Providers : TRUE) \in Providers
    BY SupervisorAssumption
  <1>2. 0 \in 0..MaxRetries /\ [p \in Providers |-> 0] \in [Providers -> Versions]
    BY SupervisorAssumption DEF Versions
  <1>3. QED
    BY <1>1, <1>2 DEF Idle, Op, Kinds

\* Only the operation of a changes.
OnlyOp(a) == op' \in [Actors -> Op] /\ \A b \in Actors \ {a} : op'[b] = op[b]

LEMMA OpSet ==
  ASSUME op \in [Actors -> Op], NEW a \in Actors, NEW r \in Op, Become(a, r)
  PROVE  OnlyOp(a) /\ op'[a] = r
  BY DEF OnlyOp, Become

LEMMA OpAt ==
  ASSUME op \in [Actors -> Op], NEW a \in Actors
  PROVE  /\ op[a] \in Op /\ op[a].kind \in Kinds /\ op[a].p \in Providers
         /\ op[a].known \subseteq Providers /\ op[a].want \in [Providers -> Versions]
         /\ op[a].tries \in 0..MaxRetries
  BY DEF Op

Places == {"idle", "wait", "resolve", "apply", "backoff", "mutate", "publish", "converge",
           "accept", "resolve_named", "apply_named", "answered"}

LEMMA OpStepped ==
  ASSUME op \in [Actors -> Op], NEW a \in Actors, NEW l \in Places, StepTo(a, l)
  PROVE  /\ OnlyOp(a) /\ op'[a].pc = l /\ op'[a].kind = op[a].kind /\ op'[a].p = op[a].p
         /\ op'[a].known = op[a].known /\ op'[a].want = op[a].want
  <1> DEFINE r == [op[a] EXCEPT !.pc = l]
  <1>1. /\ r \in Op /\ r.pc = l /\ r.kind = op[a].kind /\ r.p = op[a].p
        /\ r.known = op[a].known /\ r.want = op[a].want
    BY OpAt DEF Op, Places
  <1>2. Become(a, r)
    BY DEF StepTo, Become
  <1> HIDE DEF r
  <1>3. QED
    BY <1>1, <1>2, OpSet

----------------------------------------------------------------------------
(* The queue of the mutex.                                                  *)

MutexOK ==
  mutex \in Seq(Actors) /\ \A i, j \in DOMAIN mutex : mutex[i] = mutex[j] => i = j

LEMMA OneHolder ==
  ASSUME NEW a \in Actors, NEW b \in Actors, Holds(a), Holds(b)
  PROVE  a = b
  BY DEF Holds

LEMMA HolderQueued ==
  ASSUME MutexOK, NEW a \in Actors, Holds(a)
  PROVE  Queued(a)
  BY DEF MutexOK, Holds, Queued

LEMMA Joined ==
  ASSUME MutexOK, NEW a \in Actors, ~Queued(a), Wait(a)
  PROVE  /\ MutexOK'
         /\ \A b \in Actors : Queued(b)' <=> (Queued(b) \/ b = a)
         /\ \A b \in Actors : Holds(b) => Holds(b)'
  <1>1. /\ mutex' \in Seq(Actors) /\ Len(mutex') = Len(mutex) + 1
        /\ DOMAIN mutex = 1..Len(mutex) /\ DOMAIN mutex' = 1..(Len(mutex) + 1)
        /\ Len(mutex) \in Nat
        /\ \A i \in 1..Len(mutex) : mutex'[i] = mutex[i]
        /\ mutex'[Len(mutex) + 1] = a
    BY DEF MutexOK, Wait
  <1>2. MutexOK'
    BY <1>1 DEF MutexOK, Queued
  <1>3. \A b \in Actors : Queued(b)' <=> (Queued(b) \/ b = a)
    BY <1>1 DEF Queued
  <1>4. \A b \in Actors : Holds(b) => Holds(b)'
    BY <1>1 DEF Holds, MutexOK
  <1>5. QED
    BY <1>2, <1>3, <1>4

LEMMA Left ==
  ASSUME MutexOK, NEW a \in Actors, Holds(a), Release(a)
  PROVE  /\ MutexOK'
         /\ \A b \in Actors : Queued(b)' <=> (Queued(b) /\ b # a)
  <1>1. /\ mutex \in Seq(Actors) /\ mutex # <<>> /\ mutex[1] = a /\ mutex' = Tail(mutex)
        /\ Len(mutex) \in Nat /\ Len(mutex) >= 1 /\ DOMAIN mutex = 1..Len(mutex)
    BY DEF MutexOK, Holds, Release
  <1>2. /\ mutex' \in Seq(Actors) /\ DOMAIN mutex' = 1..(Len(mutex) - 1)
        /\ \A i \in 1..(Len(mutex) - 1) : mutex'[i] = mutex[i + 1]
    BY <1>1
  <1>3. MutexOK'
    <2>1. \A i, j \in DOMAIN mutex' : mutex'[i] = mutex'[j] => i = j
      <3> TAKE i, j \in DOMAIN mutex'
      <3> HAVE mutex'[i] = mutex'[j]
      <3>1. i + 1 \in DOMAIN mutex /\ j + 1 \in DOMAIN mutex /\ mutex[i + 1] = mutex[j + 1]
        BY <1>1, <1>2
      <3>2. i + 1 = j + 1
        BY <3>1 DEF MutexOK
      <3>3. QED
        BY <3>2, <1>1, <1>2
    <2>2. QED
      BY <1>2, <2>1 DEF MutexOK
  <1>4. ASSUME NEW b \in Actors PROVE Queued(b)' <=> (Queued(b) /\ b # a)
    <2>1. ASSUME Queued(b)' PROVE Queued(b) /\ b # a
      <3>1. PICK i \in DOMAIN mutex' : mutex'[i] = b
        BY <2>1 DEF Queued
      <3>2. i + 1 \in DOMAIN mutex /\ mutex[i + 1] = b /\ i + 1 # 1 /\ 1 \in DOMAIN mutex
        BY <3>1, <1>1, <1>2
      <3>3. QED
        BY <3>2, <1>1 DEF Queued, MutexOK
    <2>2. ASSUME Queued(b), b # a PROVE Queued(b)'
      <3>1. PICK i \in DOMAIN mutex : mutex[i] = b
        BY <2>2 DEF Queued
      <3>2. i # 1 /\ i - 1 \in DOMAIN mutex' /\ mutex'[i - 1] = b
        BY <3>1, <2>2, <1>1, <1>2
      <3>3. QED
        BY <3>2 DEF Queued
    <2>3. QED
      BY <2>1, <2>2
  <1>5. QED
    BY <1>3, <1>4

\* What a step of a does to the lock: it stays, arrives at the end of the queue,
\* or leaves.
Stays(a) ==
  /\ UNCHANGED mutex
  /\ (Inside(a) \/ Waiting(a))' <=> (Inside(a) \/ Waiting(a))
  /\ Inside(a)' => Inside(a) \/ Holds(a)
Arrives(a) == Wait(a) /\ ~Inside(a) /\ ~Waiting(a) /\ Waiting(a)' /\ ~Inside(a)'
Leaves(a) ==
  /\ Release(a) /\ ~Inside(a)' /\ ~Waiting(a)'
  /\ Inside(a) \/ Holds(a) \/ ~Waiting(a)
OthersStay(a) ==
  \A b \in Actors \ {a} : (Inside(b)' <=> Inside(b)) /\ (Waiting(b)' <=> Waiting(b))

LEMMA LockStep ==
  ASSUME MutexOK, LockInv, NEW a \in Actors, OthersStay(a),
         Stays(a) \/ Arrives(a) \/ Leaves(a)
  PROVE  MutexOK' /\ LockInv'
  <1>1. CASE Stays(a)
    <2>1. MutexOK' /\ \A b \in Actors : (Queued(b)' <=> Queued(b)) /\ (Holds(b)' <=> Holds(b))
      BY <1>1 DEF Stays, MutexOK, Queued, Holds
    <2>2. QED
      BY <1>1, <2>1 DEF Stays, OthersStay, LockInv, HolderInside, QueueComplete
  <1>2. CASE Arrives(a)
    <2>1. ~Queued(a)
      BY <1>2 DEF Arrives, LockInv, QueueComplete
    <2>2. QED
      BY <1>2, <2>1, Joined DEF Arrives, OthersStay, LockInv, HolderInside, QueueComplete
  <1>3. CASE Leaves(a) /\ Holds(a)
    <2>1. \A b \in Actors \ {a} : ~Inside(b)
      BY <1>3, OneHolder DEF LockInv, HolderInside
    <2>2. QED
      BY <1>3, <2>1, Left DEF Leaves, OthersStay, LockInv, HolderInside, QueueComplete
  <1>4. CASE Leaves(a) /\ ~Holds(a)
    <2>1. mutex' = mutex /\ ~Inside(a) /\ ~Waiting(a)
      BY <1>4 DEF Leaves, Release, LockInv, HolderInside
    <2>2. MutexOK' /\ \A b \in Actors : (Queued(b)' <=> Queued(b)) /\ (Holds(b)' <=> Holds(b))
      BY <2>1 DEF MutexOK, Queued, Holds
    <2>3. QED
      BY <1>4, <2>1, <2>2 DEF Leaves, OthersStay, LockInv, HolderInside, QueueComplete
  <1>5. QED
    BY <1>1, <1>2, <1>3, <1>4

----------------------------------------------------------------------------
(* What steps leave alone.                                                  *)

LEMMA LockFrame ==
  ASSUME IInv, UNCHANGED <<mutex, op, pc>>
  PROVE  MutexOK' /\ LockInv' /\ PlacesInv'
  BY DEF IInv, TypeOK, MutexOK, LockInv, HolderInside, QueueComplete, Queued, Holds, Inside,
         Waiting, PlacesInv, SupPlaces, RecPlaces, ReqPlaces

LEMMA PhaseFrame ==
  ASSUME IInv, UNCHANGED <<pc, health, sandbox, conn, sync>>
  PROVE  PhaseInv' /\ SyncInv'
  BY DEF IInv, PhaseInv, SyncInv

LEMMA YamlFrame ==
  ASSUME IInv, UNCHANGED <<yaml, store>>
  PROVE  YamlIsStore'
  BY DEF IInv, YamlIsStore

LEMMA OutageFrame ==
  ASSUME UNCHANGED <<pc, health>>
  PROVE  Outage' <=> Outage
  BY DEF Outage

\* No operation and nothing an operation reads changes.
LEMMA StaleFrame ==
  ASSUME IInv, UNCHANGED <<bound, store, yaml, seen, queue, op, excused>>,
         shutdown' \/ ~shutdown, Outage => Outage'
  PROVE  StaleInv'
  BY DEF IInv, StaleInv, Stale, Pending, Outage, Heard, Coming, Serving

----------------------------------------------------------------------------
(* The world around the supervisor.                                         *)

World ==
  \/ VmFails \/ VmBoots \/ ReportSuspectedFailure \/ Shutdown
  \/ \E s \in sync : SyncCycle(s)
  \/ \E c \in Chats : Gate(c) \/ NoteAffected(c)

LEMMA WorldKeeps ==
  ASSUME IInv, World
  PROVE  IInv'
  <1> USE DEF handle, guest, decl, budget
  <1>1. /\ UNCHANGED <<mutex, op, pc, health, sandbox, conn, sync, decl, bound, excused>>
        /\ shutdown' \/ ~shutdown
    BY DEF World, VmFails, VmBoots, ReportSuspectedFailure, Shutdown, SyncCycle, Gate,
           NoteAffected, IInv, TypeOK
  <1>2. /\ vm' \in {"running", "booting", "down"} /\ affected' \subseteq Chats
        /\ wake' \in BOOLEAN /\ last' = last /\ edits' = edits /\ shutdown' \in BOOLEAN
    BY DEF World, VmFails, VmBoots, ReportSuspectedFailure, Shutdown, SyncCycle, Gate,
           NoteAffected, IInv, TypeOK
  <1>3. faults' \in 0..MaxFaults
    <2>1. faults' = faults \/ (faults < MaxFaults /\ faults' = faults + 1)
      BY DEF World, VmFails, VmBoots, ReportSuspectedFailure, Shutdown, SyncCycle, Gate,
             NoteAffected, Charge, FailsIf
    <2>2. QED
      BY <2>1, Bounds DEF IInv, TypeOK
  <1>4. wk' \in [Chats -> {"idle", "refused"}]
    <2>1. CASE UNCHANGED wk
      BY <2>1 DEF IInv, TypeOK
    <2>2. CASE \E c \in Chats : Gate(c) \/ NoteAffected(c)
      BY <2>2 DEF Gate, NoteAffected, IInv, TypeOK
    <2>3. QED
      BY <2>1, <2>2
         DEF World, VmFails, VmBoots, ReportSuspectedFailure, Shutdown, SyncCycle
  <1>5. TypeOK'
    BY <1>1, <1>2, <1>3, <1>4 DEF IInv, TypeOK
  <1>6. LockInv' /\ PlacesInv'
    BY <1>1, LockFrame
  <1>7. PhaseInv' /\ SyncInv' /\ YamlIsStore'
    BY <1>1, PhaseFrame, YamlFrame
  <1>8. StaleInv'
    BY <1>1, StaleFrame, OutageFrame
  <1>9. QED
    BY <1>5, <1>6, <1>7, <1>8 DEF IInv

\* An edit is seen by the watcher, or what it leaves behind is excused.
LEMMA PeerSharesKeeps ==
  ASSUME IInv, NEW x \in Providers, PeerShares(x)
  PROVE  IInv'
  <1> USE DEF handle, guest, decl, budget
  <1>1. TypeOK'
    <2>0. /\ yaml \subseteq Providers /\ store \in [Providers -> Versions] /\ last \in Versions
      BY DEF IInv, TypeOK
    <2>1. /\ yaml' = yaml \cup {x} /\ last' = last + 1
          /\ store' = [store EXCEPT ![x] = last + 1]
      BY DEF PeerShares
    <2>2. /\ yaml' \subseteq Providers
          /\ store' \in [Providers -> Versions] /\ last' \in Versions
      BY <2>0, <2>1 DEF Versions
    <2>3. edits' \in 0..MaxEdits /\ excused' \subseteq Providers
      BY Bounds DEF PeerShares, IInv, TypeOK, Overlooked
    <2>4. QED
      BY <2>2, <2>3 DEF PeerShares, IInv, TypeOK
  <1>2. LockInv' /\ PlacesInv' /\ PhaseInv' /\ SyncInv'
    BY LockFrame, PhaseFrame DEF PeerShares
  <1>3. YamlIsStore'
    <2>1. /\ yaml' = yaml \cup {x} /\ store' = [store EXCEPT ![x] = last + 1]
          /\ store \in [Providers -> Versions] /\ last + 1 # 0
      BY DEF PeerShares, IInv, TypeOK, Versions
    <2>2. YamlIsStore
      BY DEF IInv
    <2>3. QED
      BY <2>1, <2>2 DEF YamlIsStore
  <1>4. StaleInv'
    <2>1. yaml' # yaml
      <3>1. x \notin yaml /\ x \in yaml'
        BY DEF PeerShares, IInv, YamlIsStore
      <3>2. QED
        BY <3>1
    <2>2. CASE yaml' = seen
      <3>1. \A p \in Providers : ~Stale(p)'
        BY <2>1, <2>2 DEF PeerShares, Overlooked, Stale
      <3>2. QED
        BY <3>1 DEF StaleInv
    <2>3. CASE yaml' # seen
      <3>1. Heard'
        BY <2>3 DEF PeerShares, Heard
      <3>2. QED
        BY <3>1 DEF StaleInv, Pending
    <2>4. QED
      BY <2>2, <2>3
  <1>5. QED
    BY <1>1, <1>2, <1>3, <1>4 DEF IInv

\* What a peer's reconciliation leaves different from the store is excused.
LEMMA PeerReconcilesKeeps ==
  ASSUME IInv, PeerReconciles
  PROVE  IInv'
  <1> USE DEF handle, guest, decl, budget
  <1>1. TypeOK'
    <2>1. bound' \in [Providers -> Versions]
      <3>1. \A p \in Providers : LeftByPeer(p) \subseteq Versions
        BY DEF LeftByPeer, IInv, TypeOK, Versions
      <3>2. UNION {LeftByPeer(p) : p \in Providers} \subseteq Versions
        BY <3>1
      <3>3. QED
        BY <3>2 DEF PeerReconciles
    <2>2. last' \in Versions /\ edits' \in 0..MaxEdits /\ excused' \subseteq Providers
      BY Bounds DEF PeerReconciles, Unsettle, IInv, TypeOK, Versions
    <2>3. QED
      BY <2>1, <2>2 DEF PeerReconciles, IInv, TypeOK
  <1>2. LockInv' /\ PlacesInv' /\ PhaseInv' /\ SyncInv' /\ YamlIsStore'
    BY LockFrame, PhaseFrame, YamlFrame DEF PeerReconciles
  <1>3. StaleInv'
    <2>1. \A p \in Providers : ~Stale(p)'
      BY DEF PeerReconciles, Unsettle, Stale
    <2>2. QED
      BY <2>1 DEF StaleInv
  <1>4. QED
    BY <1>1, <1>2, <1>3 DEF IInv

\* The changed record is excused; nothing that is to come for another one changes.
LEMMA OwnerChangesKeeps ==
  ASSUME IInv, NEW x \in Providers, OwnerChanges(x)
  PROVE  IInv'
  <1> USE DEF handle, guest, decl, budget
  <1>1. TypeOK'
    <2>1. store' \in [Providers -> Versions] /\ last' \in Versions
      BY DEF OwnerChanges, IInv, TypeOK, Versions
    <2>2. edits' \in 0..MaxEdits /\ excused' \subseteq Providers
      BY Bounds DEF OwnerChanges, IInv, TypeOK
    <2>3. QED
      BY <2>1, <2>2 DEF OwnerChanges, IInv, TypeOK
  <1>2. LockInv' /\ PlacesInv' /\ PhaseInv' /\ SyncInv'
    BY LockFrame, PhaseFrame DEF OwnerChanges
  <1>3. YamlIsStore'
    BY DEF OwnerChanges, IInv, TypeOK, YamlIsStore, Versions
  <1>4. StaleInv'
    <2> SUFFICES ASSUME ~shutdown', NEW p \in Providers, Stale(p)' PROVE Pending(p)'
      BY DEF StaleInv
    <2>1. p # x /\ store'[p] = store[p] /\ Stale(p) /\ ~shutdown
      BY DEF OwnerChanges, Stale, IInv, TypeOK
    <2>2. Pending(p)
      BY <2>1 DEF IInv, StaleInv
    <2>3. QED
      BY <2>1, <2>2 DEF OwnerChanges, Pending, Outage, Heard, Coming, Serving
  <1>5. QED
    BY <1>1, <1>2, <1>3, <1>4 DEF IInv

LEMMA ProvidersReloadKeeps ==
  ASSUME IInv, ProvidersReload
  PROVE  IInv'
  <1> USE DEF handle, guest, decl, budget
  <1>1. queue' \in Seq(SUBSET Providers) /\ queue' # <<>>
    <2>1. /\ queue \in Seq(SUBSET Providers) /\ yaml \in SUBSET Providers
          /\ queue' = Append(queue, yaml)
      BY DEF ProvidersReload, IInv, TypeOK
    <2>2. QED
      BY <2>1
  <1>2. TypeOK'
    BY <1>1 DEF ProvidersReload, IInv, TypeOK
  <1>3. LockInv' /\ PlacesInv' /\ PhaseInv' /\ SyncInv' /\ YamlIsStore'
    BY LockFrame, PhaseFrame, YamlFrame DEF ProvidersReload
  <1>4. StaleInv'
    BY <1>1 DEF StaleInv, Pending, Heard
  <1>5. QED
    BY <1>2, <1>3, <1>4 DEF IInv

----------------------------------------------------------------------------
(* The supervisor, where it does not touch the credentials.                 *)

SupStays ==
  \/ TakeReport \/ ProbePasses \/ ProbeFails \/ ClearSandbox \/ AbortSync \/ Unavailable
  \/ SetSandbox \/ SetHealth \/ SpawnSync \/ (StageFails /\ pc' = "backoff")
SupLeaves ==
  \/ MonitorBreaks \/ SpecFails \/ NotifyBackOnline \/ Backoff
  \/ (StageFails /\ pc' # "backoff")
SupMoves == SupStays \/ RecoveryWaits \/ SupLeaves

LEMMA SupMovesFrame ==
  ASSUME SupMoves
  PROVE  UNCHANGED <<vm, conn, bound, wk, decl, op, shutdown, excused, last, edits>>
  BY DEF SupMoves, SupStays, SupLeaves, TakeReport, MonitorBreaks, ProbePasses, ProbeFails,
         ClearSandbox, AbortSync, RecoveryWaits, Unavailable, SpecFails, StageFails,
         SetSandbox, SetHealth, SpawnSync, NotifyBackOnline, Backoff, handle, guest, decl,
         budget

LEMMA SupMovesPc ==
  ASSUME IInv, SupMoves
  PROVE  /\ pc # "reconcile" /\ pc' # "reconcile"
         /\ pc' \in {"loop", "probe", "clear", "abort", "wait", "stage", "ready", "spawn",
                     "notify", "backoff", "done"}
  BY DEF SupMoves, SupStays, SupLeaves, TakeReport, MonitorBreaks, ProbePasses, ProbeFails,
         ClearSandbox, AbortSync, RecoveryWaits, Unavailable, SpecFails, StageFails,
         SetSandbox, SetHealth, SpawnSync, NotifyBackOnline, Backoff, Stop

LEMMA SupMovesType ==
  ASSUME IInv, SupMoves, MutexOK'
  PROVE  TypeOK'
  <1> USE DEF handle, guest, decl, budget
  <1>1. UNCHANGED <<vm, conn, bound, wk, decl, op, shutdown, excused, last, edits>>
    BY SupMovesFrame
  <1>2. /\ health' \in {health, TRUE, FALSE} /\ sandbox' \in {sandbox, 0, conn}
        /\ affected' \in {affected, {}} /\ wake' \in {wake, FALSE}
        /\ sync' \in {sync, {}, sync \cup {sandbox}}
        /\ faults' = faults \/ (faults < MaxFaults /\ faults' = faults + 1)
    BY DEF SupMoves, SupStays, SupLeaves, TakeReport, MonitorBreaks, ProbePasses, ProbeFails,
           ClearSandbox, AbortSync, RecoveryWaits, Unavailable, SpecFails, StageFails,
           SetSandbox, SetHealth, SpawnSync, NotifyBackOnline, Backoff, Stop, Charge, FailsIf
  <1>3. health' \in BOOLEAN /\ affected' \subseteq Chats /\ wake' \in BOOLEAN
    BY <1>2 DEF IInv, TypeOK
  <1>4. faults' \in 0..MaxFaults
    BY <1>2, Bounds DEF IInv, TypeOK
  <1>5. sandbox' \in Conns /\ sync' \subseteq Conns
    BY <1>2, Bounds DEF IInv, TypeOK, Conns
  <1>6. QED
    BY <1>1, <1>3, <1>4, <1>5, SupMovesPc DEF IInv, TypeOK, MutexOK

LEMMA SupMovesPhase ==
  ASSUME IInv, SupMoves
  PROVE  PhaseInv' /\ SyncInv'
  <1> USE DEF handle, guest, decl, budget
  <1>1. PhaseInv'
    BY DEF SupMoves, SupStays, SupLeaves, TakeReport, MonitorBreaks, ProbePasses, ProbeFails,
           ClearSandbox, AbortSync, RecoveryWaits, Unavailable, SpecFails, StageFails,
           SetSandbox, SetHealth, SpawnSync, NotifyBackOnline, Backoff, Stop, IInv, PhaseInv
  <1>2. \E c \in Conns : sync' \subseteq {c}
    <2>1. sync' = {} \/ sync' = sync \/ sync' = {sandbox}
      BY DEF SupMoves, SupStays, SupLeaves, TakeReport, MonitorBreaks, ProbePasses, ProbeFails,
             ClearSandbox, AbortSync, RecoveryWaits, Unavailable, SpecFails, StageFails,
             SetSandbox, SetHealth, SpawnSync, NotifyBackOnline, Backoff, Stop, IInv, SyncInv
    <2>2. QED
      BY <2>1 DEF IInv, SyncInv, TypeOK
  <1>3. SyncInv'
    BY <1>2
       DEF SupMoves, SupStays, SupLeaves, TakeReport, MonitorBreaks, ProbePasses, ProbeFails,
           ClearSandbox, AbortSync, RecoveryWaits, Unavailable, SpecFails, StageFails,
           SetSandbox, SetHealth, SpawnSync, NotifyBackOnline, Backoff, Stop, IInv, PhaseInv,
           SyncInv
  <1>4. QED
    BY <1>1, <1>3

LEMMA SupMovesLock ==
  ASSUME IInv, SupMoves
  PROVE  MutexOK' /\ LockInv' /\ PlacesInv'
  <1> USE DEF handle, guest, decl, budget
  <1>1. UNCHANGED op
    BY SupMovesFrame
  <1>2. PlacesInv'
    BY <1>1, SupMovesPc DEF IInv, PlacesInv, SupPlaces, RecPlaces, ReqPlaces
  <1>3. OthersStay("sup") /\ "sup" \in Actors
    BY <1>1, ActorSet DEF OthersStay, Inside, Waiting
  <1>4. CASE SupStays
    <2>1. Stays("sup")
      BY <1>4, ActorSet
         DEF Stays, Inside, Waiting, SupStays, TakeReport, ProbePasses, ProbeFails,
             ClearSandbox, AbortSync, Unavailable, StageFails, SetSandbox, SetHealth,
             SpawnSync, Stop
    <2>2. QED
      BY <1>2, <1>3, <2>1, LockStep DEF IInv, TypeOK, MutexOK
  <1>5. CASE RecoveryWaits
    <2>1. Arrives("sup")
      BY <1>5, ActorSet DEF Arrives, Inside, Waiting, RecoveryWaits
    <2>2. QED
      BY <1>2, <1>3, <2>1, LockStep DEF IInv, TypeOK, MutexOK
  <1>6. CASE SupLeaves
    <2>1. Leaves("sup")
      BY <1>6, ActorSet
         DEF Leaves, Inside, Waiting, SupLeaves, MonitorBreaks, SpecFails, NotifyBackOnline,
             Backoff, StageFails, Stop
    <2>2. QED
      BY <1>2, <1>3, <2>1, LockStep DEF IInv, TypeOK, MutexOK
  <1>7. QED
    BY <1>4, <1>5, <1>6 DEF SupMoves

\* An outage ends only with an attach.
LEMMA SupMovesOutage ==
  ASSUME IInv, SupMoves, Outage
  PROVE  Outage'
  BY DEF SupMoves, SupStays, SupLeaves, TakeReport, MonitorBreaks, ProbePasses, ProbeFails,
         ClearSandbox, AbortSync, RecoveryWaits, Unavailable, SpecFails, StageFails,
         SetSandbox, SetHealth, SpawnSync, NotifyBackOnline, Backoff, Stop, IInv, PhaseInv,
         Outage, handle

LEMMA SupMovesKeeps ==
  ASSUME IInv, SupMoves
  PROVE  IInv'
  <1> USE DEF decl
  <1>1. TypeOK' /\ LockInv' /\ PlacesInv' /\ PhaseInv' /\ SyncInv'
    BY SupMovesType, SupMovesPhase, SupMovesLock
  <1>2. YamlIsStore'
    BY SupMovesFrame, YamlFrame
  <1>3. StaleInv'
    <2>1. shutdown' \/ ~shutdown
      BY SupMovesFrame DEF IInv, TypeOK
    <2>2. QED
      BY <2>1, SupMovesFrame, SupMovesOutage, StaleFrame
  <1>4. QED
    BY <1>1, <1>2, <1>3 DEF IInv

----------------------------------------------------------------------------
(* Steps of one actor with the credentials.                                 *)

LEMMA OthersStayOp ==
  ASSUME NEW a \in Actors, OnlyOp(a), a = "sup" \/ pc' = pc
  PROVE  OthersStay(a)
  BY ActorSet DEF OthersStay, OnlyOp, Inside, Waiting

LEMMA PlacesStep ==
  ASSUME PlacesInv, NEW a \in Actors, OnlyOp(a),
         a = "sup" => SupPlaces', a # "sup" => pc' = pc,
         a = "rec" => RecPlaces', a \in Reqs => ReqPlaces(a)'
  PROVE  PlacesInv'
  BY ActorSet DEF PlacesInv, SupPlaces, RecPlaces, ReqPlaces, OnlyOp

LEMMA StaleStep ==
  ASSUME IInv, NEW a \in Actors, OnlyOp(a), UNCHANGED <<store, yaml, seen, queue>>,
         shutdown' \/ ~shutdown, Outage => Outage',
         \A p \in Providers : Stale(p)' => Stale(p),
         \A p \in Providers :
           /\ Stale(p)'
           /\ \/ Coming(a, p)
              \/ a \in Reqs /\ Serving(a, p)
              \/ a = "rec" /\ op[a].pc = "wait"
           => Pending(p)'
  PROVE  StaleInv'
  <1> SUFFICES ASSUME ~shutdown', NEW p \in Providers, Stale(p)' PROVE Pending(p)'
    BY DEF StaleInv
  <1>1. Pending(p)
    BY DEF IInv, StaleInv
  <1>2. CASE Outage
    BY <1>2 DEF Pending
  <1>3. CASE Heard
    BY <1>3, ActorSet DEF Pending, Heard, OnlyOp
  <1>4. CASE \E b \in Actors : Coming(b, p)
    <2>1. PICK b \in Actors : Coming(b, p)
      BY <1>4
    <2>2. CASE b # a
      <3>1. Coming(b, p)'
        BY <2>1, <2>2 DEF OnlyOp, Coming
      <3>2. QED
        BY <3>1 DEF Pending
    <2>3. QED
      BY <2>1, <2>2
  <1>5. CASE \E q \in Reqs : Serving(q, p)
    <2>1. PICK q \in Reqs : Serving(q, p)
      BY <1>5
    <2>2. CASE q # a
      <3>1. Serving(q, p)'
        BY <2>1, <2>2, ActorSet DEF OnlyOp, Serving
      <3>2. QED
        BY <3>1 DEF Pending
    <2>3. QED
      BY <2>1, <2>2
  <1>6. QED
    BY <1>1, <1>2, <1>3, <1>4, <1>5 DEF Pending

----------------------------------------------------------------------------
(* Reconciliation.                                                          *)

LEMMA FinishedStep ==
  ASSUME IInv, NEW a \in Actors, Finished(a)
  PROVE  /\ OnlyOp(a)
         /\ a = "sup" => /\ pc' = "stage" /\ op'[a].pc = "idle" /\ UNCHANGED <<mutex, sync>>
         /\ a = "rec" => op'[a].pc = "idle"
         /\ a \in Reqs => op'[a].pc = "answered"
         /\ a # "sup" => Release(a) /\ UNCHANGED <<pc, sync>>
  <1>1. \E r \in Op : /\ Become(a, r)
                      /\ r.pc = IF a \in Reqs THEN "answered" ELSE "idle"
    BY IdleType, ActorSet DEF Finished
  <1>2. QED
    BY <1>1, OpSet, ActorSet DEF Finished, IInv, TypeOK

LEMMA GivenUpStep ==
  ASSUME IInv, NEW a \in Actors, GivenUp(a)
  PROVE  /\ OnlyOp(a)
         /\ a = "sup" => /\ pc' = "done" /\ op'[a].pc = "idle" /\ Release(a) /\ sync' = {}
         /\ a = "rec" => \/ op'[a].pc = "idle" /\ Release(a)
                         \/ op'[a].pc = "backoff" /\ UNCHANGED mutex
         /\ a \in Reqs => op'[a].pc = "answered" /\ Release(a)
         /\ a # "sup" => UNCHANGED <<pc, sync>>
  <1>1. CASE Retried(a)
    <2> DEFINE r == [op[a] EXCEPT !.pc = "backoff", !.tries = @ + 1]
    <2>1. a = "rec" /\ Become(a, r) /\ UNCHANGED <<mutex, pc, sync>>
      BY <1>1 DEF Retried, Become
    <2>2. op[a].tries < MaxRetries /\ op[a].tries \in 0..MaxRetries /\ op[a] \in Op
      BY <1>1, OpAt DEF Retried, IInv, TypeOK
    <2>3. op[a].tries + 1 \in 0..MaxRetries
      BY <2>2, Bounds
    <2>4. r \in Op /\ r.pc = "backoff"
      BY <2>2, <2>3 DEF Op
    <2> HIDE DEF r
    <2>5. QED
      BY <2>1, <2>4, OpSet, ActorSet DEF IInv, TypeOK
  <1>2. CASE Finished(a) /\ a # "sup"
    BY <1>2, FinishedStep
  <1>3. CASE a = "sup" /\ Stop /\ Become(a, Idle)
    BY <1>3, OpSet, IdleType, ActorSet DEF Stop, IInv, TypeOK
  <1>4. QED
    BY <1>1, <1>2, <1>3, ActorSet DEF GivenUp

LEMMA FinishedKeeps ==
  ASSUME IInv, NEW a \in Actors, op[a].pc = "apply", Finished(a)
  PROVE  MutexOK' /\ LockInv' /\ PlacesInv'
  <1>1. Inside(a) /\ (a = "sup" => pc = "reconcile")
    BY ActorSet DEF Inside, IInv, PlacesInv, SupPlaces
  <1>2. Stays(a) \/ Leaves(a)
    <2>1. CASE a = "sup"
      BY <1>1, <2>1, FinishedStep, ActorSet DEF Stays, Leaves, Inside, Waiting
    <2>2. CASE a = "rec"
      BY <1>1, <2>2, FinishedStep, ActorSet DEF Stays, Leaves, Inside, Waiting
    <2>3. CASE a \in Reqs
      BY <1>1, <2>3, FinishedStep, ActorSet DEF Leaves, Inside, Waiting, Named
    <2>4. QED
      BY <2>1, <2>2, <2>3, ActorSet
  <1>3. OthersStay(a)
    BY FinishedStep, OthersStayOp
  <1>4. MutexOK' /\ LockInv'
    BY <1>2, <1>3, LockStep DEF IInv, TypeOK, MutexOK
  <1>5. PlacesInv'
    BY FinishedStep, PlacesStep DEF IInv, SupPlaces, RecPlaces, ReqPlaces, Named
  <1>6. QED
    BY <1>4, <1>5

LEMMA GivenUpKeeps ==
  ASSUME IInv, NEW a \in Actors, op[a].pc \in {"resolve", "apply"}, GivenUp(a)
  PROVE  MutexOK' /\ LockInv' /\ PlacesInv'
  <1>1. Inside(a) /\ (a = "sup" => pc = "reconcile")
    BY ActorSet DEF Inside, IInv, PlacesInv, SupPlaces
  <1>2. Stays(a) \/ Leaves(a)
    <2>1. CASE a = "sup"
      BY <1>1, <2>1, GivenUpStep, ActorSet DEF Stays, Leaves, Inside, Waiting
    <2>2. CASE a = "rec"
      BY <1>1, <2>2, GivenUpStep, ActorSet DEF Stays, Leaves, Inside, Waiting
    <2>3. CASE a \in Reqs
      BY <1>1, <2>3, GivenUpStep, ActorSet DEF Leaves, Inside, Waiting, Named
    <2>4. QED
      BY <2>1, <2>2, <2>3, ActorSet
  <1>3. OthersStay(a)
    BY GivenUpStep, OthersStayOp
  <1>4. MutexOK' /\ LockInv'
    BY <1>2, <1>3, LockStep DEF IInv, TypeOK, MutexOK
  <1>5. PlacesInv'
    BY GivenUpStep, PlacesStep DEF IInv, SupPlaces, RecPlaces, ReqPlaces, Named
  <1>6. QED
    BY <1>4, <1>5

\* The supervisor leaves the reconciliation without a sync task, for the next
\* part of the bring-up or for good.
LEMMA AfterReconcile ==
  ASSUME IInv, NEW a \in Actors, op[a].pc \in {"resolve", "apply"},
         UNCHANGED <<health, sandbox, conn>>,
         \/ UNCHANGED <<pc, sync>>
         \/ a = "sup" /\ pc' = "stage" /\ UNCHANGED sync
         \/ a = "sup" /\ pc' = "done" /\ sync' = {}
  PROVE  /\ PhaseInv' /\ SyncInv' /\ (Outage => Outage')
         /\ pc' \in {pc, "stage", "done"} /\ sync' \subseteq Conns
  <1>1. CASE UNCHANGED <<pc, sync>>
    BY <1>1, PhaseFrame, OutageFrame DEF IInv, TypeOK
  <1>2. CASE a = "sup"
    <2>1. pc = "reconcile"
      BY <1>2 DEF IInv, PlacesInv, SupPlaces
    <2>2. QED
      BY <2>1 DEF IInv, TypeOK, PhaseInv, SyncInv, Outage
  <1>3. QED
    BY <1>1, <1>2

LEMMA ResolveKeeps ==
  ASSUME IInv, NEW a \in Actors, Resolve(a)
  PROVE  IInv'
  <1> USE DEF handle, guest, decl, budget
  <1> DEFINE r == [op[a] EXCEPT !.want = store, !.pc = "apply"]
  <1>1. /\ OnlyOp(a) /\ op'[a].pc = "apply" /\ op'[a].kind = op[a].kind
        /\ op'[a].known = op[a].known /\ op'[a].want = store
    <2>1. /\ r \in Op /\ r.pc = "apply" /\ r.kind = op[a].kind
          /\ r.known = op[a].known /\ r.want = store
      BY OpAt DEF IInv, TypeOK, Op
    <2>2. Become(a, r)
      BY DEF Resolve, Become
    <2> HIDE DEF r
    <2>3. QED
      BY <2>1, <2>2, OpSet DEF IInv, TypeOK
  <1>2. /\ UNCHANGED <<handle, guest, pc, sync, wk, decl, mutex, shutdown, excused, budget>>
        /\ op[a].pc = "resolve"
    BY DEF Resolve
  <1>3. TypeOK'
    BY <1>1, <1>2 DEF IInv, TypeOK, OnlyOp
  <1>4. MutexOK' /\ LockInv'
    <2>1. Stays(a) /\ OthersStay(a)
      BY <1>1, <1>2, ActorSet, OthersStayOp DEF Stays, Inside, Waiting
    <2>2. QED
      BY <2>1, LockStep DEF IInv, TypeOK, MutexOK
  <1>5. PlacesInv'
    BY <1>1, <1>2, PlacesStep DEF IInv, PlacesInv, SupPlaces, RecPlaces, ReqPlaces, Named
  <1>6. PhaseInv' /\ SyncInv' /\ YamlIsStore'
    BY <1>2, PhaseFrame, YamlFrame
  <1>7. StaleInv'
    <2>1. \A p \in Providers : Stale(p)' => Stale(p)
      BY <1>2 DEF Stale
    <2>2. ASSUME NEW p \in Providers, Coming(a, p) PROVE Pending(p)'
      BY <1>1, <1>2, <2>2 DEF Coming, Pending
    <2>3. \A p \in Providers : ~Serving(a, p)
      BY <1>2 DEF Serving
    <2>4. QED
      BY <1>1, <1>2, <2>1, <2>2, <2>3, StaleStep, OutageFrame DEF IInv, TypeOK
  <1>8. QED
    BY <1>3, <1>4, <1>5, <1>6, <1>7 DEF IInv

LEMMA ReconciledType ==
  ASSUME IInv, NEW a \in Actors
  PROVE  /\ \A p \in Providers : Reconciled(op[a], p) \in Versions
         /\ ReconcileAll(op[a]) \in [Providers -> Versions]
         /\ PartlyDone(op[a]) \subseteq [Providers -> Versions]
  <1>1. \A p \in Providers : Reconciled(op[a], p) \in Versions
    BY OpAt DEF Reconciled, IInv, TypeOK, Versions
  <1>2. ReconcileAll(op[a]) \in [Providers -> Versions]
    BY <1>1 DEF ReconcileAll
  <1>3. PartlyDone(op[a]) \subseteq [Providers -> Versions]
    BY <1>1 DEF PartlyDone, IInv, TypeOK
  <1>4. QED
    BY <1>1, <1>2, <1>3

\* What an application leaves stale was stale before, and a does not know it.
LEMMA ApplyKeeps ==
  ASSUME IInv, NEW a \in Actors, Apply(a)
  PROVE  IInv'
  <1> USE DEF handle, guest, decl, budget
  <1>1. /\ UNCHANGED <<handle, vm, conn, wk, decl, shutdown, budget>>
        /\ op[a].pc = "apply" /\ Finished(a) /\ bound' = ReconcileAll(op[a])
    BY DEF Apply
  <1>2. PhaseInv' /\ SyncInv' /\ (Outage => Outage') /\ pc' \in {pc, "stage", "done"}
        /\ sync' \subseteq Conns
    BY <1>1, FinishedStep, AfterReconcile
  <1>3. MutexOK' /\ LockInv' /\ PlacesInv'
    BY <1>1, FinishedKeeps
  <1>4. TypeOK'
    <2>1. bound' \in [Providers -> Versions] /\ excused' \subseteq Providers
      BY <1>1, ReconciledType DEF Apply, Settle, IInv, TypeOK
    <2>2. QED
      BY <1>1, <1>2, <1>3, <2>1, FinishedStep DEF IInv, TypeOK, MutexOK, OnlyOp
  <1>5. YamlIsStore'
    BY <1>1, YamlFrame
  <1>6. StaleInv'
    <2>1. ASSUME NEW p \in Providers, Stale(p)'
          PROVE  Stale(p) /\ store[p] = 0 /\ p \notin op[a].known
      <3>1. op[a].want[p] = store[p]
        BY <1>1, <2>1 DEF Apply, Settle, Stale
      <3>2. bound'[p] = Reconciled(op[a], p) /\ bound'[p] # store[p]
        BY <1>1, <2>1 DEF ReconcileAll, Stale
      <3>3. store[p] = 0 /\ p \notin op[a].known /\ bound'[p] = bound[p]
        BY <3>1, <3>2 DEF Reconciled
      <3>4. p \notin excused
        BY <2>1, <3>2 DEF Apply, Settle, Stale
      <3>5. QED
        BY <3>2, <3>3, <3>4 DEF Stale
    <2>2. \A p \in Providers : Stale(p)' => ~Coming(a, p) /\ ~Serving(a, p)
      BY <1>1, <2>1 DEF Coming, Serving
    <2>3. QED
      BY <1>1, <1>2, <2>1, <2>2, FinishedStep, StaleStep DEF IInv, TypeOK
  <1>7. QED
    BY <1>2, <1>3, <1>4, <1>5, <1>6 DEF IInv

\* A reconciliation that fails excuses everything it leaves stale.
LEMMA ReconcileFailsKeeps ==
  ASSUME IInv, NEW a \in Actors, ResolveFails(a) \/ ApplyFails(a)
  PROVE  IInv'
  <1> USE DEF handle, guest, decl, budget
  <1>1. /\ UNCHANGED <<handle, vm, conn, wk, decl, shutdown, last, edits>>
        /\ op[a].pc \in {"resolve", "apply"} /\ GivenUp(a)
    BY DEF ResolveFails, ApplyFails
  <1>2. PhaseInv' /\ SyncInv' /\ pc' \in {pc, "stage", "done"} /\ sync' \subseteq Conns
    BY <1>1, GivenUpStep, AfterReconcile, ActorSet
  <1>3. MutexOK' /\ LockInv' /\ PlacesInv'
    BY <1>1, GivenUpKeeps
  <1>4. TypeOK'
    <2>1. bound' \in [Providers -> Versions] /\ excused' \subseteq Providers
      BY ReconciledType DEF ResolveFails, ApplyFails, Unsettle, IInv, TypeOK
    <2>2. faults' \in 0..MaxFaults
      BY Bounds DEF ResolveFails, ApplyFails, FailsIf, Charge, IInv, TypeOK
    <2>3. QED
      BY <1>1, <1>2, <1>3, <2>1, <2>2, GivenUpStep DEF IInv, TypeOK, MutexOK, OnlyOp
  <1>5. YamlIsStore'
    BY <1>1, YamlFrame
  <1>6. StaleInv'
    <2>1. \A p \in Providers : ~Stale(p)'
      BY <1>1 DEF ResolveFails, ApplyFails, Unsettle, Stale
    <2>2. QED
      BY <2>1 DEF StaleInv
  <1>7. QED
    BY <1>2, <1>3, <1>4, <1>5, <1>6 DEF IInv

----------------------------------------------------------------------------
(* The reconcile task.                                                      *)

\* A step of the task or of a request, as it regards the lock.
LEMMA TaskLock ==
  ASSUME IInv, NEW a \in Actors, a # "sup", OnlyOp(a), pc' = pc,
         Stays(a) \/ Arrives(a) \/ Leaves(a)
  PROVE  MutexOK' /\ LockInv'
  BY OthersStayOp, LockStep DEF IInv, TypeOK, MutexOK

LEMMA ReceiveConfigKeeps ==
  ASSUME IInv, ReceiveConfig
  PROVE  IInv'
  <1> USE DEF handle, guest, decl, budget
  <1>1. /\ Head(queue) \subseteq Providers /\ queue' \in Seq(SUBSET Providers)
    BY DEF ReceiveConfig, IInv, TypeOK
  <1>2. OnlyOp("rec") /\ op'["rec"].pc = "wait"
    <2> DEFINE r == [Idle EXCEPT !.pc = "wait", !.known = Head(queue)]
    <2>1. r \in Op /\ r.pc = "wait"
      BY <1>1, IdleType DEF Op
    <2>2. Become("rec", r)
      BY DEF ReceiveConfig
    <2> HIDE DEF r
    <2>3. QED
      BY <2>1, <2>2, OpSet, ActorSet DEF IInv, TypeOK
  <1>3. Arrives("rec")
    BY <1>2, ActorSet DEF ReceiveConfig, Arrives, Inside, Waiting
  <1>4. MutexOK' /\ LockInv'
    BY <1>2, <1>3, TaskLock, ActorSet DEF ReceiveConfig
  <1>5. PlacesInv'
    BY <1>2, PlacesStep, ActorSet DEF ReceiveConfig, IInv, RecPlaces
  <1>6. TypeOK'
    BY <1>1, <1>2, <1>4 DEF ReceiveConfig, IInv, TypeOK, MutexOK, OnlyOp
  <1>7. PhaseInv' /\ SyncInv' /\ YamlIsStore'
    BY PhaseFrame, YamlFrame DEF ReceiveConfig
  <1>8. StaleInv'
    BY <1>2 DEF StaleInv, Pending, Heard
  <1>9. QED
    BY <1>4, <1>5, <1>6, <1>7, <1>8 DEF IInv

\* While the task has the lock and there is no sandbox, the supervisor has yet
\* to attach one.
LEMMA AcceptConfigKeeps ==
  ASSUME IInv, AcceptConfig
  PROVE  IInv'
  <1> USE DEF handle, guest, decl, budget
  <1> DEFINE new == op["rec"].known
  <1>1. /\ UNCHANGED <<handle, guest, pc, sync, wk, yaml, store, seen, queue, shutdown, budget>>
        /\ op["rec"].pc = "wait" /\ Holds("rec") /\ cfg' = new /\ new \subseteq Providers
    BY OpAt, ActorSet DEF AcceptConfig, IInv, TypeOK
  <1>2. PhaseInv' /\ SyncInv' /\ YamlIsStore'
    BY <1>1, PhaseFrame, YamlFrame
  <1>3. CASE sandbox = 0
    <2>1. Become("rec", Idle) /\ Release("rec") /\ UNCHANGED excused
      BY <1>3 DEF AcceptConfig
    <2>2. OnlyOp("rec") /\ op'["rec"].pc = "idle"
      BY <2>1, OpSet, IdleType, ActorSet DEF IInv, TypeOK
    <2>3. Leaves("rec")
      BY <1>1, <2>1, <2>2, ActorSet DEF Leaves, Inside, Waiting
    <2>4. MutexOK' /\ LockInv'
      BY <1>1, <2>2, <2>3, TaskLock, ActorSet
    <2>5. PlacesInv'
      BY <1>1, <2>2, PlacesStep, ActorSet DEF IInv, RecPlaces
    <2>6. TypeOK'
      BY <1>1, <2>1, <2>2, <2>4 DEF IInv, TypeOK, MutexOK, OnlyOp
    <2>7. ~Inside("sup")
      BY <1>1, OneHolder, ActorSet DEF IInv, LockInv, HolderInside
    <2>8. Outage'
      BY <1>1, <1>3, <2>7 DEF Inside, IInv, TypeOK, PhaseInv, Outage
    <2>9. QED
      BY <1>2, <2>4, <2>5, <2>6, <2>8 DEF IInv, StaleInv, Pending
  <1>4. CASE sandbox # 0
    <2>1. /\ op' = [op EXCEPT !["rec"].pc = "resolve", !["rec"].known = cfg \cup new]
          /\ Orphaned(cfg \cup new) /\ UNCHANGED mutex
      BY <1>4 DEF AcceptConfig
    <2>2. OnlyOp("rec") /\ op'["rec"].pc = "resolve" /\ op'["rec"].known = cfg \cup new
      <3> DEFINE D == cfg \cup new
      <3>1. D \in SUBSET Providers
        BY <1>1 DEF IInv, TypeOK
      <3> DEFINE r == [op["rec"] EXCEPT !.pc = "resolve", !.known = D]
      <3>2. r \in Op /\ r.pc = "resolve" /\ r.known = D
        BY <3>1, OpAt, ActorSet DEF Op, IInv, TypeOK
      <3>3. Become("rec", r)
        BY <2>1 DEF Become
      <3> HIDE DEF r
      <3>4. QED
        BY <3>2, <3>3, OpSet, ActorSet DEF IInv, TypeOK
    <2>3. Stays("rec")
      BY <1>1, <2>1, <2>2, ActorSet DEF Stays, Inside, Waiting
    <2>4. MutexOK' /\ LockInv'
      BY <1>1, <2>2, <2>3, TaskLock, ActorSet
    <2>5. PlacesInv'
      BY <1>1, <2>2, PlacesStep, ActorSet DEF IInv, RecPlaces
    <2>6. TypeOK'
      BY <1>1, <2>1, <2>2, <2>4 DEF IInv, TypeOK, MutexOK, OnlyOp, Orphaned
    <2>7. \A p \in Providers : Stale(p)' => Coming("rec", p)'
      BY <1>1, <2>1, <2>2 DEF Orphaned, Stale, Coming
    <2>8. StaleInv'
      BY <2>7, ActorSet DEF StaleInv, Pending
    <2>9. QED
      BY <1>2, <2>4, <2>5, <2>6, <2>8 DEF IInv
  <1>5. QED
    BY <1>3, <1>4

LEMMA RetryReconcileKeeps ==
  ASSUME IInv, RetryReconcile
  PROVE  IInv'
  <1> USE DEF handle, guest, decl, budget
  <1>1. /\ UNCHANGED <<handle, guest, pc, sync, wk, decl, shutdown, excused, budget>>
        /\ op["rec"].pc = "backoff"
    BY DEF RetryReconcile
  <1>2. /\ OnlyOp("rec")
        /\ \/ op'["rec"].pc = "idle" /\ Release("rec")
           \/ op'["rec"].pc = "resolve" /\ UNCHANGED mutex
    BY OpSet, OpStepped, IdleType, ActorSet DEF RetryReconcile, IInv, TypeOK, Places
  <1>3. Stays("rec") \/ Leaves("rec")
    BY <1>1, <1>2, ActorSet DEF Stays, Leaves, Inside, Waiting
  <1>4. MutexOK' /\ LockInv'
    BY <1>1, <1>2, <1>3, TaskLock, ActorSet
  <1>5. PlacesInv'
    BY <1>1, <1>2, PlacesStep, ActorSet DEF IInv, RecPlaces
  <1>6. TypeOK'
    BY <1>1, <1>2, <1>4 DEF IInv, TypeOK, MutexOK, OnlyOp
  <1>7. PhaseInv' /\ SyncInv' /\ YamlIsStore'
    BY <1>1, PhaseFrame, YamlFrame
  <1>8. StaleInv'
    <2>1. \A p \in Providers : (Stale(p)' => Stale(p)) /\ ~Coming("rec", p)
      BY <1>1 DEF Stale, Coming
    <2>2. "rec" \notin Reqs
      BY ActorSet
    <2>3. QED
      BY <1>1, <1>2, <2>1, <2>2, StaleStep, OutageFrame, ActorSet DEF IInv, TypeOK
  <1>9. QED
    BY <1>4, <1>5, <1>6, <1>7, <1>8 DEF IInv

----------------------------------------------------------------------------
(* The bring-up begins: from here every binding will be resolved again.     *)

LEMMA AttachKeeps ==
  ASSUME IInv, Attach
  PROVE  IInv'
  <1> USE DEF handle, guest, decl, budget
  <1>1. /\ UNCHANGED <<handle, bound, sync, wk, decl, mutex, shutdown, budget>>
        /\ pc = "wait" /\ Holds("sup") /\ conn < MaxConns /\ conn' = conn + 1
        /\ vm' = "running" /\ pc' = "reconcile" /\ Orphaned(cfg)
    BY DEF Attach
  <1>2. OnlyOp("sup") /\ op'["sup"].pc = "resolve" /\ op'["sup"].known = cfg
    <2> DEFINE r == [Idle EXCEPT !.pc = "resolve", !.known = cfg]
    <2>1. r \in Op /\ r.pc = "resolve" /\ r.known = cfg
      BY IdleType DEF Op, IInv, TypeOK
    <2>2. Become("sup", r)
      BY DEF Attach
    <2> HIDE DEF r
    <2>3. QED
      BY <2>1, <2>2, OpSet, ActorSet DEF IInv, TypeOK
  <1>3. Stays("sup") /\ OthersStay("sup")
    BY <1>1, <1>2, OthersStayOp, ActorSet DEF Stays, Inside, Waiting
  <1>4. MutexOK' /\ LockInv'
    BY <1>3, LockStep, ActorSet DEF IInv, TypeOK, MutexOK
  <1>5. PlacesInv'
    BY <1>1, <1>2, PlacesStep, ActorSet DEF IInv, SupPlaces
  <1>6. conn' \in Conns /\ conn' # 0
    BY <1>1, Bounds DEF IInv, TypeOK, Conns
  <1>7. TypeOK'
    BY <1>1, <1>2, <1>4, <1>6 DEF IInv, TypeOK, MutexOK, OnlyOp, Orphaned
  <1>8. PhaseInv' /\ SyncInv'
    BY <1>1, <1>6 DEF IInv, PhaseInv, SyncInv
  <1>9. YamlIsStore'
    BY <1>1, YamlFrame
  <1>10. StaleInv'
    <2>1. \A p \in Providers : Stale(p)' => Coming("sup", p)'
      BY <1>1, <1>2 DEF Orphaned, Stale, Coming
    <2>2. QED
      BY <2>1, ActorSet DEF StaleInv, Pending
  <1>11. QED
    BY <1>4, <1>5, <1>7, <1>8, <1>9, <1>10 DEF IInv

----------------------------------------------------------------------------
(* The requests of the dashboard.                                           *)

\* The supervisor, the watcher and the sandbox's health are not theirs.
ReqFrame ==
  UNCHANGED <<handle, vm, conn, pc, sync, wk, seen, queue, shutdown, edits>>

LEMMA ReqFrameKeeps ==
  ASSUME IInv, ReqFrame
  PROVE  /\ PhaseInv' /\ SyncInv' /\ (Outage' <=> Outage) /\ pc' = pc
         /\ UNCHANGED <<seen, queue, shutdown>> /\ (shutdown' \/ ~shutdown)
  BY PhaseFrame, OutageFrame DEF ReqFrame, handle, IInv, TypeOK

LEMMA ReqType ==
  ASSUME IInv, ReqFrame, MutexOK', op' \in [Actors -> Op], yaml' \subseteq Providers,
         store' \in [Providers -> Versions], bound' \in [Providers -> Versions],
         cfg' \subseteq Providers, excused' \subseteq Providers, last' \in Versions,
         faults' \in 0..MaxFaults
  PROVE  TypeOK'
  BY DEF ReqFrame, handle, IInv, TypeOK, MutexOK

LEMMA ReqLock ==
  ASSUME IInv, NEW q \in Reqs, OnlyOp(q), ReqFrame, Stays(q) \/ Arrives(q) \/ Leaves(q),
         ReqPlaces(q)'
  PROVE  MutexOK' /\ LockInv' /\ PlacesInv' /\ op' \in [Actors -> Op]
  <1>1. q \in Actors /\ q # "sup" /\ q # "rec" /\ pc' = pc
    BY ActorSet, ReqFrameKeeps
  <1>2. MutexOK' /\ LockInv'
    BY <1>1, TaskLock
  <1>3. PlacesInv'
    BY <1>1, PlacesStep DEF IInv
  <1>4. QED
    BY <1>2, <1>3 DEF OnlyOp

\* A request is answered, and the lock released if it was held.
LEMMA AnsweredStep ==
  ASSUME IInv, NEW q \in Reqs, Become(q, Answered), ReqFrame,
         \/ Release(q) /\ (op[q].pc # "wait" \/ Holds(q))
         \/ UNCHANGED mutex /\ ~Inside(q) /\ ~Waiting(q)
  PROVE  /\ OnlyOp(q) /\ op'[q].pc = "answered"
         /\ MutexOK' /\ LockInv' /\ PlacesInv' /\ op' \in [Actors -> Op]
  <1>1. q \in Actors /\ q # "sup" /\ q # "rec"
    BY ActorSet
  <1>2. OnlyOp(q) /\ op'[q].pc = "answered"
    BY <1>1, OpSet, IdleType DEF Answered, IInv, TypeOK
  <1>3. ~Inside(q)' /\ ~Waiting(q)' /\ ReqPlaces(q)'
    BY <1>1, <1>2 DEF Inside, Waiting, ReqPlaces, Named
  <1>4. Stays(q) \/ Leaves(q)
    BY <1>1, <1>3 DEF Stays, Leaves, Waiting
  <1>5. QED
    BY <1>2, <1>3, <1>4, ReqLock

\* A request at a place where no binding waits for it.
LEMMA ReqStale ==
  ASSUME IInv, NEW q \in Reqs, OnlyOp(q), ReqFrame, UNCHANGED <<store, yaml>>,
         \A p \in Providers : Stale(p)' => Stale(p),
         \A p \in Providers : Stale(p)' /\ (Coming(q, p) \/ Serving(q, p)) => Pending(p)'
  PROVE  StaleInv'
  BY StaleStep, ReqFrameKeeps, ActorSet

LEMMA RequestKeeps ==
  ASSUME IInv, NEW q \in Reqs, NEW k \in Kinds, NEW x \in Providers, Request(q, k, x)
  PROVE  IInv'
  <1> USE DEF handle, guest, decl, budget
  <1>1. /\ ReqFrame /\ UNCHANGED <<decl, bound, excused, budget>> /\ op[q].pc = "idle"
    BY DEF Request, ReqFrame
  <1>2. q \in Actors /\ q # "sup" /\ q # "rec"
    BY ActorSet
  <1>3. ~Inside(q) /\ ~Waiting(q)
    BY <1>1, <1>2 DEF Inside, Waiting, Named
  <1>4. OnlyOp(q) /\ MutexOK' /\ LockInv' /\ PlacesInv' /\ op' \in [Actors -> Op]
    <2>1. CASE Become(q, Answered) /\ UNCHANGED mutex
      BY <1>1, <1>3, <2>1, AnsweredStep
    <2>2. CASE Become(q, [Idle EXCEPT !.pc = "wait", !.kind = k, !.p = x]) /\ Wait(q)
      <3> DEFINE r == [Idle EXCEPT !.pc = "wait", !.kind = k, !.p = x]
      <3>1. r \in Op /\ r.pc = "wait"
        BY IdleType DEF Op
      <3>2. Become(q, r)
        BY <2>2
      <3> HIDE DEF r
      <3>3. OnlyOp(q) /\ op'[q].pc = "wait"
        BY <1>2, <3>1, <3>2, OpSet DEF IInv, TypeOK
      <3>4. Arrives(q) /\ ReqPlaces(q)'
        BY <1>2, <1>3, <2>2, <3>3 DEF Arrives, Inside, Waiting, ReqPlaces, Named
      <3>5. QED
        BY <1>1, <3>3, <3>4, ReqLock
    <2>3. QED
      BY <2>1, <2>2 DEF Request
  <1>5. TypeOK'
    BY <1>1, <1>4, ReqType DEF IInv, TypeOK
  <1>6. PhaseInv' /\ SyncInv' /\ YamlIsStore'
    BY <1>1, ReqFrameKeeps, YamlFrame
  <1>7. StaleInv'
    <2>1. \A p \in Providers : (Stale(p)' => Stale(p)) /\ ~Coming(q, p) /\ ~Serving(q, p)
      BY <1>1 DEF Stale, Coming, Serving
    <2>2. QED
      BY <1>1, <1>4, <2>1, ReqStale
  <1>8. QED
    BY <1>4, <1>5, <1>6, <1>7 DEF IInv

LEMMA LockedKeeps ==
  ASSUME IInv, NEW q \in Reqs, Locked(q)
  PROVE  IInv'
  <1> USE DEF handle, guest, decl, budget
  <1>1. /\ ReqFrame /\ UNCHANGED <<yaml, store, bound, excused, budget>>
        /\ op[q].pc = "wait" /\ Holds(q)
    BY DEF Locked, ReqFrame
  <1>2. q \in Actors /\ q # "sup" /\ q # "rec"
    BY ActorSet
  <1>3. OnlyOp(q) /\ MutexOK' /\ LockInv' /\ PlacesInv' /\ op' \in [Actors -> Op]
    <2>1. CASE Become(q, Answered) /\ Release(q)
      BY <1>1, <2>1, AnsweredStep
    <2>2. CASE UNCHANGED mutex /\ op'[q].pc = "mutate" /\ OnlyOp(q)
      <3>1. Stays(q) /\ ReqPlaces(q)'
        BY <1>1, <1>2, <2>2 DEF Stays, Inside, Waiting, ReqPlaces, Named
      <3>2. QED
        BY <1>1, <2>2, <3>1, ReqLock
    <2>3. CASE StepTo(q, "mutate") /\ UNCHANGED mutex
      BY <1>2, <2>2, <2>3, OpStepped DEF IInv, TypeOK, Places
    <2>4. ASSUME NEW D \in SUBSET Providers, UNCHANGED mutex,
                 op' = [op EXCEPT ![q].pc = "mutate", ![q].known = D]
          PROVE  OnlyOp(q) /\ op'[q].pc = "mutate"
      <3> DEFINE r == [op[q] EXCEPT !.pc = "mutate", !.known = D]
      <3>1. r \in Op /\ r.pc = "mutate"
        BY <1>2, OpAt DEF Op, IInv, TypeOK
      <3>2. Become(q, r)
        BY <2>4 DEF Become
      <3> HIDE DEF r
      <3>3. QED
        BY <1>2, <3>1, <3>2, OpSet DEF IInv, TypeOK
    <2>5. \/ Become(q, Answered) /\ Release(q)
          \/ StepTo(q, "mutate") /\ UNCHANGED mutex
          \/ /\ UNCHANGED mutex
             /\ op' = [op EXCEPT ![q].pc = "mutate",
                                 ![q].known = IF Reconciles(op[q].kind) THEN yaml ELSE {}]
      BY DEF Locked
    <2>6. (IF Reconciles(op[q].kind) THEN yaml ELSE {}) \in SUBSET Providers
      BY DEF IInv, TypeOK
    <2>7. QED
      BY <2>1, <2>2, <2>3, <2>4, <2>5, <2>6
  <1>4. TypeOK'
    <2>1. cfg' \subseteq Providers
      BY DEF Locked, IInv, TypeOK
    <2>2. QED
      BY <1>1, <1>3, <2>1, ReqType DEF IInv, TypeOK
  <1>5. PhaseInv' /\ SyncInv' /\ YamlIsStore'
    BY <1>1, ReqFrameKeeps, YamlFrame
  <1>6. StaleInv'
    <2>1. \A p \in Providers : (Stale(p)' => Stale(p)) /\ ~Coming(q, p) /\ ~Serving(q, p)
      BY <1>1 DEF Stale, Coming, Serving
    <2>2. QED
      BY <1>1, <1>3, <2>1, ReqStale
  <1>7. QED
    BY <1>3, <1>4, <1>5, <1>6 DEF IInv

----------------------------------------------------------------------------
(* The change of store and agent.yaml, and its failures.                    *)

LEMMA MutatedType ==
  ASSUME IInv, NEW k \in Kinds, NEW x \in Providers, Mutated(k, x)
  PROVE  /\ yaml' \subseteq Providers /\ store' \in [Providers -> Versions]
         /\ last' \in Versions /\ YamlIsStore'
         /\ \A p \in Providers \ {x} : store'[p] = store[p]
  <1>1. \E v \in Nat :
          /\ store' = [store EXCEPT ![x] = v]
          /\ v = 0 => yaml' = yaml \ {x}
          /\ v # 0 => yaml' = yaml \cup {x}
    <2>1. last \in Nat /\ last + 1 \in Nat /\ last + 1 # 0 /\ (store[x] # 0 => x \in yaml)
      BY DEF IInv, TypeOK, Versions, YamlIsStore
    <2>2. CASE Declares(k)
      BY <2>1, <2>2 DEF Mutated
    <2>3. CASE ~Declares(k) /\ k = "remove"
      BY <2>1, <2>3 DEF Mutated
    <2>4. CASE ~Declares(k) /\ k # "remove"
      BY <2>1, <2>4 DEF Mutated
    <2>5. QED
      BY <2>2, <2>3, <2>4
  <1>2. last' \in Versions
    BY DEF Mutated, IInv, TypeOK, Versions
  <1>3. QED
    BY <1>1, <1>2 DEF IInv, TypeOK, Versions, YamlIsStore

\* Only x is new to the sandbox; for the others the watcher is still to
\* act if it was, unless the new text is the one it has read.
LEMMA MutatedStale ==
  ASSUME IInv, NEW q \in Reqs, OnlyOp(q), ReqFrame, UNCHANGED bound,
         NEW x \in Providers, x = op[q].p, op[q].pc = "mutate", Mutated(op[q].kind, x),
         excused \cup Overlooked \subseteq excused', Stale(x)' => Serving(q, x)'
  PROVE  StaleInv'
  <1> SUFFICES ASSUME ~shutdown', NEW p \in Providers, Stale(p)' PROVE Pending(p)'
    BY DEF StaleInv
  <1>1. CASE p = x
    BY <1>1 DEF Pending
  <1>2. CASE p # x /\ yaml' # seen
    BY <1>2, ReqFrameKeeps DEF Pending, Heard
  <1>3. CASE p # x /\ yaml' = seen
    <2>1. yaml' = yaml
      BY <1>3 DEF Overlooked, Stale
    <2>2. store'[p] = store[p] /\ q \in Actors
      BY <1>3, MutatedType, OpAt, ActorSet DEF IInv, TypeOK
    <2>3. Stale(p) /\ ~shutdown
      BY <2>2, ReqFrameKeeps DEF Stale
    <2>4. Pending(p)
      BY <2>3 DEF IInv, StaleInv
    <2>5. CASE Outage
      BY <2>5, ReqFrameKeeps DEF Pending
    <2>6. CASE Heard
      BY <2>1, <2>6, ReqFrameKeeps, ActorSet DEF Pending, Heard, OnlyOp
    <2>7. CASE \E b \in Actors : Coming(b, p)
      <3>1. PICK b \in Actors : Coming(b, p)
        BY <2>7
      <3>2. b # q
        BY <3>1 DEF Coming
      <3>3. Coming(b, p)'
        BY <2>2, <3>1, <3>2 DEF Coming, OnlyOp
      <3>4. QED
        BY <3>3 DEF Pending
    <2>8. CASE \E b \in Reqs : Serving(b, p)
      <3>1. PICK b \in Reqs : Serving(b, p)
        BY <2>8
      <3>2. b # q /\ b \in Actors
        BY <3>1, ActorSet DEF Serving
      <3>3. Serving(b, p)'
        BY <2>2, <3>1, <3>2 DEF Serving, OnlyOp
      <3>4. QED
        BY <3>3 DEF Pending
    <2>9. QED
      BY <2>4, <2>5, <2>6, <2>7, <2>8 DEF Pending
  <1>4. QED
    BY <1>1, <1>2, <1>3

LEMMA MutateKeeps ==
  ASSUME IInv, NEW q \in Reqs, Mutate(q)
  PROVE  IInv'
  <1> USE DEF handle, guest, decl, budget
  <1>1. /\ ReqFrame /\ UNCHANGED <<cfg, bound, faults>>
        /\ op[q].pc = "mutate" /\ Mutated(op[q].kind, op[q].p)
        /\ excused' = excused \cup Overlooked
        /\ \/ op[q].kind = "rotate" /\ StepTo(q, "converge") /\ Release(q)
           \/ op[q].kind # "rotate" /\ StepTo(q, "publish") /\ UNCHANGED mutex
    BY DEF Mutate, ReqFrame
  <1>2. /\ q \in Actors /\ q # "sup" /\ q # "rec"
        /\ op[q].kind \in Kinds /\ op[q].p \in Providers
    BY ActorSet, OpAt DEF IInv, TypeOK
  <1>3. OnlyOp(q) /\ op'[q].kind = op[q].kind /\ op'[q].p = op[q].p
    BY <1>1, <1>2, OpStepped DEF IInv, TypeOK, Places
  <1>4. /\ op'[q].pc = "converge" => op[q].kind = "rotate" /\ Release(q)
        /\ op'[q].pc = "publish" => op[q].kind # "rotate" /\ UNCHANGED mutex
        /\ op'[q].pc \in {"converge", "publish"}
    BY <1>1, <1>2, OpStepped DEF IInv, TypeOK, Places
  <1>5. MutexOK' /\ LockInv' /\ PlacesInv' /\ op' \in [Actors -> Op]
    <2>1. Inside(q) /\ ~Waiting(q)' /\ (Inside(q)' <=> op'[q].pc = "publish")
      BY <1>1, <1>2, <1>4 DEF Inside, Waiting, Named
    <2>2. Stays(q) \/ Leaves(q)
      BY <1>4, <2>1 DEF Stays, Leaves
    <2>3. ReqPlaces(q)'
      BY <1>3, <1>4 DEF ReqPlaces, Unlocked, Named
    <2>4. QED
      BY <1>1, <1>3, <2>2, <2>3, ReqLock
  <1>6. TypeOK' /\ YamlIsStore'
    <2>1. excused' \subseteq Providers
      BY <1>1 DEF Overlooked, IInv, TypeOK
    <2>2. QED
      BY <1>1, <1>2, <1>5, <2>1, MutatedType, ReqType DEF IInv, TypeOK
  <1>7. PhaseInv' /\ SyncInv'
    BY <1>1, ReqFrameKeeps
  <1>8. StaleInv'
    <2>1. \A x \in Providers : x = op[q].p => Serving(q, x)'
      BY <1>3, <1>4 DEF Serving
    <2>2. QED
      BY <1>1, <1>2, <1>3, <2>1, MutatedStale
  <1>9. QED
    BY <1>5, <1>6, <1>7, <1>8 DEF IInv

LEMMA MutateRefusedKeeps ==
  ASSUME IInv, NEW q \in Reqs, MutateRefused(q)
  PROVE  IInv'
  <1> USE DEF handle, guest, decl, budget
  <1>1. /\ ReqFrame /\ UNCHANGED <<decl, bound, excused, last>>
        /\ op[q].pc = "mutate" /\ Become(q, Answered) /\ Release(q)
    BY DEF MutateRefused, ReqFrame
  <1>2. OnlyOp(q) /\ MutexOK' /\ LockInv' /\ PlacesInv' /\ op' \in [Actors -> Op]
    BY <1>1, AnsweredStep
  <1>3. TypeOK'
    <2>1. faults' \in 0..MaxFaults
      BY Bounds DEF MutateRefused, FailsIf, Charge, IInv, TypeOK
    <2>2. QED
      BY <1>1, <1>2, <2>1, ReqType DEF IInv, TypeOK
  <1>4. PhaseInv' /\ SyncInv' /\ YamlIsStore'
    BY <1>1, ReqFrameKeeps, YamlFrame
  <1>5. StaleInv'
    <2>1. \A p \in Providers : (Stale(p)' => Stale(p)) /\ ~Coming(q, p) /\ ~Serving(q, p)
      BY <1>1 DEF Stale, Coming, Serving
    <2>2. QED
      BY <1>1, <1>2, <2>1, ReqStale
  <1>6. QED
    BY <1>2, <1>3, <1>4, <1>5 DEF IInv

LEMMA MutateLostKeeps ==
  ASSUME IInv, NEW q \in Reqs, MutateLost(q)
  PROVE  IInv'
  <1> USE DEF handle, guest, decl, budget
  <1>1. /\ ReqFrame /\ UNCHANGED <<cfg, bound>> /\ Charge
        /\ op[q].pc = "mutate" /\ Mutated(op[q].kind, op[q].p)
        /\ excused' = excused \cup {op[q].p} \cup Overlooked
        /\ Become(q, Answered) /\ Release(q)
    BY DEF MutateLost, ReqFrame
  <1>2. OnlyOp(q) /\ MutexOK' /\ LockInv' /\ PlacesInv' /\ op' \in [Actors -> Op]
    BY <1>1, AnsweredStep
  <1>3. op[q].kind \in Kinds /\ op[q].p \in Providers
    BY ActorSet, OpAt DEF IInv, TypeOK
  <1>4. TypeOK' /\ YamlIsStore'
    <2>1. excused' \subseteq Providers
      BY <1>1, <1>3 DEF Overlooked, IInv, TypeOK
    <2>2. faults' \in 0..MaxFaults
      BY <1>1, Bounds DEF Charge, IInv, TypeOK
    <2>3. QED
      BY <1>1, <1>2, <1>3, <2>1, <2>2, MutatedType, ReqType DEF IInv, TypeOK
  <1>5. PhaseInv' /\ SyncInv'
    BY <1>1, ReqFrameKeeps
  <1>6. StaleInv'
    <2>1. \A x \in Providers : x = op[q].p => ~Stale(x)'
      BY <1>1 DEF Stale
    <2>2. QED
      BY <1>1, <1>2, <1>3, <2>1, MutatedStale
  <1>7. QED
    BY <1>2, <1>4, <1>5, <1>6 DEF IInv

----------------------------------------------------------------------------
(* The publication of the change and its convergence.                       *)

LEMMA PublishKeeps ==
  ASSUME IInv, NEW q \in Reqs, Publish(q)
  PROVE  IInv'
  <1> USE DEF handle, guest, decl, budget
  <1> DEFINE l == IF op[q].kind = "update" THEN "converge"
                  ELSE IF op[q].kind = "create" THEN "resolve_named" ELSE "resolve"
             D == op[q].known \cup yaml
             r == [op[q] EXCEPT !.pc = l, !.known = D]
  <1>1. /\ ReqFrame /\ UNCHANGED <<yaml, store, bound, budget>> /\ cfg' = yaml
        /\ op[q].pc = "publish"
        /\ IF op[q].kind = "update" THEN Release(q) ELSE UNCHANGED mutex
    BY DEF Publish, ReqFrame
  <1>2. IF Reconciles(op[q].kind) THEN Orphaned(D) ELSE UNCHANGED excused
    BY DEF Publish
  <1>3. /\ q \in Actors /\ q # "sup" /\ q # "rec"
        /\ op[q].kind \in {"create", "borrow", "remove", "update"}
    BY <1>1, ActorSet, OpAt DEF IInv, TypeOK, Kinds, PlacesInv, ReqPlaces
  <1>4. /\ OnlyOp(q) /\ op'[q].pc = l /\ op'[q].known = D
        /\ op'[q].kind = op[q].kind /\ op'[q].p = op[q].p
    <2>1. D \in SUBSET Providers /\ l \in Places
      BY <1>3, OpAt DEF IInv, TypeOK, Places
    <2>2. Become(q, r)
      BY DEF Publish, Become
    <2> HIDE DEF l, D
    <2>3. /\ r \in Op /\ r.pc = l /\ r.known = D /\ r.kind = op[q].kind /\ r.p = op[q].p
      BY <1>3, <2>1, OpAt DEF Op, Places, IInv, TypeOK
    <2> HIDE DEF r
    <2>4. QED
      BY <1>3, <2>2, <2>3, OpSet DEF IInv, TypeOK
  <1>5. MutexOK' /\ LockInv' /\ PlacesInv' /\ op' \in [Actors -> Op]
    <2>1. Inside(q) /\ ~Waiting(q)' /\ (Inside(q)' <=> op[q].kind # "update")
      BY <1>1, <1>3, <1>4 DEF Inside, Waiting, Named, Unlocked
    <2>2. Stays(q) \/ Leaves(q)
      BY <1>1, <2>1 DEF Stays, Leaves
    <2>3. ReqPlaces(q)'
      BY <1>3, <1>4 DEF ReqPlaces, Named, Unlocked, Reconciles
    <2>4. QED
      BY <1>1, <1>4, <2>2, <2>3, ReqLock
  <1>6. TypeOK'
    <2>1. excused' \subseteq Providers
      BY <1>2 DEF Orphaned, IInv, TypeOK
    <2>2. QED
      BY <1>1, <1>5, <2>1, ReqType DEF IInv, TypeOK
  <1>7. PhaseInv' /\ SyncInv' /\ YamlIsStore'
    BY <1>1, ReqFrameKeeps, YamlFrame
  <1>8. StaleInv'
    <2>1. CASE Reconciles(op[q].kind)
      <3>1. l = "resolve"
        BY <2>1 DEF Reconciles
      <3>2. \A p \in Providers : Stale(p)' => Coming(q, p)'
        BY <1>1, <1>2, <1>4, <2>1, <3>1 DEF Orphaned, Stale, Coming
      <3>3. QED
        BY <1>3, <3>2 DEF StaleInv, Pending
    <2>2. CASE ~Reconciles(op[q].kind)
      <3>1. l \in {"converge", "resolve_named"} /\ UNCHANGED excused
        BY <1>2, <1>3, <2>2 DEF Reconciles
      <3>2. \A p \in Providers : Stale(p)' => Stale(p)
        BY <1>1, <3>1 DEF Stale
      <3>3. \A p \in Providers : ~Coming(q, p) /\ (Serving(q, p) => Serving(q, p)')
        BY <1>1, <1>4, <2>2, <3>1 DEF Coming, Serving
      <3>4. QED
        BY <1>1, <1>4, <3>2, <3>3, ReqStale DEF Pending
    <2>3. QED
      BY <2>1, <2>2
  <1>9. QED
    BY <1>5, <1>6, <1>7, <1>8 DEF IInv

LEMMA ConvergeKeeps ==
  ASSUME IInv, NEW q \in Reqs, Converge(q)
  PROVE  IInv'
  <1> USE DEF handle, guest, decl, budget
  <1> DEFINE r == [op[q] EXCEPT !.pc = "accept", !.known = yaml]
  <1>1. /\ ReqFrame /\ UNCHANGED <<decl, bound, mutex, excused, budget>>
        /\ op[q].pc = "converge"
    BY DEF Converge, ReqFrame
  <1>2. q \in Actors /\ q # "sup" /\ q # "rec"
    BY ActorSet
  <1>3. OnlyOp(q) /\ op'[q].pc = "accept" /\ op'[q].kind = op[q].kind /\ op'[q].p = op[q].p
    <2>1. /\ r \in Op /\ r.pc = "accept" /\ r.kind = op[q].kind /\ r.p = op[q].p
      BY <1>2, OpAt DEF Op, IInv, TypeOK
    <2>2. Become(q, r)
      BY DEF Converge, Become
    <2> HIDE DEF r
    <2>3. QED
      BY <1>2, <2>1, <2>2, OpSet DEF IInv, TypeOK
  <1>4. MutexOK' /\ LockInv' /\ PlacesInv' /\ op' \in [Actors -> Op]
    <2>1. Stays(q)
      BY <1>1, <1>2, <1>3 DEF Stays, Inside, Waiting, Named
    <2>2. ReqPlaces(q)'
      BY <1>1, <1>3 DEF IInv, PlacesInv, ReqPlaces, Named
    <2>3. QED
      BY <1>1, <1>3, <2>1, <2>2, ReqLock
  <1>5. TypeOK'
    BY <1>1, <1>4, ReqType DEF IInv, TypeOK
  <1>6. PhaseInv' /\ SyncInv' /\ YamlIsStore'
    BY <1>1, ReqFrameKeeps, YamlFrame
  <1>7. StaleInv'
    <2>1. \A p \in Providers : (Stale(p)' => Stale(p)) /\ ~Coming(q, p)
      BY <1>1 DEF Stale, Coming
    <2>2. \A p \in Providers : Serving(q, p) => Serving(q, p)'
      BY <1>1, <1>3 DEF Serving
    <2>3. QED
      BY <1>1, <1>3, <2>1, <2>2, ReqStale DEF Pending
  <1>8. QED
    BY <1>4, <1>5, <1>6, <1>7 DEF IInv

LEMMA ConvergeAcceptsKeeps ==
  ASSUME IInv, NEW q \in Reqs, ConvergeAccepts(q)
  PROVE  IInv'
  <1> USE DEF handle, guest, decl, budget
  <1>1. /\ ReqFrame /\ UNCHANGED <<yaml, store, bound, mutex, budget>>
        /\ op[q].pc = "accept" /\ cfg' = op[q].known
        /\ excused' = excused \cup (IF sandbox = 0 THEN {op[q].p} ELSE {})
        /\ IF sandbox = 0 THEN Become(q, Answered) ELSE StepTo(q, "resolve_named")
    BY DEF ConvergeAccepts, ReqFrame
  <1>2. /\ q \in Actors /\ q # "sup" /\ q # "rec" /\ Unlocked(op[q].kind)
        /\ op[q].known \subseteq Providers /\ op[q].p \in Providers
    BY <1>1, ActorSet, OpAt DEF IInv, TypeOK, PlacesInv, ReqPlaces
  <1>3. ~Inside(q) /\ ~Waiting(q)
    BY <1>1, <1>2 DEF Inside, Waiting, Named
  <1>4. /\ OnlyOp(q) /\ MutexOK' /\ LockInv' /\ PlacesInv' /\ op' \in [Actors -> Op]
        /\ sandbox # 0 => op'[q].pc = "resolve_named" /\ op'[q].p = op[q].p
    <2>1. CASE sandbox = 0
      BY <1>1, <1>3, <2>1, AnsweredStep
    <2>2. CASE sandbox # 0
      <3>1. /\ OnlyOp(q) /\ op'[q].pc = "resolve_named"
            /\ op'[q].kind = op[q].kind /\ op'[q].p = op[q].p
        BY <1>1, <1>2, <2>2, OpStepped DEF IInv, TypeOK, Places
      <3>2. Stays(q) /\ ReqPlaces(q)'
        BY <1>1, <1>2, <1>3, <3>1
           DEF Stays, Inside, Waiting, ReqPlaces, Named, Unlocked, Reconciles
      <3>3. QED
        BY <1>1, <3>1, <3>2, ReqLock
    <2>3. QED
      BY <2>1, <2>2
  <1>5. TypeOK'
    <2>1. excused' \subseteq Providers
      BY <1>1, <1>2 DEF IInv, TypeOK
    <2>2. QED
      BY <1>1, <1>2, <1>4, <2>1, ReqType DEF IInv, TypeOK
  <1>6. PhaseInv' /\ SyncInv' /\ YamlIsStore'
    BY <1>1, ReqFrameKeeps, YamlFrame
  <1>7. StaleInv'
    <2>1. \A p \in Providers : (Stale(p)' => Stale(p)) /\ ~Coming(q, p)
      BY <1>1 DEF Stale, Coming
    <2>2. ASSUME NEW p \in Providers, Stale(p)', Serving(q, p) PROVE Serving(q, p)'
      <3>1. op[q].p = p
        BY <1>1, <2>2 DEF Serving
      <3>2. sandbox # 0
        BY <1>1, <2>2, <3>1 DEF Stale
      <3>3. QED
        BY <1>4, <3>1, <3>2 DEF Serving
    <2>3. QED
      BY <1>1, <1>4, <2>1, <2>2, ReqStale DEF Pending
  <1>8. QED
    BY <1>4, <1>5, <1>6, <1>7 DEF IInv

LEMMA ResolveNamedKeeps ==
  ASSUME IInv, NEW q \in Reqs, ResolveNamed(q)
  PROVE  IInv'
  <1> USE DEF handle, guest, decl, budget
  <1> DEFINE x == op[q].p
             r == [op[q] EXCEPT !.pc = "apply_named", !.want[x] = store[x]]
  <1>1. /\ ReqFrame /\ UNCHANGED <<decl, bound, last>> /\ op[q].pc = "resolve_named"
        /\ \/ Become(q, r) /\ UNCHANGED <<mutex, excused, faults>>
           \/ /\ faults' = faults \/ (faults < MaxFaults /\ faults' = faults + 1)
              /\ Become(q, Answered) /\ Release(q) /\ excused' = excused \cup {x}
    BY DEF ResolveNamed, ReqFrame, Become, FailsIf, Charge
  <1>2. /\ q \in Actors /\ q # "sup" /\ q # "rec" /\ x \in Providers
    BY ActorSet, OpAt DEF IInv, TypeOK
  <1>3. CASE Become(q, r) /\ UNCHANGED <<mutex, excused, faults>>
    <2>1. /\ OnlyOp(q) /\ op'[q].pc = "apply_named" /\ op'[q].kind = op[q].kind
          /\ op'[q].p = x /\ op'[q].want[x] = store[x]
      <3>1. /\ r \in Op /\ r.pc = "apply_named" /\ r.kind = op[q].kind
            /\ r.p = x /\ r.want[x] = store[x]
        BY <1>2, OpAt DEF Op, IInv, TypeOK
      <3>2. Become(q, r)
        BY <1>3
      <3> HIDE DEF r
      <3>3. QED
        BY <1>2, <3>1, <3>2, OpSet DEF IInv, TypeOK
    <2>2. MutexOK' /\ LockInv' /\ PlacesInv' /\ op' \in [Actors -> Op]
      <3>1. Stays(q)
        BY <1>1, <1>2, <1>3, <2>1 DEF Stays, Inside, Waiting, Named
      <3>2. ReqPlaces(q)'
        BY <1>1, <2>1 DEF IInv, PlacesInv, ReqPlaces, Named
      <3>3. QED
        BY <1>1, <2>1, <3>1, <3>2, ReqLock
    <2>3. TypeOK'
      BY <1>1, <1>3, <2>2, ReqType DEF IInv, TypeOK
    <2>4. StaleInv'
      <3>1. \A p \in Providers : (Stale(p)' => Stale(p)) /\ ~Coming(q, p)
        BY <1>1, <1>3 DEF Stale, Coming
      <3>2. \A p \in Providers : Serving(q, p) => Serving(q, p)'
        BY <1>1, <2>1 DEF Serving
      <3>3. QED
        BY <1>1, <2>1, <3>1, <3>2, ReqStale DEF Pending
    <2>5. QED
      BY <1>1, <2>2, <2>3, <2>4, ReqFrameKeeps, YamlFrame DEF IInv
  <1>4. CASE /\ faults' = faults \/ (faults < MaxFaults /\ faults' = faults + 1)
             /\ Become(q, Answered) /\ Release(q) /\ excused' = excused \cup {x}
    <2>1. OnlyOp(q) /\ MutexOK' /\ LockInv' /\ PlacesInv' /\ op' \in [Actors -> Op]
      BY <1>1, <1>4, AnsweredStep
    <2>2. TypeOK'
      <3>1. excused' \subseteq Providers /\ faults' \in 0..MaxFaults
        BY <1>2, <1>4, Bounds DEF IInv, TypeOK
      <3>2. QED
        BY <1>1, <2>1, <3>1, ReqType DEF IInv, TypeOK
    <2>3. StaleInv'
      <3>1. \A p \in Providers : (Stale(p)' => Stale(p)) /\ ~Coming(q, p)
        BY <1>1, <1>4 DEF Stale, Coming
      <3>2. \A p \in Providers : Stale(p)' => ~Serving(q, p)
        BY <1>1, <1>4 DEF Stale, Serving
      <3>3. QED
        BY <1>1, <2>1, <3>1, <3>2, ReqStale
    <2>4. QED
      BY <1>1, <2>1, <2>2, <2>3, ReqFrameKeeps, YamlFrame DEF IInv
  <1>5. QED
    BY <1>1, <1>3, <1>4

LEMMA ApplyNamedKeeps ==
  ASSUME IInv, NEW q \in Reqs, ApplyNamed(q)
  PROVE  IInv'
  <1> USE DEF handle, guest, decl, budget
  <1> DEFINE x == op[q].p
             late == {x} \cap {y \in Providers : op[q].want[y] # store[y]}
  <1>1. /\ ReqFrame /\ UNCHANGED <<decl, last>> /\ op[q].pc = "apply_named"
        /\ Become(q, Answered) /\ Release(q)
        /\ \/ /\ bound' = [bound EXCEPT ![x] = op[q].want[x]] /\ Settle(late)
              /\ UNCHANGED faults
           \/ /\ faults' = faults \/ (faults < MaxFaults /\ faults' = faults + 1)
              /\ excused' = excused \cup {x} /\ UNCHANGED bound
    BY DEF ApplyNamed, ReqFrame, FailsIf, Charge
  <1>2. x \in Providers /\ op[q].want[x] \in Versions /\ bound \in [Providers -> Versions]
    BY ActorSet, OpAt DEF IInv, TypeOK
  <1>3. OnlyOp(q) /\ MutexOK' /\ LockInv' /\ PlacesInv' /\ op' \in [Actors -> Op]
    BY <1>1, AnsweredStep
  <1>4. TypeOK'
    <2>1. bound' \in [Providers -> Versions]
      BY <1>1, <1>2
    <2>2. excused' \subseteq Providers
      BY <1>1, <1>2 DEF Settle, IInv, TypeOK
    <2>3. faults' \in 0..MaxFaults
      BY <1>1, Bounds DEF IInv, TypeOK
    <2>4. QED
      BY <1>1, <1>3, <2>1, <2>2, <2>3, ReqType DEF IInv, TypeOK
  <1>5. PhaseInv' /\ SyncInv' /\ YamlIsStore'
    BY <1>1, ReqFrameKeeps, YamlFrame
  <1>6. StaleInv'
    <2>1. ASSUME NEW p \in Providers, Stale(p)' PROVE Stale(p) /\ p # x
      <3>1. CASE bound' = [bound EXCEPT ![x] = op[q].want[x]] /\ Settle(late)
        <4>1. p \notin late /\ p \notin excused /\ bound'[p] # store[p]
          BY <1>1, <2>1, <3>1 DEF Settle, Stale
        <4>2. p # x
          BY <1>2, <3>1, <4>1
        <4>3. QED
          BY <1>2, <3>1, <4>1, <4>2 DEF Stale
      <3>2. CASE excused' = excused \cup {x} /\ UNCHANGED bound
        BY <1>1, <2>1, <3>2 DEF Stale
      <3>3. QED
        BY <1>1, <3>1, <3>2
    <2>2. \A p \in Providers : Stale(p)' => ~Coming(q, p) /\ ~Serving(q, p)
      BY <1>1, <2>1 DEF Coming, Serving
    <2>3. QED
      BY <1>1, <1>3, <2>1, <2>2, ReqStale
  <1>7. QED
    BY <1>3, <1>4, <1>5, <1>6 DEF IInv

----------------------------------------------------------------------------
(* The theorems.                                                            *)

LEMMA InitInvariant == Init => IInv
  <1> SUFFICES ASSUME Init PROVE IInv
    OBVIOUS
  <1>1. /\ op = [a \in Actors |-> Idle] /\ op \in [Actors -> Op]
        /\ \A a \in Actors : op[a].pc = "idle"
    BY IdleType DEF Init
  <1>2. store \in [Providers -> Versions] /\ (0 \in Conns /\ 1 \in Conns)
    BY Bounds DEF Init, Versions, Conns
  <1>3. TypeOK
    <2>1. /\ health \in BOOLEAN /\ sandbox \in Conns /\ conn \in Conns /\ sync \subseteq Conns
          /\ vm \in {"running", "booting", "down"}
      BY <1>2 DEF Init
    <2>2. queue \in Seq(SUBSET Providers) /\ mutex \in Seq(Actors) /\ DOMAIN mutex = {}
      BY DEF Init
    <2>3. faults \in 0..MaxFaults /\ edits \in 0..MaxEdits /\ last \in Versions
      BY Bounds DEF Init, Versions
    <2>4. QED
      BY <1>1, <1>2, <2>1, <2>2, <2>3 DEF Init, TypeOK
  <1>4. LockInv
    BY <1>1, ActorSet
       DEF Init, LockInv, HolderInside, QueueComplete, Queued, Inside, Waiting, Named
  <1>5. PlacesInv
    BY <1>1, ActorSet DEF Init, PlacesInv, SupPlaces, RecPlaces, ReqPlaces, Named
  <1>6. PhaseInv
    BY DEF Init, PhaseInv
  <1>7. SyncInv
    BY <1>2 DEF Init, SyncInv
  <1>8. YamlIsStore /\ StaleInv
    BY DEF Init, YamlIsStore, StaleInv, Stale
  <1>9. QED
    BY <1>3, <1>4, <1>5, <1>6, <1>7, <1>8 DEF IInv

LEMMA StutterKeeps ==
  ASSUME IInv, UNCHANGED vars
  PROVE  IInv'
  <1> USE DEF vars, handle, guest, decl, budget
  <1>1. TypeOK'
    BY DEF IInv, TypeOK
  <1>2. LockInv' /\ PlacesInv'
    BY LockFrame
  <1>3. PhaseInv' /\ SyncInv' /\ YamlIsStore'
    BY PhaseFrame, YamlFrame
  <1>4. shutdown' \/ ~shutdown
    BY DEF IInv, TypeOK
  <1>5. StaleInv'
    BY <1>4, StaleFrame, OutageFrame
  <1>6. QED
    BY <1>1, <1>2, <1>3, <1>5 DEF IInv

LEMMA NextInvariant == IInv /\ [Next]_vars => IInv'
  <1> SUFFICES ASSUME IInv, [Next]_vars PROVE IInv'
    OBVIOUS
  <1>1. CASE World
    BY <1>1, WorldKeeps
  <1>2. CASE Monitor
    BY <1>2, SupMovesKeeps DEF Monitor, SupMoves, SupStays, SupLeaves
  <1>3. CASE Recovery
    BY <1>3, SupMovesKeeps, AttachKeeps DEF Recovery, SupMoves, SupStays, SupLeaves
  <1>4. ASSUME NEW a \in Actors, Reconcile(a) PROVE IInv'
    BY <1>4, ResolveKeeps, ApplyKeeps, ReconcileFailsKeeps DEF Reconcile
  <1>5. CASE ReceiveConfig \/ AcceptConfig \/ RetryReconcile
    BY <1>5, ReceiveConfigKeeps, AcceptConfigKeeps, RetryReconcileKeeps
  <1>6. CASE ProvidersReload \/ PeerReconciles
             \/ \E p \in Providers : PeerShares(p) \/ OwnerChanges(p)
    BY <1>6, ProvidersReloadKeeps, PeerReconcilesKeeps, PeerSharesKeeps, OwnerChangesKeeps
  <1>7. ASSUME NEW q \in Reqs, Serve(q) PROVE IInv'
    <2>1. CASE Reconcile(q)
      BY <2>1, <1>4, ActorSet
    <2>2. QED
      BY <1>7, <2>1, LockedKeeps, MutateKeeps, MutateRefusedKeeps, MutateLostKeeps,
         PublishKeeps, ConvergeKeeps, ConvergeAcceptsKeeps, ResolveNamedKeeps, ApplyNamedKeeps
         DEF Serve
  <1>8. ASSUME NEW q \in Reqs, NEW k \in Kinds, NEW p \in Providers, Request(q, k, p)
        PROVE  IInv'
    BY <1>8, RequestKeeps
  <1>9. CASE UNCHANGED vars
    BY <1>9, StutterKeeps
  <1>10. QED
    BY <1>1, <1>2, <1>3, <1>4, <1>5, <1>6, <1>7, <1>8, <1>9, ActorSet
       DEF Next, RunSupervisor, ReconcileTask, World

(* What the invariant holds together.                                       *)
THEOREM Invariant == Spec => []IInv
  BY InitInvariant, NextInvariant, PTL DEF Spec

(* The variables keep their types; no actor is twice in the queue of        *)
(* provider_mutation, as each waits for it once.                            *)
THEOREM TypeCorrect == Spec => []TypeOK
  <1>1. IInv => TypeOK
    BY DEF IInv
  <1>2. QED
    BY Invariant, <1>1, PTL

(* provider_mutation excludes: of supervisor, reconcile task and requests,  *)
(* at most one is past the lock, from the bring-up to the notice that ends  *)
(* it, through the backoffs, and between a change of the store and the end  *)
(* of its reconciliation.                                                   *)
ProvidersExclusive == \A a, b \in Actors : Inside(a) /\ Inside(b) => a = b

THEOREM MutationExclusive == Spec => []ProvidersExclusive
  <1>1. IInv => ProvidersExclusive
    BY OneHolder DEF IInv, LockInv, HolderInside, ProvidersExclusive
  <1>2. QED
    BY Invariant, <1>1, PTL

(* The sync task is the supervisor's: at most one runs, on the sandbox that *)
(* is published, and none outlives the outage or the supervisor.            *)
THEOREM SyncTaskFollows == Spec => []SyncFollowsSandbox
  <1>1. ASSUME IInv PROVE SyncFollowsSandbox
    <2>1. pc \notin {"clear", "abort"} => sync \subseteq {sandbox}
      BY <1>1 DEF IInv, TypeOK, SyncInv
    <2>2. Cardinality(sync) <= 1
      <3>1. PICK c \in Conns : sync \subseteq {c}
        BY <1>1 DEF IInv, SyncInv
      <3>2. sync = {} \/ sync = {c}
        BY <3>1
      <3>3. QED
        BY <3>2, FS_EmptySet, FS_Singleton
    <2>3. pc = "loop" => (sync # {}) = health
      BY <1>1 DEF IInv, TypeOK, SyncInv
    <2>4. QED
      BY <2>1, <2>2, <2>3 DEF SyncFollowsSandbox
  <1>2. QED
    BY Invariant, <1>1, PTL

(* However many providers, requests, peers and failures meet, when all work *)
(* of this bot is done the sandbox has the credentials of the store, but    *)
(* for the providers excused: for a failed call, an older version under way *)
(* when the store moved, an edit the watcher cannot see, a binding in no    *)
(* configuration, a shared record its owner changed, or a peer's own        *)
(* reconciliation of this sandbox, each until the next one that succeeds.   *)
THEOREM CredentialsConverge == Spec => []ConvergedWhenQuiet
  <1>1. ASSUME IInv PROVE ConvergedWhenQuiet
    <2> SUFFICES ASSUME Quiet, ~shutdown, NEW p \in Providers \ excused
                 PROVE  bound[p] = store[p]
      BY DEF ConvergedWhenQuiet
    <2>1. ~Outage /\ ~Heard
      BY ActorSet DEF Quiet, Outage, Heard
    <2>2. \A a \in Actors : ~Coming(a, p)
      BY DEF Quiet, Coming
    <2>3. \A q \in Reqs : ~Serving(q, p)
      BY ActorSet DEF Quiet, Serving
    <2>4. ~Pending(p)
      BY <2>1, <2>2, <2>3 DEF Pending
    <2>5. QED
      BY <1>1, <2>4 DEF IInv, StaleInv, Stale
  <1>2. QED
    BY Invariant, <1>1, PTL
=============================================================================
