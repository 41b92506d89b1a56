--------------------------- MODULE AgentOwnerProofs ---------------------------
(***************************************************************************)
(* Proofs about AgentOwner for any set of agents and requests, any number  *)
(* of tokens, owners, edits and faults: type correctness, one ready owner  *)
(* per agent, the refinement of SoleOwner, what a drain waited for, and    *)
(* the tokens that are accepted after a reload.                            *)
(*                                                                         *)
(* Three invariants carry them: RouteInv tells where a ready owner can be  *)
(* while a reload is under way; QueueInv, on top of it, who stands in the  *)
(* queue of a connection that is drained; TokenInv which tokens an agent   *)
(* can have at each step of a reload.                                      *)
(***************************************************************************)
EXTENDS AgentOwner, FiniteSetTheorems, SequenceTheorems, TLAPS

-----------------------------------------------------------------------------
(* The queue of a connection mutex.  Whoever stays in it after a waiter gave *)
(* up was in it before, in the same order (f tells where).                   *)

KeptBy(q, p, v, m, f) ==
    /\ Len(v) = m
    /\ \A j \in 1..m : v[j] = q[f[j]]
    /\ \A i, j \in 1..m : i < j => f[i] < f[j]
    /\ \A i \in 1..Len(q) : q[i] # p => \E j \in 1..m : f[j] = i
    /\ (\A i, j \in 1..Len(q) : q[i] = p /\ q[j] = p => i = j) =>
          \A j \in 1..m : q[f[j]] # p
Kept(q, p, v) == \E m \in Nat : \E f \in [1..m -> 1..Len(q)] : KeptBy(q, p, v, m, f)

LEMMA WithoutIs ==
    ASSUME NEW S, NEW q \in Seq(S), NEW p
    PROVE  Without(q, p) \in Seq(S) /\ Kept(q, p, Without(q, p))
<1>1. CASE \A i \in 1..Len(q) : q[i] # p
  <2>1. Without(q, p) = q
    BY <1>1 DEF Without
  <2> DEFINE f == [j \in 1..Len(q) |-> j]
  <2>2. f \in [1..Len(q) -> 1..Len(q)] /\ \A j \in 1..Len(q) : f[j] = j
    OBVIOUS
  <2> HIDE DEF f
  <2>3. Kept(q, p, q)
    BY <1>1, <2>2 DEF Kept, KeptBy
  <2> QED
    BY <2>1, <2>3
<1>2. CASE \E i \in 1..Len(q) : q[i] = p
  <2> DEFINE k == CHOOSE i \in 1..Len(q) : q[i] = p
             n == Len(q) - 1
             w == [i \in 1..n |-> IF i < k THEN q[i] ELSE q[i + 1]]
             f == [j \in 1..n |-> IF j < k THEN j ELSE j + 1]
  <2>1. k \in 1..Len(q) /\ q[k] = p
    BY <1>2
  <2>2. Without(q, p) = w
    BY <1>2 DEF Without
  <2> HIDE DEF k
  <2>3. n \in Nat /\ w \in [1..n -> S]
    BY <2>1, ElementOfSeq
  <2>4. w \in Seq(S) /\ Len(w) = n
    <3>1. w \in Seq(S)
      BY <2>3, SeqDef
    <3> QED
      BY <2>3, <3>1, LenProperties
  <2>5. f \in [1..n -> 1..Len(q)]
    BY <2>1, <2>3
  <2>6. \A j \in 1..n : w[j] = q[f[j]] /\ f[j] # k
    BY <2>1, <2>3
  <2>7. \A i, j \in 1..n : i < j => f[i] < f[j]
    BY <2>1, <2>3
  <2>8. ASSUME NEW i \in 1..Len(q), q[i] # p
        PROVE  \E j \in 1..n : f[j] = i
    <3>1. CASE i < k
      BY <2>1, <2>3, <3>1
    <3>2. CASE i > k
      <4>1. i - 1 \in 1..n /\ f[i - 1] = i
        BY <2>1, <2>3, <3>2
      <4> QED
        BY <4>1
    <3> QED
      BY <2>1, <2>8, <3>1, <3>2
  <2> HIDE DEF n, w, f
  <2> USE <2>5
  <2>9. ASSUME \A i, j \in 1..Len(q) : q[i] = p /\ q[j] = p => i = j
        PROVE  \A j \in 1..n : q[f[j]] # p
    BY <2>1, <2>5, <2>6, <2>9
  <2>10. Kept(q, p, w)
    BY <2>3, <2>4, <2>5, <2>6, <2>7, <2>8, <2>9 DEF Kept, KeptBy
  <2> QED
    BY <2>2, <2>4, <2>10
<1> QED
  BY <1>1, <1>2

-----------------------------------------------------------------------------
(* Type correctness, variable by variable.                                   *)

LEMMA NamedIs == /\ IsFiniteSet(Agents) /\ Named \subseteq Agents
                 /\ Cardinality(Named) \in Nat /\ Cardinality(Named) <= Cardinality(Agents)
                 /\ Cardinality(Agents) \in Nat
<1>1. IsFiniteSet(Agents) /\ Named \subseteq Agents
  BY AgentOwnerAssumption DEF Named
<1> QED
  BY <1>1, FS_Subset, FS_CardinalityType

LEMMA RuntimesType ==
    ASSUME NEW r \in [Agents -> Nat]
    PROVE  Runtimes(r) \in [Owners -> OwnerType]
<1>1. <<>> \in Seq(Waiters)
  OBVIOUS
<1>2. ASSUME NEW o \in Owners, \E a \in Agents : r[a] = o
      PROVE  (CHOOSE a \in Agents : r[a] = o) \in Agents
  BY <1>2
<1> QED
  BY <1>1, <1>2 DEF Runtimes, NewOwner, NoOwner, States, OwnerType

LEMMA TypeInit == Init => TypeOK
<1> SUFFICES ASSUME Init PROVE TypeOK
  OBVIOUS
<1>1. reg \in [Agents -> 0..made] /\ disp = reg /\ made \in 0..MaxOwners
  BY NamedIs, AgentOwnerAssumption DEF Init, Numberings
<1>2. tmap \in [Agents -> SUBSET (0..MaxTokens)] /\ disk \in [Agents -> 0..MaxTokens]
  BY AgentOwnerAssumption DEF Init, DiskTokens
<1>3. own \in [Owners -> OwnerType]
  <2>1. reg \in [Agents -> Nat]
    BY <1>1
  <2> QED
    BY <2>1, RuntimesType DEF Init
<1>4. rl \in ReloadType
  BY <1>1, AgentOwnerAssumption DEF Init, NoReload, ReloadType
<1>5. cl \in [Clients -> RequestType]
  BY <1>1 DEF Init, NoRequest, RequestType
<1>6. late \subseteq Clients /\ {edits, faults} \subseteq Nat
  BY DEF Init
<1>7. torn \in BOOLEAN
  BY Zenon DEF Init
<1> QED
  BY <1>1, <1>2, <1>3, <1>4, <1>5, <1>6, <1>7 DEF TypeOK

\* The owners, as a lemma of their own.
OwnerTypes == [Owners -> OwnerType]

LEMMA OwnerAt == ASSUME own \in OwnerTypes, NEW o \in Owners PROVE own[o] \in OwnerType
  BY DEF OwnerTypes

LEMMA OwnerUpdated ==
    ASSUME own \in OwnerTypes, NEW o, NEW r, o \in Owners => r \in OwnerType
    PROVE  [own EXCEPT ![o] = r] \in OwnerTypes
  BY DEF OwnerTypes

LEMMA QueueTypes ==
    ASSUME own \in OwnerTypes, NEW o \in Owners
    PROVE  /\ own[o].q \in Seq(Waiters)
           /\ \A p \in Waiters : Append(own[o].q, p) \in Seq(Waiters)
           /\ own[o].q # <<>> => Tail(own[o].q) \in Seq(Waiters)
           /\ \A p : Without(own[o].q, p) \in Seq(Waiters)
           /\ \A p : \A r \in Waiters : Append(Without(own[o].q, p), r) \in Seq(Waiters)
<1>1. own[o].q \in Seq(Waiters)
  BY OwnerAt DEF OwnerType
<1>2. \A p : Without(own[o].q, p) \in Seq(Waiters)
  BY <1>1, WithoutIs
<1> QED
  BY <1>1, <1>2

LEMMA OwnerStep == TypeOK /\ Next => own' \in OwnerTypes
<1> SUFFICES ASSUME own \in OwnerTypes, made \in 0..MaxOwners, Next PROVE own' \in OwnerTypes
  BY DEF TypeOK, OwnerTypes
<1>1. ASSUME NEW c \in Clients, LockConnection(c) PROVE own' \in OwnerTypes
  <2> DEFINE o == cl[c].o
  <2>1. o \in Owners => [own[o] EXCEPT !.q = Append(@, c)] \in OwnerType
    BY OwnerAt, QueueTypes DEF OwnerType, Waiters
  <2> QED
    BY <1>1, <2>1, OwnerUpdated DEF LockConnection
<1>2. ASSUME NEW c \in Clients, EndOperation(c) PROVE own' \in OwnerTypes
  <2> DEFINE o == cl[c].o
  <2>1. o \in Owners => [own[o] EXCEPT !.q = Tail(@)] \in OwnerType
    <3>1. own[o].q # <<>>
      BY <1>2 DEF EndOperation, AtWork
    <3> QED
      BY <3>1, OwnerAt, QueueTypes DEF OwnerType
  <2> QED
    BY <1>2, <2>1, OwnerUpdated DEF EndOperation
<1>3. ASSUME NEW o \in Owners, TaskChecks(o) PROVE own' \in OwnerTypes
  <2>1. [own[o] EXCEPT !.task = "checked"] \in OwnerType
    BY OwnerAt DEF OwnerType
  <2> QED
    BY <1>3, <2>1, OwnerUpdated DEF TaskChecks
<1>4. ASSUME NEW o \in Owners, TaskLocks(o) PROVE own' \in OwnerTypes
  <2>1. [own[o] EXCEPT !.task = "queued", !.q = Append(own[o].q, "task")] \in OwnerType
    BY OwnerAt, QueueTypes DEF OwnerType, Waiters
  <2> QED
    BY <1>4, <2>1, OwnerUpdated DEF TaskLocks
<1>5. ASSUME NEW o \in Owners, TaskEnds(o) PROVE own' \in OwnerTypes
  <2>1. [own[o] EXCEPT !.task = "idle", !.q = Tail(own[o].q)] \in OwnerType
    <3>1. own[o].q # <<>>
      BY <1>5 DEF TaskEnds, AtWork
    <3> QED
      BY <3>1, OwnerAt, QueueTypes DEF OwnerType
  <2> QED
    BY <1>5, <2>1, OwnerUpdated DEF TaskEnds
<1>6. ASSUME NEW a \in Agents, OpenOwner(a) PROVE own' \in OwnerTypes
  <2>1. [NewOwner(a, FALSE) EXCEPT !.task = "off"] \in OwnerType
    <3>1. <<>> \in Seq(Waiters)
      OBVIOUS
    <3> QED
      BY <3>1 DEF OwnerType, NewOwner, States
  <2> QED
    BY <1>6, <2>1, OwnerUpdated DEF OpenOwner
<1>7. CASE Assemble
  <2> DEFINE o == rl.o
  <2>1. o \in Owners => /\ [own[o] EXCEPT !.task = "idle"] \in OwnerType
                        /\ [own[o] EXCEPT !.st = "draining"] \in OwnerType
    BY OwnerAt DEF OwnerType, States
  <2>2. own' = [own EXCEPT ![o].task = "idle"] \/ own' = [own EXCEPT ![o].st = "draining"]
    BY <1>7 DEF Assemble, SetState
  <2> QED
    BY <2>1, <2>2, OwnerUpdated
<1>8. CASE InsertBundle
  <2> DEFINE o == rl.o
  <2>1. o \in Owners => [own[o] EXCEPT !.st = "draining", !.task = "off", !.q = Without(own[o].q, "task")]
                           \in OwnerType
    BY OwnerAt, QueueTypes DEF OwnerType, States
  <2>2. \/ own' = own
        \/ own' = [own EXCEPT ![o] = [own[o] EXCEPT !.st = "draining", !.task = "off",
                                                !.q = Without(own[o].q, "task")]]
    BY <1>8 DEF InsertBundle, Drained
  <2> HIDE DEF o
  <2> QED
    BY <2>1, <2>2, OwnerUpdated
<1>9. CASE PublishBundle
  <2> DEFINE o == rl.o
  <2>1. o \in Owners => [own[o] EXCEPT !.pub = TRUE] \in OwnerType
    BY OwnerAt DEF OwnerType
  <2> QED
    BY <1>9, <2>1, OwnerUpdated DEF PublishBundle
<1>10. ASSUME NEW a \in Agents, RemoveAgent(a) PROVE own' \in OwnerTypes
  <2> DEFINE o == reg[a]
  <2>1. o \in Owners => [own[o] EXCEPT !.st = "draining"] \in OwnerType
    BY OwnerAt DEF OwnerType, States
  <2>2. own' = own \/ own' = [own EXCEPT ![o].st = "draining"]
    BY <1>10 DEF RemoveAgent, BeginDraining
  <2> HIDE DEF o
  <2> QED
    BY <2>1, <2>2, OwnerUpdated
<1>11. CASE JoinTasks
  <2> DEFINE o == rl.o
  <2>1. o \in Owners => [own[o] EXCEPT !.task = "off", !.q = Append(Without(own[o].q, "task"), "drain")]
                           \in OwnerType
    BY OwnerAt, QueueTypes DEF OwnerType, Waiters
  <2> QED
    BY <1>11, <2>1, OwnerUpdated DEF JoinTasks
<1>12. CASE TaskPanicked
  <2> DEFINE o == rl.o
  <2>1. o \in Owners => [own[o] EXCEPT !.st = "failed", !.task = "off", !.q = Without(own[o].q, "task")]
                           \in OwnerType
    BY OwnerAt, QueueTypes DEF OwnerType, States
  <2> QED
    BY <1>12, <2>1, OwnerUpdated DEF TaskPanicked
<1>13. ASSUME NEW s, rl.o \in Owners => s \in States, LeaveQueue(rl.o, s) PROVE own' \in OwnerTypes
  <2> DEFINE o == rl.o
  <2>1. o \in Owners => [own[o] EXCEPT !.st = s, !.q = Without(own[o].q, "drain")] \in OwnerType
    BY <1>13, OwnerAt, QueueTypes DEF OwnerType
  <2> QED
    BY <1>13, <2>1, OwnerUpdated DEF LeaveQueue
<1>14. LeaveQueue(rl.o, own[rl.o].st) => own' \in OwnerTypes
  BY <1>13, OwnerAt DEF OwnerType
<1>15. CASE CallerGone
  <2> DEFINE o == rl.o
  <2>1. o \in Owners => [own[o] EXCEPT !.st = "dropped", !.task = "off", !.q = <<>>] \in OwnerType
    <3>1. <<>> \in Seq(Waiters)
      OBVIOUS
    <3> QED
      BY <3>1, OwnerAt DEF OwnerType, States
  <2>2. \/ own' = own \/ LeaveQueue(rl.o, own[rl.o].st)
        \/ own' = [own EXCEPT ![o] = [own[o] EXCEPT !.st = "dropped", !.task = "off", !.q = <<>>]]
    BY <1>15 DEF CallerGone
  <2>3. ASSUME own' = [own EXCEPT ![o] = [own[o] EXCEPT !.st = "dropped", !.task = "off",
                                                   !.q = <<>>]]
        PROVE  own' \in OwnerTypes
    <3> HIDE DEF o
    <3> QED
      BY <2>1, <2>3, OwnerUpdated
  <2> QED
    BY <1>14, <2>2, <2>3
<1>16. CASE Restart
  <2>1. reg' \in [Agents -> Nat]
    BY <1>16, NamedIs DEF Restart, Numberings
  <2> QED
    BY <1>16, <2>1, RuntimesType DEF Restart, OwnerTypes
<1>17. DrainTimeout \/ DrainDone => own' \in OwnerTypes
  BY <1>13, <1>14 DEF DrainTimeout, DrainDone, States
<1> QED
  BY <1>1, <1>2, <1>3, <1>4, <1>5, <1>6, <1>7, <1>8, <1>9, <1>10, <1>11, <1>12, <1>15, <1>16,
     <1>17
     DEF Next, Reload, ReloadFault, Request, Task, GetOwner, CheckState, EditDisk, ReloadStart,
         AddExisting, AddSkipped, OpenFails, InsertRoute, RemoveStart, Unregister, RemoveToken,
         ReloadDone, OwnerTypes

\* The other variables; made never decreases, so a type it bounds only grows.
LEMMA MadeStep == TypeOK /\ Next => made' \in made..MaxOwners
<1> SUFFICES ASSUME TypeOK, Next PROVE made' \in made..MaxOwners
  OBVIOUS
<1>1. made \in 0..MaxOwners
  BY DEF TypeOK
<1>2. UNCHANGED made => made' \in made..MaxOwners
  BY <1>1, AgentOwnerAssumption
<1>3. ASSUME NEW a \in Agents, OpenOwner(a) PROVE made' \in made..MaxOwners
  BY <1>1, <1>3, AgentOwnerAssumption DEF OpenOwner
<1>4. CASE Restart
  BY <1>1, <1>4, NamedIs, AgentOwnerAssumption DEF Restart
<1> HIDE DEF Restart, OpenOwner
<1> QED
  BY <1>2, <1>3, <1>4
     DEF Next, Reload, ReloadFault, Request, Task, GetOwner, CheckState, LockConnection,
         EndOperation, TaskChecks, TaskLocks, TaskEnds, EditDisk, ReloadStart, AddExisting,
         AddSkipped, OpenFails, Assemble, InsertBundle, InsertRoute, PublishBundle,
         RemoveStart, RemoveAgent, JoinTasks, TaskPanicked, DrainTimeout, DrainDone, Unregister,
         RemoveToken, ReloadDone, CallerGone

LEMMA MapStep ==
    TypeOK /\ Next => /\ reg' \in [Agents -> 0..made'] /\ disp' \in [Agents -> 0..made']
                      /\ tmap' \in [Agents -> SUBSET (0..MaxTokens)]
                      /\ disk' \in [Agents -> 0..MaxTokens]
<1> DEFINE Goal == /\ reg' \in [Agents -> 0..made'] /\ disp' \in [Agents -> 0..made']
                   /\ tmap' \in [Agents -> SUBSET (0..MaxTokens)]
                   /\ disk' \in [Agents -> 0..MaxTokens]
<1> SUFFICES ASSUME TypeOK, Next PROVE Goal
  OBVIOUS
<1>1. made' \in made..MaxOwners /\ made \in 0..MaxOwners
  BY MadeStep DEF TypeOK
<1>2. /\ reg \in [Agents -> 0..made'] /\ disp \in [Agents -> 0..made']
      /\ tmap \in [Agents -> SUBSET (0..MaxTokens)] /\ disk \in [Agents -> 0..MaxTokens]
  BY <1>1, AgentOwnerAssumption DEF TypeOK
<1>3. UNCHANGED <<reg, disp, tmap, disk>> => Goal
  BY <1>2
<1>4. ASSUME NEW a \in Agents, EditDisk(a) PROVE Goal
  BY <1>2, <1>4, AgentOwnerAssumption DEF EditDisk, maps
<1>5. ASSUME NEW a \in Agents, AddExisting(a) PROVE Goal
  <2>1. rl.want[a] \in 0..MaxTokens
    BY DEF TypeOK, ReloadType
  <2> QED
    BY <1>2, <1>5, <2>1 DEF AddExisting
<1>6. CASE InsertBundle
  <2>1. rl.o \in 0..made'
    BY <1>1 DEF TypeOK, ReloadType
  <2> QED
    BY <1>1, <1>2, <1>6, <2>1 DEF InsertBundle
<1>7. CASE InsertRoute
  <2>1. rl.o \in 0..made'
    BY <1>1 DEF TypeOK, ReloadType
  <2> QED
    BY <1>2, <1>7, <2>1 DEF InsertRoute
<1>8. CASE PublishBundle
  <2>1. rl.agent \in Agents => rl.want[rl.agent] \in 0..MaxTokens
    BY DEF TypeOK, ReloadType
  <2> QED
    BY <1>2, <1>8, <2>1 DEF PublishBundle
<1>9. CASE DrainDone \/ Unregister \/ RemoveToken
  BY <1>1, <1>2, <1>9 DEF DrainDone, Unregister, RemoveToken
<1>10. CASE Restart
  <2>1. made' = made + Cardinality(Named) /\ Cardinality(Named) \in Nat
    BY <1>10, NamedIs DEF Restart
  <2>2. reg' \in [Agents -> 0..made'] /\ disp' = reg'
    BY <1>1, <1>10, <2>1 DEF Restart, Numberings
  <2> QED
    BY <1>2, <1>10, <2>2 DEF Restart, DiskTokens
<1> QED
  BY <1>3, <1>4, <1>5, <1>6, <1>7, <1>8, <1>9, <1>10
     DEF Next, Reload, ReloadFault, Request, Task, GetOwner, CheckState, LockConnection,
         EndOperation, TaskChecks, TaskLocks, TaskEnds, ReloadStart, AddSkipped, OpenOwner,
         OpenFails, Assemble, RemoveStart, RemoveAgent, JoinTasks, TaskPanicked, DrainTimeout,
         ReloadDone, CallerGone, maps

LEMMA RequestStep == TypeOK /\ Next => cl' \in [Clients -> RequestType']
<1> DEFINE T == [Clients -> RequestType']
<1> SUFFICES ASSUME TypeOK, Next PROVE cl' \in T
  OBVIOUS
<1>1. made' \in made..MaxOwners /\ made \in 0..MaxOwners
  BY MadeStep DEF TypeOK
<1>2. cl \in T
  BY <1>1 DEF TypeOK, RequestType
<1>3. NoRequest \in RequestType'
  BY <1>1 DEF NoRequest, RequestType
<1>4. ASSUME NEW a \in Agents, NEW c \in Clients, GetOwner(c, a) PROVE cl' \in T
  BY <1>1, <1>2, <1>4 DEF GetOwner, TypeOK, RequestType
<1>5. ASSUME NEW c \in Clients, CheckState(c) PROVE cl' \in T
  <2>1. [cl[c] EXCEPT !.pc = "checked"] \in RequestType'
    BY <1>2 DEF RequestType
  <2> QED
    BY <1>2, <1>3, <1>5, <2>1 DEF CheckState
<1>6. ASSUME NEW c \in Clients, LockConnection(c) PROVE cl' \in T
  <2>1. [cl[c] EXCEPT !.pc = "queued"] \in RequestType'
    BY <1>2 DEF RequestType
  <2> QED
    BY <1>2, <1>6, <2>1 DEF LockConnection
<1>7. ASSUME NEW c \in Clients, EndOperation(c) PROVE cl' \in T
  <2>1. [cl[c] EXCEPT !.pc = "got"] \in RequestType'
    BY <1>2 DEF RequestType
  <2> QED
    BY <1>2, <1>3, <1>7, <2>1 DEF EndOperation
<1>8. CASE Restart
  BY <1>3, <1>8 DEF Restart
<1>9. CASE UNCHANGED cl
  BY <1>2, <1>9
<1> HIDE DEF T
<1> QED
  BY <1>4, <1>5, <1>6, <1>7, <1>8, <1>9
     DEF Next, Reload, ReloadFault, Request, Task, TaskChecks, TaskLocks, TaskEnds, EditDisk,
         ReloadStart, AddExisting, AddSkipped, OpenOwner, OpenFails, Assemble, InsertBundle,
         InsertRoute, PublishBundle, RemoveStart, RemoveAgent, JoinTasks, TaskPanicked,
         DrainTimeout, DrainDone, Unregister, RemoveToken, ReloadDone, CallerGone

LEMMA ReloadStep == TypeOK /\ Next => rl' \in ReloadType'
<1> SUFFICES ASSUME TypeOK, Next PROVE rl' \in ReloadType'
  OBVIOUS
<1>1. made' \in made..MaxOwners /\ made \in 0..MaxOwners
  BY MadeStep DEF TypeOK
<1>2. rl \in ReloadType' /\ 0 \in 0..made'
  BY <1>1 DEF TypeOK, ReloadType
<1>3. NoReload \in ReloadType'
  BY <1>1, AgentOwnerAssumption DEF NoReload, ReloadType
<1>4. \A l \in {"insert", "route", "token", "wait", "unregister", "untoken"} :
          GoTo(l) => rl' \in ReloadType'
  BY <1>2 DEF GoTo, ReloadType
<1>5. CASE ReloadStart
  <2>1. [NoReload EXCEPT !.pc = "add", !.todo = Named, !.want = disk] \in ReloadType'
    BY <1>3, NamedIs DEF ReloadType, TypeOK
  <2> QED
    BY <1>5, <2>1 DEF ReloadStart
<1>6. ASSUME NEW a \in Agents, AddExisting(a) \/ AddSkipped(a) PROVE rl' \in ReloadType'
  <2>1. [rl EXCEPT !.todo = @ \ {a}] \in ReloadType'
    BY <1>2 DEF ReloadType
  <2> QED
    BY <1>6, <2>1 DEF AddExisting, AddSkipped
<1>7. ASSUME NEW a \in Agents, OpenOwner(a) PROVE rl' \in ReloadType'
  <2>1. [rl EXCEPT !.pc = "assemble", !.agent = a, !.o = made + 1] \in ReloadType'
    <3>1. made + 1 \in 0..made'
      BY <1>1, <1>7 DEF OpenOwner
    <3> QED
      BY <1>2, <3>1 DEF ReloadType
  <2> QED
    BY <1>7, <2>1 DEF OpenOwner
<1>8. CASE PublishBundle
  <2>1. [rl EXCEPT !.pc = "add", !.todo = @ \ {rl.agent}, !.agent = NoAgent, !.o = 0] \in ReloadType'
    BY <1>2 DEF ReloadType
  <2> QED
    BY <1>8, <2>1 DEF PublishBundle, NextAgent
<1>9. CASE RemoveStart
  <2>1. [rl EXCEPT !.pc = "remove", !.todo = {a \in Agents : disp[a] # 0 /\ rl.want[a] = 0}]
            \in ReloadType'
    BY <1>2 DEF ReloadType
  <2> QED
    BY <1>9, <2>1 DEF RemoveStart
<1>10. ASSUME NEW a \in Agents, RemoveAgent(a) PROVE rl' \in ReloadType'
  <2>1. [rl EXCEPT !.pc = "join", !.agent = a, !.o = reg[a]] \in ReloadType'
    <3>1. reg[a] \in 0..made'
      BY <1>1 DEF TypeOK
    <3> QED
      BY <1>2, <3>1 DEF ReloadType
  <2> QED
    BY <1>3, <1>10, <2>1 DEF RemoveAgent, Failed
<1>11. CASE RemoveToken
  <2>1. [rl EXCEPT !.pc = "remove", !.todo = @ \ {rl.agent}, !.agent = NoAgent, !.o = 0]
            \in ReloadType'
    BY <1>2 DEF ReloadType
  <2> QED
    BY <1>11, <2>1 DEF RemoveToken
<1>12. CASE ReloadDone
  <2>1. [NoReload EXCEPT !.want = rl.want, !.ok = TRUE] \in ReloadType'
    BY <1>2, <1>3 DEF ReloadType
  <2> QED
    BY <1>12, <2>1 DEF ReloadDone
<1>13. CASE UNCHANGED rl
  BY <1>2, <1>13
<1>14. CASE Failed \/ Restart
  BY <1>3, <1>14 DEF Failed, Restart
<1> QED
  BY <1>4, <1>5, <1>6, <1>7, <1>8, <1>9, <1>10, <1>11, <1>12, <1>13, <1>14
     DEF Next, Reload, ReloadFault, Request, Task, GetOwner, CheckState, LockConnection,
         EndOperation, TaskChecks, TaskLocks, TaskEnds, EditDisk, OpenFails, Assemble,
         InsertBundle, InsertRoute, JoinTasks, TaskPanicked, DrainTimeout, DrainDone, Unregister,
         CallerGone

LEMMA TypeStep == TypeOK /\ [Next]_vars => TypeOK'
<1> SUFFICES ASSUME TypeOK, Next PROVE TypeOK'
  BY DEF vars, maps, TypeOK, OwnerType, ReloadType, RequestType
<1>1. late' \subseteq Clients
  BY DEF TypeOK, Next, Reload, ReloadFault, Request, Task, GetOwner, CheckState, LockConnection,
         EndOperation, TaskChecks, TaskLocks, TaskEnds, EditDisk, ReloadStart, AddExisting,
         AddSkipped, OpenOwner, OpenFails, Assemble, InsertBundle, InsertRoute, PublishBundle,
         RemoveStart, RemoveAgent, JoinTasks, Missed, TaskPanicked, DrainTimeout, DrainDone,
         Unregister, RemoveToken, ReloadDone, CallerGone, Restart
<1>2. torn' \in BOOLEAN
  BY Zenon DEF TypeOK, Next, Reload, ReloadFault, Request, Task, GetOwner, CheckState, LockConnection,
         EndOperation, TaskChecks, TaskLocks, TaskEnds, EditDisk, ReloadStart, AddExisting,
         AddSkipped, OpenOwner, OpenFails, Assemble, InsertBundle, InsertRoute, PublishBundle,
         RemoveStart, RemoveAgent, JoinTasks, TaskPanicked, DrainTimeout, DrainDone,
         Unregister, RemoveToken, ReloadDone, CallerGone, Restart
<1>3. edits' \in {edits, edits + 1} /\ faults' \in {faults, faults + 1}
  BY DEF Next, Reload, ReloadFault, Request, Task, GetOwner, CheckState, LockConnection,
         EndOperation, TaskChecks, TaskLocks, TaskEnds, EditDisk, ReloadStart, AddExisting,
         AddSkipped, OpenOwner, OpenFails, Assemble, InsertBundle, InsertRoute, PublishBundle,
         RemoveStart, RemoveAgent, JoinTasks, TaskPanicked, DrainTimeout, DrainDone,
         Unregister, RemoveToken, ReloadDone, CallerGone, Restart, Charge
<1>4. {edits', faults'} \subseteq Nat
  BY <1>3 DEF TypeOK
<1>5. made' \in 0..MaxOwners
  BY MadeStep DEF TypeOK
<1> QED
  BY <1>1, <1>2, <1>4, <1>5, OwnerStep, MapStep, RequestStep, ReloadStep DEF TypeOK, OwnerTypes

-----------------------------------------------------------------------------
(* The invariant of the routing: where a ready owner may be.                 *)

\* A reload that is busy with an agent knows its name and its owner.
ReloadOwner ==
    rl.pc \in {"assemble", "insert", "route", "token", "join", "wait", "unregister", "untoken"} =>
        rl.agent \in Agents /\ rl.o # 0

\* An owner that is being assembled is private: the maps and the requests do not
\* name it, and the dispatcher does not know its agent.
Building ==
    rl.pc \in {"assemble", "insert"} =>
        /\ own[rl.o].st = "ready" /\ own[rl.o].agent = rl.agent /\ disp[rl.agent] = 0
        /\ \A a \in Agents : reg[a] # rl.o /\ disp[a] # rl.o
        /\ \A c \in Clients : cl[c].o # rl.o

\* A removed owner has left Ready, and stays registered until it is unregistered.
Removing ==
    /\ rl.pc \in {"join", "wait", "unregister"} =>
          reg[rl.agent] = rl.o /\ own[rl.o].st # "ready"
    /\ rl.pc = "route" => reg[rl.agent] = rl.o /\ own[rl.o].agent = rl.agent

\* A ready owner is the private one, or both maps name it (the dispatcher a step
\* later than the registry).
ReadyRouted ==
    \A o \in Owners : own[o].st = "ready" =>
        /\ own[o].agent \in Agents
        /\ \/ rl.pc \in {"assemble", "insert"} /\ rl.o = o
           \/ reg[own[o].agent] = o /\ (disp[own[o].agent] = o \/ (rl.pc = "route" /\ rl.o = o))

\* A request that has begun has an owner.
Active == \A c \in Clients : cl[c].pc # "idle" => cl[c].o # 0

RouteInv == ReloadOwner /\ Building /\ Removing /\ ReadyRouted /\ Active

\* What a step does to the owners, as far as the routing is concerned.
SameView == \A o \in Owners : own'[o].st = own[o].st /\ own'[o].agent = own[o].agent

LEMMA ViewOfRequests ==
    ASSUME TypeOK,
           \/ \E c \in Clients : LockConnection(c) \/ EndOperation(c)
           \/ \E o \in Owners : Task(o)
    PROVE  SameView
<1> USE DEF SameView, TypeOK, OwnerType
<1>1. ASSUME NEW c \in Clients, LockConnection(c) PROVE SameView
  BY <1>1 DEF LockConnection
<1>2. ASSUME NEW c \in Clients, EndOperation(c) PROVE SameView
  BY <1>2 DEF EndOperation
<1>3. ASSUME NEW o \in Owners, TaskChecks(o) PROVE SameView
  BY <1>3 DEF TaskChecks
<1>4. ASSUME NEW o \in Owners, TaskLocks(o) PROVE SameView
  BY <1>4 DEF TaskLocks
<1>5. ASSUME NEW o \in Owners, TaskEnds(o) PROVE SameView
  BY <1>5 DEF TaskEnds
<1> QED
  BY <1>1, <1>2, <1>3, <1>4, <1>5 DEF Task

LEMMA ViewOfReload ==
    ASSUME TypeOK
    PROVE  /\ JoinTasks \/ PublishBundle \/ DrainDone => SameView
           /\ own' = [own EXCEPT ![rl.o].task = "idle"] => SameView
<1> USE DEF SameView, TypeOK, OwnerType
<1>1. JoinTasks => SameView
  BY DEF JoinTasks
<1>2. PublishBundle => SameView
  BY DEF PublishBundle
<1>3. DrainDone => SameView
  BY DEF DrainDone, LeaveQueue
<1>4. own' = [own EXCEPT ![rl.o].task = "idle"] => SameView
  OBVIOUS
<1> QED
  BY <1>1, <1>2, <1>3, <1>4

LEMMA AtHand ==
    ASSUME TypeOK, ReloadOwner,
           rl.pc \in {"assemble", "insert", "route", "token", "join", "wait", "unregister", "untoken"}
    PROVE  rl.o \in Owners /\ rl.agent \in Agents
<1>1. made \in 0..MaxOwners /\ MaxOwners \in Nat /\ rl.o \in 0..made
  BY AgentOwnerAssumption DEF TypeOK, ReloadType
<1> QED
  BY <1>1 DEF ReloadOwner, Owners

\* A step beside the reload's own.
LEMMA Beside ==
    ASSUME TypeOK, RouteInv, SameView, UNCHANGED <<reg, disp>>,
           rl'.pc = rl.pc, rl'.agent = rl.agent, rl'.o = rl.o, Active',
           \A c \in Clients : \/ cl'[c].o \in {cl[c].o, 0}
                              \/ \E a \in Agents : cl'[c].o \in {reg[a], disp[a]}
    PROVE  RouteInv'
<1> USE DEF RouteInv
<1>0. rl.pc \in {"assemble", "insert", "route", "join", "wait", "unregister"} => rl.o \in Owners
  BY AtHand
<1>1. ReloadOwner'
  BY DEF ReloadOwner
<1>2. Building'
  BY <1>0 DEF Building, ReloadOwner, SameView
<1>3. Removing'
  BY <1>0 DEF Removing, SameView
<1>4. ReadyRouted'
  BY DEF ReadyRouted, SameView
<1> QED
  BY <1>1, <1>2, <1>3, <1>4

\* A step after which the reload has no owner at hand: it ended, or it is between
\* two agents.  Owners may have left Ready, the private one must have.
LEMMA BetweenAgents ==
    ASSUME TypeOK, RouteInv, UNCHANGED <<reg, disp, cl>>, rl'.pc \in {"idle", "add", "remove"},
           rl.pc # "route",
           \A o \in Owners : own'[o].st = "ready" =>
               /\ own[o].st = "ready" /\ own'[o].agent = own[o].agent
               /\ ~(rl.pc \in {"assemble", "insert"} /\ rl.o = o)
    PROVE  RouteInv'
  BY DEF RouteInv, ReloadOwner, Building, Removing, ReadyRouted, Active

LEMMA RouteInit == Init => RouteInv
<1> SUFFICES ASSUME Init PROVE RouteInv
  OBVIOUS
<1>1. rl.pc = "idle" /\ \A c \in Clients : cl[c].pc = "idle"
  BY DEF Init, NoReload, NoRequest
<1>2. ReadyRouted
  <2> SUFFICES ASSUME NEW o \in Owners, own[o].st = "ready"
               PROVE  own[o].agent \in Agents /\ reg[own[o].agent] = o /\ disp[own[o].agent] = o
    BY DEF ReadyRouted
  <2> QED
    BY DEF Init, Runtimes, NewOwner, NoOwner
<1> QED
  BY <1>1, <1>2 DEF RouteInv, ReloadOwner, Building, Removing, Active

LEMMA RouteStep ==
    ASSUME TypeOK, RouteInv, Next
    PROVE  RouteInv'
<1>1. ASSUME NEW c \in Clients, NEW a \in Agents, GetOwner(c, a) PROVE RouteInv'
  <2>1. SameView /\ UNCHANGED <<reg, disp, rl>>
    BY <1>1 DEF GetOwner, SameView, maps
  <2>2. \A d \in Clients : cl'[d] = cl[d] \/ cl'[d].o \in {reg[a], disp[a]}
    BY <1>1 DEF GetOwner, TypeOK
  <2>3. Active'
    BY <1>1 DEF GetOwner, Active, RouteInv, TypeOK
  <2> QED
    BY <2>1, <2>2, <2>3, Beside
<1>2. CASE (\E c \in Clients : Request(c)) \/ (\E o \in Owners : Task(o))
  <2>1. SameView /\ UNCHANGED <<reg, disp, rl>>
    <3>1. UNCHANGED <<reg, disp, rl>>
      BY <1>2 DEF Request, Task, CheckState, LockConnection, EndOperation, TaskChecks, TaskLocks,
         TaskEnds, maps
    <3>2. SameView
      BY <1>2, ViewOfRequests DEF Request, CheckState, SameView
    <3> QED
      BY <3>1, <3>2
  <2> DEFINE OneKind == \A d \in Clients : \/ cl'[d].o = cl[d].o /\ cl[d].pc # "idle"
                                           \/ cl'[d].o = 0 /\ cl'[d].pc = "idle"
                                           \/ cl'[d] = cl[d]
  <2>2. OneKind
    <3> USE DEF TypeOK, RequestType, NoRequest
    <3>1. ASSUME NEW c \in Clients, CheckState(c) PROVE OneKind
      BY <3>1 DEF CheckState
    <3>2. ASSUME NEW c \in Clients, LockConnection(c) PROVE OneKind
      BY <3>2 DEF LockConnection
    <3>3. ASSUME NEW c \in Clients, EndOperation(c) PROVE OneKind
      BY <3>3 DEF EndOperation
    <3> QED
      BY <1>2, <3>1, <3>2, <3>3 DEF Request, Task, TaskChecks, TaskLocks, TaskEnds
  <2>3. Active'
    BY <2>2 DEF Active, RouteInv
  <2> QED
    BY <2>1, <2>2, <2>3, Beside
<1>3. ASSUME NEW a \in Agents, EditDisk(a) \/ AddExisting(a) \/ AddSkipped(a) PROVE RouteInv'
  <2>1. SameView /\ UNCHANGED <<reg, disp, cl>>
    BY <1>3 DEF EditDisk, AddExisting, AddSkipped, SameView, maps
  <2>2. rl'.pc = rl.pc /\ rl'.agent = rl.agent /\ rl'.o = rl.o
    BY <1>3 DEF EditDisk, AddExisting, AddSkipped, TypeOK, ReloadType
  <2>3. Active'
    BY <2>1 DEF Active, RouteInv
  <2> QED
    BY <2>1, <2>2, <2>3, Beside
<1>4. CASE ReloadStart \/ RemoveStart \/ ReloadDone \/ \E a \in Agents : OpenFails(a)
  <2>1. UNCHANGED <<reg, disp, cl, own>> /\ rl.pc \in {"idle", "add", "remove"}
    BY <1>4 DEF ReloadStart, RemoveStart, ReloadDone, OpenFails, maps
  <2>2. rl'.pc \in {"idle", "add", "remove"}
    <3>1. ReloadStart => rl'.pc = "add"
      BY DEF ReloadStart, NoReload
    <3>3. ASSUME NEW a \in Agents, OpenFails(a) PROVE rl'.pc = "idle"
      BY <3>3 DEF OpenFails, NoReload, Failed
    <3>4. ReloadDone => rl'.pc = "idle"
      BY DEF ReloadDone, NoReload
    <3>2. RemoveStart => rl'.pc = "remove"
      BY DEF RemoveStart, TypeOK, ReloadType
    <3> QED
      BY <1>4, <3>1, <3>2, <3>3, <3>4
  <2> QED
    BY <2>1, <2>2, BetweenAgents
<1>5. ASSUME NEW a \in Agents, OpenOwner(a) PROVE RouteInv'
  <2> DEFINE o == made + 1
  <2>1. /\ rl.pc = "add" /\ disp[a] = 0 /\ UNCHANGED <<reg, disp, cl>>
        /\ rl'.pc = "assemble" /\ rl'.agent = a /\ rl'.o = o
    BY <1>5 DEF OpenOwner, maps, TypeOK, ReloadType
  <2>2. o \in Owners /\ made \in Nat
    BY <1>5, AgentOwnerAssumption DEF OpenOwner, TypeOK, Owners
  <2>3. /\ own'[o].st = "ready" /\ own'[o].agent = a
        /\ \A p \in Owners \ {o} : own'[p] = own[p]
    BY <1>5, <2>2 DEF OpenOwner, NewOwner, TypeOK
  <2>4. /\ \A b \in Agents : reg[b] # o /\ disp[b] # o
        /\ \A c \in Clients : cl[c].o # o
    BY <2>2 DEF TypeOK, RequestType
  <2> HIDE DEF o
  <2>5. ReloadOwner' /\ Building' /\ Removing'
    BY <2>1, <2>2, <2>3, <2>4 DEF ReloadOwner, Building, Removing, Owners
  <2>6. ReadyRouted'
    BY <2>1, <2>3 DEF RouteInv, ReadyRouted
  <2> QED
    BY <2>1, <2>5, <2>6 DEF RouteInv, Active
<1>6. CASE Assemble
  <2>1. rl.pc = "assemble" /\ rl.o \in Owners /\ UNCHANGED <<reg, disp, cl>>
    BY <1>6, AtHand DEF Assemble, maps, RouteInv
  <2>2. CASE own' = [own EXCEPT ![rl.o].task = "idle"] /\ GoTo("insert")
    <3>1. SameView
      BY <2>2, ViewOfReload
    <3>2. rl'.pc = "insert" /\ rl'.agent = rl.agent /\ rl'.o = rl.o
      BY <2>2 DEF GoTo, TypeOK, ReloadType
    <3> QED
      BY <2>1, <3>1, <3>2
         DEF RouteInv, ReloadOwner, Building, Removing, ReadyRouted, Active, SameView
  <2>3. CASE SetState(rl.o, "draining") /\ Failed
    <3>1. \A p \in Owners : own'[p].st = "ready" => own'[p] = own[p] /\ p # rl.o
      BY <2>1, <2>3 DEF SetState, TypeOK, OwnerType
    <3> QED
      BY <2>1, <2>3, <3>1, BetweenAgents DEF Failed, NoReload
  <2> QED
    BY <1>6, <2>2, <2>3 DEF Assemble
<1>7. CASE InsertBundle
  <2>1. rl.pc = "insert" /\ rl.o \in Owners /\ rl.agent \in Agents /\ UNCHANGED cl
    BY <1>7, AtHand DEF InsertBundle, RouteInv
  <2>2. disp[rl.agent] = 0 /\ own[rl.o].st = "ready" /\ own[rl.o].agent = rl.agent
    BY <2>1 DEF RouteInv, Building
  <2>3. CASE reg[rl.agent] = 0
    <3>1. /\ reg' = [reg EXCEPT ![rl.agent] = rl.o] /\ UNCHANGED <<disp, own>>
          /\ rl'.pc = "route" /\ rl'.agent = rl.agent /\ rl'.o = rl.o
      BY <1>7, <2>3 DEF InsertBundle, GoTo, TypeOK, ReloadType
    <3>2. reg'[rl.agent] = rl.o /\ \A a \in Agents \ {rl.agent} : reg'[a] = reg[a]
      BY <2>1, <3>1 DEF TypeOK
    <3>3. \A p \in Owners : own[p].st = "ready" /\ p # rl.o => own[p].agent # rl.agent
      BY <2>1, <2>3 DEF RouteInv, ReadyRouted, Owners
    <3> QED
      BY <2>1, <2>2, <3>1, <3>2, <3>3
         DEF RouteInv, ReloadOwner, Building, Removing, ReadyRouted, Active
  <2>4. CASE reg[rl.agent] # 0
    <3>1. /\ Drained(rl.o) /\ disp' = [disp EXCEPT ![rl.agent] = 0] /\ rl'.pc = "idle"
          /\ UNCHANGED reg
      BY <1>7, <2>4 DEF InsertBundle, Failed, NoReload
    <3>2. disp' = disp
      BY <2>2, <3>1 DEF TypeOK
    <3>3. \A p \in Owners : own'[p].st = "ready" => own'[p] = own[p] /\ p # rl.o
      BY <2>1, <3>1 DEF Drained, TypeOK, OwnerType
    <3> QED
      BY <2>1, <3>1, <3>2, <3>3, BetweenAgents
  <2> QED
    BY <2>3, <2>4
<1>8. CASE InsertRoute
  <2>1. rl.pc = "route" /\ rl.o \in Owners /\ rl.agent \in Agents /\ UNCHANGED <<reg, cl, own>>
    BY <1>8, AtHand DEF InsertRoute, RouteInv
  <2>2. /\ disp'[rl.agent] = rl.o /\ \A a \in Agents \ {rl.agent} : disp'[a] = disp[a]
        /\ rl'.pc = "token" /\ rl'.agent = rl.agent /\ rl'.o = rl.o
    BY <1>8, <2>1 DEF InsertRoute, GoTo, TypeOK, ReloadType
  <2> QED
    BY <2>1, <2>2 DEF RouteInv, ReloadOwner, Building, Removing, ReadyRouted, Active
<1>9. CASE PublishBundle \/ RemoveToken
  <2>1. rl.pc \in {"token", "untoken"} /\ UNCHANGED <<reg, disp, cl>> /\ SameView
    BY <1>9, ViewOfReload DEF PublishBundle, RemoveToken, SameView
  <2>2. rl'.pc \in {"add", "remove"}
    BY <1>9 DEF PublishBundle, RemoveToken, NextAgent, TypeOK, ReloadType
  <2> QED
    BY <2>1, <2>2, BetweenAgents DEF SameView
<1>10. ASSUME NEW a \in Agents, RemoveAgent(a) PROVE RouteInv'
  <2>1. rl.pc = "remove" /\ UNCHANGED <<reg, disp, cl>>
    BY <1>10 DEF RemoveAgent, maps
  <2>2. CASE reg[a] = 0
    BY <1>10, <2>1, <2>2, BetweenAgents DEF RemoveAgent, Failed, NoReload
  <2>3. CASE reg[a] # 0
    <3>1. reg[a] \in Owners
      BY <2>3, AgentOwnerAssumption DEF TypeOK, Owners
    <3>2. BeginDraining(reg[a]) /\ rl'.pc = "join" /\ rl'.agent = a /\ rl'.o = reg[a]
      BY <1>10, <2>3 DEF RemoveAgent, TypeOK, ReloadType
    <3>3. /\ \A p \in Owners : own'[p].st = "ready" => own'[p] = own[p]
          /\ own'[reg[a]].st # "ready"
      BY <3>1, <3>2 DEF BeginDraining, TypeOK, OwnerType
    <3> QED
      BY <2>1, <2>3, <3>2, <3>3 DEF RouteInv, ReloadOwner, Building, Removing, ReadyRouted, Active
  <2> QED
    BY <2>2, <2>3
<1>11. CASE JoinTasks
  <2>1. rl.pc = "join" /\ rl.o \in Owners /\ UNCHANGED <<reg, disp, cl>> /\ SameView
    BY <1>11, AtHand, ViewOfReload DEF JoinTasks, maps, RouteInv
  <2>2. rl'.pc = "wait" /\ rl'.agent = rl.agent /\ rl'.o = rl.o
    BY <1>11 DEF JoinTasks, GoTo, TypeOK, ReloadType
  <2> QED
    BY <2>1, <2>2 DEF RouteInv, ReloadOwner, Building, Removing, ReadyRouted, Active, SameView
<1>12. CASE TaskPanicked \/ DrainTimeout
  <2>1. rl.pc \in {"join", "wait"} /\ rl'.pc = "idle" /\ UNCHANGED <<reg, disp, cl>>
    BY <1>12 DEF TaskPanicked, DrainTimeout, Failed, NoReload, maps
  <2>2. \A p \in Owners : own'[p].st = "ready" => own'[p] = own[p]
    <3>1. TaskPanicked => \A p \in Owners : own'[p].st = "ready" => own'[p] = own[p]
      BY DEF TaskPanicked, TypeOK, OwnerType
    <3>2. DrainTimeout => \A p \in Owners : own'[p].st = "ready" => own'[p] = own[p]
      BY DEF DrainTimeout, LeaveQueue, TypeOK, OwnerType
    <3> QED
      BY <1>12, <3>1, <3>2
  <2> QED
    BY <2>1, <2>2, BetweenAgents
<1>13. CASE DrainDone
  <2>1. rl.pc = "wait" /\ rl.o \in Owners /\ rl.agent \in Agents /\ UNCHANGED <<reg, cl>> /\ SameView
    BY <1>13, AtHand, ViewOfReload DEF DrainDone, RouteInv
  <2>2. /\ \A a \in Agents \ {rl.agent} : disp'[a] = disp[a]
        /\ rl'.pc = "unregister" /\ rl'.agent = rl.agent /\ rl'.o = rl.o
    BY <1>13, <2>1 DEF DrainDone, GoTo, TypeOK, ReloadType
  <2> QED
    BY <2>1, <2>2 DEF RouteInv, ReloadOwner, Building, Removing, ReadyRouted, Active, SameView
<1>14. CASE Unregister
  <2>1. rl.pc = "unregister" /\ rl.o \in Owners /\ rl.agent \in Agents /\ UNCHANGED <<disp, cl, own>>
    BY <1>14, AtHand DEF Unregister, RouteInv
  <2>2. /\ \A a \in Agents \ {rl.agent} : reg'[a] = reg[a]
        /\ rl'.pc = "untoken" /\ rl'.agent = rl.agent /\ rl'.o = rl.o
    BY <1>14, <2>1 DEF Unregister, GoTo, TypeOK, ReloadType
  <2> QED
    BY <2>1, <2>2 DEF RouteInv, ReloadOwner, Building, Removing, ReadyRouted, Active
<1>15. CASE CallerGone
  <2>1. rl.pc # "route" /\ rl'.pc = "idle" /\ UNCHANGED <<reg, disp, cl>>
    BY <1>15 DEF CallerGone, Failed, NoReload, maps
  <2>2. rl.pc \in {"assemble", "insert"} => rl.o \in Owners
    BY AtHand DEF RouteInv
  <2>3. \A p \in Owners :
           own'[p].st = "ready" =>
               /\ own[p].st = "ready" /\ own'[p].agent = own[p].agent
               /\ ~(rl.pc \in {"assemble", "insert"} /\ rl.o = p)
    <3>1. CASE rl.pc \in {"assemble", "insert"}
      <4>1. own' = [own EXCEPT ![rl.o] = [own[rl.o] EXCEPT !.st = "dropped", !.task = "off",
                                                          !.q = <<>>]]
        BY <1>15, <3>1 DEF CallerGone
      <4> QED
        BY <2>2, <3>1, <4>1 DEF TypeOK, OwnerType
    <3>2. CASE rl.pc = "wait"
      <4>1. LeaveQueue(rl.o, own[rl.o].st)
        BY <1>15, <3>2 DEF CallerGone
      <4> QED
        BY <3>2, <4>1 DEF LeaveQueue, TypeOK, OwnerType
    <3>3. CASE rl.pc \notin {"assemble", "insert", "wait"}
      BY <1>15, <3>3 DEF CallerGone
    <3> QED
      BY <3>1, <3>2, <3>3
  <2> QED
    BY <2>1, <2>3, BetweenAgents
<1>16. CASE Restart
  <2>1. rl'.pc = "idle" /\ \A c \in Clients : cl'[c].pc = "idle"
    BY <1>16 DEF Restart, NoReload, NoRequest
  <2>2. ReadyRouted'
    <3> SUFFICES ASSUME NEW o \in Owners, own'[o].st = "ready"
                 PROVE  own'[o].agent \in Agents /\ reg'[own'[o].agent] = o /\ disp'[own'[o].agent] = o
      BY DEF ReadyRouted
    <3> QED
      BY <1>16 DEF Restart, Runtimes, NewOwner, NoOwner
  <2> QED
    BY <2>1, <2>2 DEF RouteInv, ReloadOwner, Building, Removing, Active
<1> QED
  BY <1>1, <1>2, <1>3, <1>4, <1>5, <1>6, <1>7, <1>8, <1>9, <1>10, <1>11, <1>12, <1>13, <1>14,
     <1>15, <1>16
     DEF Next, Reload, ReloadFault

-----------------------------------------------------------------------------
(* The theorems about the routing.                                           *)

IInv == TypeOK /\ RouteInv

LEMMA Inductive == Spec => []IInv
<1>1. Init => IInv
  BY TypeInit, RouteInit DEF IInv
<1>2. IInv /\ [Next]_vars => IInv'
  <2>1. ASSUME IInv, UNCHANGED vars PROVE RouteInv'
    <3>1. reg' = reg /\ disp' = disp /\ own' = own /\ rl' = rl /\ cl' = cl
      BY <2>1 DEF vars, maps
    <3>2. ReloadOwner' /\ Building' /\ Removing'
      BY <2>1, <3>1 DEF IInv, RouteInv, ReloadOwner, Building, Removing
    <3>3. ReadyRouted' /\ Active'
      BY <2>1, <3>1 DEF IInv, RouteInv, ReadyRouted, Active
    <3> QED
      BY <3>2, <3>3 DEF RouteInv
  <2> QED
    BY <2>1, TypeStep, RouteStep DEF IInv
<1> QED
  BY <1>1, <1>2, PTL DEF Spec

\* Every variable keeps its type, whatever the reload handler, the requests and
\* the tasks of the bundles do; the maps name owners that were opened.
THEOREM TypeCorrect == Spec => []TypeOK
  BY Inductive, PTL DEF IInv

LEMMA SoleReady == IInv => OneReadyOwner
<1> SUFFICES ASSUME IInv, NEW a \in Agents, NEW o \in OpenOf(a), NEW p \in OpenOf(a)
             PROVE  o = p
  BY DEF OneReadyOwner
<1>1. o \in Owners /\ own[o].st = "ready" /\ own[o].agent = a
  BY DEF OpenOf
<1>2. p \in Owners /\ own[p].st = "ready" /\ own[p].agent = a
  BY DEF OpenOf
<1>3. o # 0 /\ p # 0
  BY <1>1, <1>2 DEF Owners
<1> QED
  BY <1>1, <1>2, <1>3 DEF IInv, RouteInv, Building, ReadyRouted

\* An agent never has two owners that accept operations, however reloads, lost
\* callers, failed drains and restarts follow one another: insert_bundle refuses a
\* second bundle, and a drained owner has left Ready before it leaves the maps.
THEOREM SoleReadyOwner == Spec => []OneReadyOwner
  BY Inductive, SoleReady, PTL

-----------------------------------------------------------------------------
(* The refinement of SoleOwner.                                              *)

OpenMap == [a \in Agents |-> IF OpenOf(a) = {} THEN 0 ELSE CHOOSE o \in OpenOf(a) : TRUE]
InsideMap == [c \in Clients |-> IF cl[c].pc \in {"checked", "queued"} THEN cl[c].o ELSE 0]

\* The one ready owner of an agent, or none.
OpenIs ==
    /\ OpenMap \in [Agents -> Nat]
    /\ \A o \in Owners : own[o].st = "ready" /\ own[o].agent \in Agents => OpenMap[own[o].agent] = o
    /\ \A a \in Agents : OpenMap[a] # 0 =>
          OpenMap[a] \in Owners /\ own[OpenMap[a]].st = "ready" /\ own[OpenMap[a]].agent = a

LEMMA OpenMapIs == IInv => OpenIs
<1> SUFFICES ASSUME IInv PROVE OpenIs
  OBVIOUS
<1>1. ASSUME NEW a \in Agents, OpenOf(a) = {} PROVE OpenMap[a] = 0
  BY <1>1 DEF OpenMap
<1>2. ASSUME NEW a \in Agents, NEW o \in OpenOf(a) PROVE OpenMap[a] = o
  <2>1. OpenMap[a] = CHOOSE p \in OpenOf(a) : TRUE
    BY <1>2 DEF OpenMap
  <2>2. OpenMap[a] \in OpenOf(a)
    BY <1>2, <2>1
  <2> QED
    BY <2>2, SoleReady DEF OneReadyOwner
<1>3. \A a \in Agents : OpenOf(a) \subseteq Nat
  BY DEF OpenOf, Owners
<1>4. OpenMap \in [Agents -> Nat]
  BY <1>1, <1>2, <1>3 DEF OpenMap
<1> HIDE DEF OpenMap
<1> QED
  BY <1>1, <1>2, <1>4 DEF OpenIs, OpenOf

\* The steps that leave the ready owners alone.
LEMMA OpenSame ==
    ASSUME OpenIs, OpenIs',
           \A o \in Owners : own'[o].agent = own[o].agent /\ (own'[o].st = "ready" <=> own[o].st = "ready")
    PROVE  OpenMap' = OpenMap
<1>1. ASSUME NEW a \in Agents PROVE OpenMap'[a] = OpenMap[a]
  BY DEF OpenIs, Owners
<1> QED
  BY <1>1 DEF OpenIs

LEMMA RefinedInit == Init => Tenures!Init
<1> SUFFICES ASSUME Init PROVE Tenures!Init
  OBVIOUS
<1>1. InsideMap = [c \in Clients |-> 0]
  BY DEF Init, NoRequest, InsideMap
<1>2. made \in Nat
  BY NamedIs DEF Init
<1>3. \A o \in Owners : own[o].st = "ready" => reg[own[o].agent] = o
  BY DEF Init, Runtimes, NewOwner, NoOwner
<1>4. IInv /\ OpenIs
  BY TypeInit, RouteInit, OpenMapIs DEF IInv
<1>5. OpenMap \in [Agents -> 0..made]
  <2>1. ASSUME NEW a \in Agents PROVE OpenMap[a] \in 0..made
    BY <1>3, <1>4 DEF OpenIs, IInv, TypeOK
  <2> QED
    BY <1>4, <2>1 DEF OpenIs
<1>6. \A a, b \in Agents : OpenMap[a] = OpenMap[b] /\ OpenMap[a] # 0 => a = b
  BY <1>4 DEF OpenIs
<1> QED
  BY <1>1, <1>2, <1>5, <1>6, Zenon DEF Tenures!Init, OpenMap, InsideMap

LEMMA InsideAt ==
    ASSUME NEW c \in Clients
    PROVE  InsideMap[c] = IF cl[c].pc \in {"checked", "queued"} THEN cl[c].o ELSE 0
  BY DEF InsideMap

\* The steps of SoleOwner, in terms of the mapping.
LEMMA Steps ==
    /\ UNCHANGED <<OpenMap, InsideMap, made>> => UNCHANGED Tenures!vars
    /\ \A a \in Agents : /\ OpenMap[a] = 0 /\ made' = made + 1 /\ UNCHANGED InsideMap
                         /\ OpenMap' = [OpenMap EXCEPT ![a] = made + 1]
                         => Tenures!Next
    /\ \A a \in Agents : /\ OpenMap[a] # 0 /\ UNCHANGED <<InsideMap, made>>
                         /\ OpenMap' = [OpenMap EXCEPT ![a] = 0]
                         => Tenures!Next
    /\ \A c \in Clients, a \in Agents :
           /\ InsideMap[c] = 0 /\ OpenMap[a] # 0 /\ UNCHANGED <<OpenMap, made>>
           /\ InsideMap' = [InsideMap EXCEPT ![c] = OpenMap[a]]
           => Tenures!Next
    /\ \A c \in Clients : /\ InsideMap[c] # 0 /\ UNCHANGED <<OpenMap, made>>
                          /\ InsideMap' = [InsideMap EXCEPT ![c] = 0]
                          => Tenures!Next
<1> USE DEF Tenures!Next
<1>1. UNCHANGED <<OpenMap, InsideMap, made>> => UNCHANGED Tenures!vars
  BY Zenon DEF Tenures!vars, OpenMap, InsideMap
<1>2. ASSUME NEW a \in Agents, OpenMap[a] = 0, made' = made + 1, UNCHANGED InsideMap,
             OpenMap' = [OpenMap EXCEPT ![a] = made + 1]
      PROVE  Tenures!Open(a)
  BY <1>2, Zenon DEF Tenures!Open, OpenMap, InsideMap
<1>3. ASSUME NEW a \in Agents, OpenMap[a] # 0, UNCHANGED <<InsideMap, made>>,
             OpenMap' = [OpenMap EXCEPT ![a] = 0]
      PROVE  Tenures!Shut(a)
  BY <1>3, Zenon DEF Tenures!Shut, OpenMap, InsideMap
<1>4. ASSUME NEW c \in Clients, NEW a \in Agents, InsideMap[c] = 0, OpenMap[a] # 0,
             UNCHANGED <<OpenMap, made>>, InsideMap' = [InsideMap EXCEPT ![c] = OpenMap[a]]
      PROVE  Tenures!Admit(c, a)
  BY <1>4, Zenon DEF Tenures!Admit, OpenMap, InsideMap
<1>5. ASSUME NEW c \in Clients, InsideMap[c] # 0,
             UNCHANGED <<OpenMap, made>>, InsideMap' = [InsideMap EXCEPT ![c] = 0]
      PROVE  Tenures!Leave(c)
  BY <1>5, Zenon DEF Tenures!Leave, OpenMap, InsideMap
<1> QED
  BY <1>1, <1>2, <1>3, <1>4, <1>5

\* The same ready owners, and the same operations inside.
LEMMA Stutters ==
    ASSUME OpenIs, OpenIs', made' = made,
           \A o \in Owners : own'[o].agent = own[o].agent /\ (own'[o].st = "ready" <=> own[o].st = "ready"),
           \A c \in Clients : \/ cl'[c] = cl[c]
                              \/ cl[c].pc \in {"idle", "got"} /\ cl'[c].pc \in {"idle", "got"}
                              \/ /\ cl[c].pc \in {"checked", "queued"} /\ cl'[c].pc \in {"checked", "queued"}
                                 /\ cl'[c].o = cl[c].o
    PROVE  UNCHANGED Tenures!vars
<1>1. OpenMap' = OpenMap
  BY OpenSame
<1>2. InsideMap' = InsideMap
  BY DEF InsideMap
<1> QED
  BY <1>1, <1>2, Steps

\* One owner leaves Ready.
LEMMA Shuts ==
    ASSUME OpenIs, OpenIs', made' = made, cl' = cl,
           NEW o \in Owners, own[o].st = "ready", own[o].agent \in Agents, own'[o].st # "ready",
           \A p \in Owners \ {o} : own'[p].agent = own[p].agent /\ (own'[p].st = "ready" <=> own[p].st = "ready")
    PROVE  Tenures!Next
<1> DEFINE a == own[o].agent
<1>1. OpenMap[a] = o /\ o # 0
  BY DEF OpenIs, Owners
<1>2. OpenMap'[a] = 0
  <2> SUFFICES ASSUME OpenMap'[a] # 0 PROVE FALSE
    OBVIOUS
  <2>1. OpenMap'[a] \in Owners /\ own'[OpenMap'[a]].st = "ready" /\ own'[OpenMap'[a]].agent = a
    BY DEF OpenIs
  <2>2. OpenMap'[a] # o
    BY <2>1
  <2> QED
    BY <1>1, <2>1, <2>2 DEF OpenIs
<1>3. ASSUME NEW b \in Agents \ {a} PROVE OpenMap'[b] = OpenMap[b]
  BY DEF OpenIs, Owners
<1>4. OpenMap' = [OpenMap EXCEPT ![a] = 0]
  BY <1>2, <1>3 DEF OpenIs
<1>5. InsideMap' = InsideMap
  BY DEF InsideMap
<1> QED
  BY <1>1, <1>4, <1>5, Steps

\* One owner is opened.
LEMMA Opens ==
    ASSUME IInv, OpenIs, OpenIs', NEW a \in Agents, OpenOwner(a)
    PROVE  Tenures!Next
<1> DEFINE o == made + 1
<1>1. o \in Owners /\ made' = made + 1 /\ cl' = cl /\ disp[a] = 0 /\ rl.pc = "add"
  BY AgentOwnerAssumption DEF OpenOwner, IInv, TypeOK, Owners
<1>2. /\ own'[o].st = "ready" /\ own'[o].agent = a
      /\ \A p \in Owners \ {o} : own'[p] = own[p]
  BY <1>1 DEF OpenOwner, NewOwner, IInv, TypeOK
<1> HIDE DEF o
<1>3. own[o].st # "ready"
  BY <1>1 DEF IInv, RouteInv, ReadyRouted, TypeOK, o
<1>4. OpenMap[a] = 0
  BY <1>1 DEF IInv, RouteInv, ReadyRouted, OpenIs, Owners
<1>5. OpenMap'[a] = o
  BY <1>1, <1>2 DEF OpenIs
<1>6. ASSUME NEW b \in Agents \ {a} PROVE OpenMap'[b] = OpenMap[b]
  BY <1>1, <1>2, <1>3 DEF OpenIs, Owners
<1>7. OpenMap' = [OpenMap EXCEPT ![a] = made + 1]
  BY <1>5, <1>6 DEF OpenIs, o
<1>8. InsideMap' = InsideMap
  BY <1>1 DEF InsideMap
<1> QED
  BY <1>1, <1>4, <1>7, <1>8, Steps

\* with_connection reads the state.
LEMMA Admits ==
    ASSUME IInv, OpenIs, OpenIs', NEW c \in Clients, CheckState(c)
    PROVE  Tenures!Next \/ UNCHANGED Tenures!vars
<1>1. own' = own /\ made' = made /\ cl[c].pc = "got"
  BY DEF CheckState
<1>2. \A d \in Clients \ {c} : cl'[d] = cl[d]
  BY DEF CheckState, IInv, TypeOK
<1>3. CASE own[cl[c].o].st = "ready"
  <2>1. cl[c].o \in Owners
    <3>1. made \in 0..MaxOwners /\ MaxOwners \in Nat /\ cl[c].o \in 0..made /\ cl[c].o # 0
      BY <1>1, AgentOwnerAssumption DEF IInv, RouteInv, Active, TypeOK, RequestType
    <3> QED
      BY <3>1 DEF Owners
  <2>2. cl'[c].pc = "checked" /\ cl'[c].o = cl[c].o
    BY <1>3 DEF CheckState, IInv, TypeOK, RequestType
  <2>3. own[cl[c].o].agent \in Agents
    BY <1>3, <2>1 DEF IInv, RouteInv, ReadyRouted
  <2>4. OpenMap[own[cl[c].o].agent] = cl[c].o /\ cl[c].o # 0
    BY <1>3, <2>1, <2>3 DEF OpenIs, Owners
  <2>5. OpenMap' = OpenMap
    BY <1>1, OpenSame
  <2>6. InsideMap[c] = 0 /\ InsideMap' = [InsideMap EXCEPT ![c] = cl[c].o]
    BY <1>1, <1>2, <2>2 DEF InsideMap
  <2> QED
    BY <1>1, <2>3, <2>4, <2>5, <2>6, Steps
<1>4. CASE own[cl[c].o].st # "ready"
  <2>1. cl'[c].pc = "idle"
    BY <1>4 DEF CheckState, NoRequest, IInv, TypeOK
  <2> QED
    BY <1>1, <1>2, <2>1, Stutters
<1> QED
  BY <1>3, <1>4

LEMMA Leaves ==
    ASSUME IInv, OpenIs, OpenIs', NEW c \in Clients, EndOperation(c)
    PROVE  Tenures!Next
<1>1. made' = made /\ cl[c].pc = "queued" /\ SameView
  BY ViewOfRequests DEF EndOperation, IInv
<1>2. \A d \in Clients \ {c} : cl'[d] = cl[d]
  BY DEF EndOperation, IInv, TypeOK
<1>3. cl'[c].pc \in {"idle", "got"}
  BY DEF EndOperation, NoRequest, IInv, TypeOK, RequestType
<1>4. OpenMap' = OpenMap
  BY <1>1, OpenSame DEF SameView
<1>5. InsideMap[c] # 0 /\ InsideMap' = [InsideMap EXCEPT ![c] = 0]
  BY <1>1, <1>2, <1>3 DEF InsideMap, IInv, RouteInv, Active
<1> QED
  BY <1>1, <1>4, <1>5, Steps

LEMMA Restarts ==
    ASSUME IInv, OpenIs, OpenIs', IInv', Restart
    PROVE  Tenures!Next
<1>1. made' \in Nat /\ made' >= made /\ made \in Nat
  BY NamedIs DEF Restart, IInv, TypeOK
<1>2. \A c \in Clients : cl'[c].pc = "idle"
  BY DEF Restart, NoRequest
<1>3. InsideMap' = [c \in Clients |-> 0]
  BY <1>2 DEF InsideMap
<1>4. \A o \in Owners : own'[o].st = "ready" => o \in (made + 1)..made'
  BY <1>1 DEF Restart, Runtimes, NewOwner, NoOwner, Numberings, Owners
<1>5. OpenMap' \in [Agents -> {0} \cup (made + 1)..made']
  BY <1>4 DEF OpenIs
<1>6. \A a, b \in Agents : OpenMap'[a] = OpenMap'[b] /\ OpenMap'[a] # 0 => a = b
  BY DEF OpenIs
<1> QED
  BY <1>1, <1>3, <1>5, <1>6, Zenon DEF Tenures!Next, Tenures!Restart, OpenMap, InsideMap

LEMMA RefinedStep ==
    ASSUME IInv, IInv', OpenIs, OpenIs', [Next]_vars
    PROVE  Tenures!Next \/ UNCHANGED Tenures!vars
<1> DEFINE Goal == Tenures!Next \/ UNCHANGED Tenures!vars
<1> SUFFICES Goal
  OBVIOUS
<1>1. ASSUME SameView, made' = made, cl' = cl PROVE Goal
  BY <1>1, Stutters DEF SameView
<1>2. CASE UNCHANGED vars
  BY <1>1, <1>2 DEF vars, SameView
<1>3. ASSUME NEW c \in Clients, NEW a \in Agents, GetOwner(c, a) PROVE Goal
  <2>1. own' = own /\ made' = made
    BY <1>3 DEF GetOwner
  <2>2. \A d \in Clients : cl'[d] = cl[d] \/ (cl[d].pc = "idle" /\ cl'[d].pc = "got")
    BY <1>3 DEF GetOwner, IInv, TypeOK
  <2> QED
    BY <2>1, <2>2, Stutters
<1>4. ASSUME NEW c \in Clients, LockConnection(c) PROVE Goal
  <2>1. SameView /\ made' = made
    BY <1>4, ViewOfRequests DEF LockConnection, IInv
  <2>2. \A d \in Clients : \/ cl'[d] = cl[d]
                           \/ cl[d].pc = "checked" /\ cl'[d].pc = "queued" /\ cl'[d].o = cl[d].o
    BY <1>4 DEF LockConnection, IInv, TypeOK, RequestType
  <2> QED
    BY <2>1, <2>2, Stutters DEF SameView
<1>5. ASSUME NEW o \in Owners, Task(o) PROVE Goal
  <2>1. SameView
    BY <1>5, ViewOfRequests DEF IInv
  <2>2. made' = made /\ cl' = cl
    BY <1>5 DEF Task, TaskChecks, TaskLocks, TaskEnds
  <2> QED
    BY <1>1, <2>1, <2>2
<1>6. CASE JoinTasks \/ PublishBundle \/ DrainDone
  <2>1. SameView
    BY <1>6, ViewOfReload DEF IInv
  <2>2. made' = made /\ cl' = cl
    BY <1>6 DEF JoinTasks, PublishBundle, DrainDone
  <2> QED
    BY <1>1, <2>1, <2>2
<1>7. CASE Assemble
  <2>1. rl.pc = "assemble" /\ rl.o \in Owners /\ made' = made /\ cl' = cl
    BY <1>7, AtHand DEF Assemble, IInv, RouteInv
  <2>2. CASE own' = [own EXCEPT ![rl.o].task = "idle"]
    BY <1>1, <2>1, <2>2, ViewOfReload DEF IInv
  <2>3. CASE SetState(rl.o, "draining")
    <3>1. own[rl.o].st = "ready" /\ own[rl.o].agent \in Agents
      BY <2>1 DEF IInv, RouteInv, Building, ReadyRouted
    <3>2. /\ own'[rl.o].st # "ready"
          /\ \A p \in Owners \ {rl.o} : own'[p] = own[p]
      BY <2>1, <2>3 DEF SetState, IInv, TypeOK, OwnerType
    <3> QED
      BY <2>1, <3>1, <3>2, Shuts
  <2> QED
    BY <1>7, <2>2, <2>3 DEF Assemble
<1>8. CASE InsertBundle
  <2>1. rl.pc = "insert" /\ rl.o \in Owners /\ made' = made /\ cl' = cl
    BY <1>8, AtHand DEF InsertBundle, IInv, RouteInv
  <2>2. CASE own' = own
    BY <1>1, <2>1, <2>2 DEF SameView
  <2>3. CASE Drained(rl.o)
    <3>1. own[rl.o].st = "ready" /\ own[rl.o].agent \in Agents
      BY <2>1 DEF IInv, RouteInv, Building, ReadyRouted
    <3>2. /\ own'[rl.o].st # "ready"
          /\ \A p \in Owners \ {rl.o} : own'[p] = own[p]
      BY <2>1, <2>3 DEF Drained, IInv, TypeOK, OwnerType
    <3> QED
      BY <2>1, <3>1, <3>2, Shuts
  <2> QED
    BY <1>8, <2>2, <2>3 DEF InsertBundle
<1>9. ASSUME NEW a \in Agents, RemoveAgent(a) PROVE Goal
  <2>1. made' = made /\ cl' = cl
    BY <1>9 DEF RemoveAgent
  <2>2. CASE own' = own
    BY <1>1, <2>1, <2>2 DEF SameView
  <2>3. CASE own' # own
    <3>1. reg[a] # 0 /\ own[reg[a]].st = "ready" /\ own' = [own EXCEPT ![reg[a]].st = "draining"]
      BY <1>9, <2>3 DEF RemoveAgent, BeginDraining
    <3>2. reg[a] \in Owners
      <4>1. made \in 0..MaxOwners /\ MaxOwners \in Nat /\ reg[a] \in 0..made
        BY AgentOwnerAssumption DEF IInv, TypeOK
      <4> QED
        BY <3>1, <4>1 DEF Owners
    <3>3. own[reg[a]].agent \in Agents
      BY <3>1, <3>2 DEF IInv, RouteInv, ReadyRouted
    <3>4. /\ own'[reg[a]].st # "ready"
          /\ \A p \in Owners \ {reg[a]} : own'[p] = own[p]
      BY <3>1, <3>2 DEF IInv, TypeOK, OwnerType
    <3> QED
      BY <2>1, <3>1, <3>2, <3>3, <3>4, Shuts
  <2> QED
    BY <2>2, <2>3
<1>10. CASE TaskPanicked \/ DrainTimeout
  <2>1. rl.pc \in {"join", "wait"} /\ made' = made /\ cl' = cl
    BY <1>10 DEF TaskPanicked, DrainTimeout
  <2>2. rl.o \in Owners /\ own[rl.o].st # "ready"
    BY <2>1, AtHand DEF IInv, RouteInv, Removing
  <2> DEFINE Fails == \A p \in Owners : /\ own'[p].agent = own[p].agent
                                       /\ \/ own'[p].st = own[p].st
                                          \/ p = rl.o /\ own'[p].st = "failed"
  <2>3. Fails
    <3>1. TaskPanicked => Fails
      BY DEF TaskPanicked, IInv, TypeOK, OwnerType
    <3>2. DrainTimeout => Fails
      BY DEF DrainTimeout, LeaveQueue, IInv, TypeOK, OwnerType
    <3> QED
      BY <1>10, <3>1, <3>2
  <2> QED
    BY <2>1, <2>2, <2>3, Stutters
<1>11. CASE CallerGone
  <2>1. made' = made /\ cl' = cl
    BY <1>11 DEF CallerGone
  <2>2. CASE rl.pc \in {"assemble", "insert"}
    <3>1. rl.o \in Owners /\ own[rl.o].st = "ready" /\ own[rl.o].agent \in Agents
      BY <2>2, AtHand DEF IInv, RouteInv, Building, ReadyRouted
    <3>2. own' = [own EXCEPT ![rl.o] = [own[rl.o] EXCEPT !.st = "dropped", !.task = "off", !.q = <<>>]]
      BY <1>11, <2>2 DEF CallerGone
    <3>3. /\ own'[rl.o].st # "ready"
          /\ \A p \in Owners \ {rl.o} : own'[p] = own[p]
      BY <3>1, <3>2 DEF IInv, TypeOK, OwnerType
    <3> QED
      BY <2>1, <3>1, <3>3, Shuts
  <2>3. CASE rl.pc = "wait"
    <3>1. LeaveQueue(rl.o, own[rl.o].st)
      BY <1>11, <2>3 DEF CallerGone
    <3>2. SameView
      BY <3>1 DEF LeaveQueue, SameView, IInv, TypeOK, OwnerType
    <3> QED
      BY <1>1, <2>1, <3>2
  <2>4. CASE rl.pc \notin {"assemble", "insert", "wait"}
    BY <1>1, <1>11, <2>1, <2>4 DEF CallerGone, SameView
  <2> QED
    BY <2>2, <2>3, <2>4
<1>12. ASSUME own' = own, made' = made, cl' = cl PROVE Goal
  BY <1>1, <1>12 DEF SameView
<1> HIDE DEF Goal
<1>13. \/ \E a \in Agents : EditDisk(a) \/ AddExisting(a) \/ AddSkipped(a) \/ OpenFails(a)
       \/ ReloadStart \/ RemoveStart \/ InsertRoute \/ Unregister \/ RemoveToken \/ ReloadDone
       => Goal
  BY <1>12 DEF EditDisk, AddExisting, AddSkipped, OpenFails, ReloadStart, RemoveStart, InsertRoute,
               Unregister, RemoveToken, ReloadDone
<1>14. ASSUME NEW c \in Clients, CheckState(c) \/ EndOperation(c) PROVE Goal
  BY <1>14, Admits, Leaves DEF Goal
<1>15. ASSUME NEW a \in Agents, OpenOwner(a) PROVE Goal
  BY <1>15, Opens DEF Goal
<1>16. CASE Restart
  BY <1>16, Restarts DEF Goal
<1> QED
  BY <1>2, <1>3, <1>4, <1>5, <1>6, <1>7, <1>8, <1>9, <1>10, <1>11, <1>13, <1>14, <1>15, <1>16
     DEF Next, Reload, ReloadFault, Request

\* The owners implement the tenures of SoleOwner: what /reload, with_connection and
\* drain do to the owners is opening, shutting, admitting and leaving, in an order
\* the abstract specification allows, and nothing else.
THEOREM Refinement == Spec => ImplementsSoleOwner
<1>1. IInv /\ IInv' /\ [Next]_vars => [Tenures!Next]_Tenures!vars
  <2>1. IInv => OpenIs
    BY OpenMapIs
  <2>2. IInv' => OpenIs'
    BY OpenMapIs, PTL
  <2> QED
    BY <2>1, <2>2, RefinedStep
<1> QED
  BY <1>1, Inductive, RefinedInit, PTL DEF Spec, Tenures!Spec, ImplementsSoleOwner

-----------------------------------------------------------------------------
(* Who stands in a queue, how often, and before the drain.                   *)

In(x, q) == \E i \in 1..Len(q) : q[i] = x
Once(x, q) == \A i, j \in 1..Len(q) : q[i] = x /\ q[j] = x => i = j
BeforeDrain(x, q) == \A i, j \in 1..Len(q) : q[i] = x /\ q[j] = "drain" => i < j

LEMMA Appended ==
    ASSUME NEW S, NEW q \in Seq(S), NEW y \in S
    PROVE  /\ \A x : In(x, Append(q, y)) <=> In(x, q) \/ x = y
           /\ \A x : Once(x, q) /\ (x # y \/ ~In(x, q)) => Once(x, Append(q, y))
           /\ \A x : x # y /\ BeforeDrain(x, q) => BeforeDrain(x, Append(q, y))
           /\ y = "drain" /\ ~In(y, q) => \A x : x # y => BeforeDrain(x, Append(q, y))
<1>1. /\ Len(Append(q, y)) = Len(q) + 1 /\ Len(q) \in Nat
      /\ \A i \in 1..Len(q) : Append(q, y)[i] = q[i]
      /\ Append(q, y)[Len(q) + 1] = y
  OBVIOUS
<1> DEFINE r == Append(q, y)
<1> HIDE DEF r
<1>2. /\ Len(r) = Len(q) + 1 /\ Len(q) \in Nat
      /\ \A i \in 1..Len(q) : r[i] = q[i] /\ i \in 1..Len(r)
      /\ r[Len(q) + 1] = y /\ Len(q) + 1 \in 1..Len(r)
      /\ \A i \in 1..Len(r) : i \in 1..Len(q) \/ i = Len(q) + 1
  BY <1>1 DEF r
<1>3. ASSUME NEW x PROVE In(x, r) <=> In(x, q) \/ x = y
  BY <1>2 DEF In
<1>4. ASSUME NEW x, Once(x, q), x # y \/ ~In(x, q) PROVE Once(x, r)
  BY <1>2, <1>4 DEF In, Once
<1>5. ASSUME NEW x, x # y, BeforeDrain(x, q) PROVE BeforeDrain(x, r)
  BY <1>2, <1>5 DEF BeforeDrain
<1>6. ASSUME y = "drain", ~In(y, q), NEW x, x # y PROVE BeforeDrain(x, r)
  BY <1>2, <1>6 DEF In, BeforeDrain
<1> QED
  BY <1>3, <1>4, <1>5, <1>6 DEF r

LEMMA Advanced ==
    ASSUME NEW S, NEW q \in Seq(S), q # <<>>
    PROVE  /\ \A x : In(x, Tail(q)) => In(x, q)
           /\ \A x : In(x, q) /\ x # Head(q) => In(x, Tail(q))
           /\ \A x : Once(x, q) => Once(x, Tail(q))
           /\ \A x : BeforeDrain(x, q) => BeforeDrain(x, Tail(q))
<1>1. /\ Len(Tail(q)) = Len(q) - 1 /\ Len(q) \in Nat /\ Head(q) = q[1]
      /\ \A i \in 1..(Len(q) - 1) : Tail(q)[i] = q[i + 1]
  OBVIOUS
<1> DEFINE r == Tail(q)
<1> HIDE DEF r
<1>2. /\ Len(r) = Len(q) - 1 /\ Len(q) \in Nat
      /\ \A i \in 1..Len(r) : r[i] = q[i + 1] /\ i + 1 \in 1..Len(q)
      /\ \A i \in 1..Len(q) : i = 1 \/ (i - 1 \in 1..Len(r) /\ r[i - 1] = q[i])
  BY <1>1 DEF r
<1>3. ASSUME NEW x, In(x, r) PROVE In(x, q)
  BY <1>2, <1>3 DEF In
<1>4. ASSUME NEW x, In(x, q), x # Head(q) PROVE In(x, r)
  BY <1>1, <1>2, <1>4 DEF In
<1>5. ASSUME NEW x, Once(x, q) PROVE Once(x, r)
  BY <1>2, <1>5 DEF Once
<1>6. ASSUME NEW x, BeforeDrain(x, q) PROVE BeforeDrain(x, r)
  BY <1>2, <1>6 DEF BeforeDrain
<1> QED
  BY <1>3, <1>4, <1>5, <1>6 DEF r

LEMMA LeftOver ==
    ASSUME NEW S, NEW q \in Seq(S), NEW p
    PROVE  /\ \A x : In(x, Without(q, p)) => In(x, q)
           /\ \A x : In(x, q) /\ x # p => In(x, Without(q, p))
           /\ \A x : Once(x, q) => Once(x, Without(q, p))
           /\ \A x : BeforeDrain(x, q) => BeforeDrain(x, Without(q, p))
           /\ Once(p, q) => ~In(p, Without(q, p))
<1> DEFINE r == Without(q, p)
<1>1. Kept(q, p, r)
  BY WithoutIs
<1> HIDE DEF r
<1>2. PICK m \in Nat : \E f \in [1..m -> 1..Len(q)] : KeptBy(q, p, r, m, f)
  BY <1>1 DEF Kept
<1>3. PICK f \in [1..m -> 1..Len(q)] : KeptBy(q, p, r, m, f)
  BY <1>2
<1> USE <1>3 DEF KeptBy
<1>4. Len(q) \in Nat /\ \A j \in 1..m : f[j] \in 1..Len(q)
  OBVIOUS
<1>5. ASSUME NEW x, In(x, r) PROVE In(x, q)
  BY <1>5 DEF In
<1>6. ASSUME NEW x, In(x, q), x # p PROVE In(x, r)
  BY <1>6 DEF In
<1>7. ASSUME NEW i \in 1..m, NEW j \in 1..m PROVE (f[i] = f[j] => i = j) /\ (f[i] < f[j] => i < j)
  BY <1>4
<1>8. ASSUME NEW x, Once(x, q) PROVE Once(x, r)
  <2> SUFFICES ASSUME NEW i \in 1..m, NEW j \in 1..m, r[i] = x, r[j] = x PROVE i = j
    BY DEF Once
  <2>1. f[i] \in 1..Len(q) /\ f[j] \in 1..Len(q) /\ q[f[i]] = x /\ q[f[j]] = x
    BY <1>4
  <2> QED
    BY <1>7, <1>8, <2>1 DEF Once
<1>9. ASSUME NEW x, BeforeDrain(x, q) PROVE BeforeDrain(x, r)
  <2> SUFFICES ASSUME NEW i \in 1..m, NEW j \in 1..m, r[i] = x, r[j] = "drain" PROVE i < j
    BY DEF BeforeDrain
  <2>1. f[i] \in 1..Len(q) /\ f[j] \in 1..Len(q) /\ q[f[i]] = x /\ q[f[j]] = "drain"
    BY <1>4
  <2> QED
    BY <1>7, <1>9, <2>1 DEF BeforeDrain
<1>10. ASSUME Once(p, q) PROVE ~In(p, r)
  BY <1>10 DEF Once, In
<1> QED
  BY <1>5, <1>6, <1>8, <1>9, <1>10 DEF r

-----------------------------------------------------------------------------
(* The invariant of the queues: whom a drain has waited for.                 *)

\* A request that waits for the connection is in its owner's queue.
InQueue == \A c \in Clients : cl[c].pc = "queued" => In(c, own[cl[c].o].q)

\* The drain is at most once in a queue, and only where the reload waits for it.
OneDrain ==
    \A o \in Owners : /\ Once("drain", own[o].q)
                      /\ In("drain", own[o].q) => rl.pc = "wait" /\ rl.o = o

\* While the reload waits, the requests that are not late are queued before it.
Behind ==
    rl.pc = "wait" =>
        \A c \in Clients \ late : cl[c].o = rl.o =>
            /\ cl[c].pc # "checked"
            /\ cl[c].pc = "queued" => BeforeDrain(c, own[rl.o].q)

\* Once its turn has come, none of them is left.
Inside(c) == cl[c].pc \in {"checked", "queued"}
NoneLeft ==
    rl.pc = "unregister" => \A c \in Clients \ late : cl[c].o = rl.o => ~Inside(c)

QueueInv == InQueue /\ OneDrain /\ Behind /\ NoneLeft /\ DrainWaitsForQueued

LEMMA QueueInit == Init => QueueInv
<1> SUFFICES ASSUME Init PROVE QueueInv
  OBVIOUS
<1>1. rl.pc = "idle" /\ \A c \in Clients : cl[c].pc = "idle"
  BY DEF Init, NoReload, NoRequest
<1>2. \A o \in Owners : own[o].q = <<>>
  BY DEF Init, Runtimes, NewOwner, NoOwner
<1>3. OneDrain
  BY <1>2 DEF OneDrain, In, Once
<1> QED
  BY <1>1, <1>3 DEF QueueInv, InQueue, Behind, NoneLeft, DrainWaitsForQueued

\* The owner of a request in progress was opened.
LEMMA OwnerOf ==
    ASSUME IInv, NEW c \in Clients, cl[c].pc # "idle"
    PROVE  cl[c].o \in Owners
<1>1. made \in 0..MaxOwners /\ MaxOwners \in Nat /\ cl[c].o \in 0..made /\ cl[c].o # 0
  BY AgentOwnerAssumption DEF IInv, RouteInv, Active, TypeOK, RequestType
<1> QED
  BY <1>1 DEF Owners

LEMMA QueueOf == ASSUME IInv, NEW o \in Owners PROVE own[o].q \in Seq(Waiters)
  BY DEF IInv, TypeOK, OwnerType

\* A step that queues nobody and lets nobody out of a queue, of a reload that does
\* not wait for one.
GoneAfter(o) == own'[o].st \notin {"unborn", "ready"} /\ o \notin {reg'[a] : a \in Agents}
LEMMA QueuesRest ==
    ASSUME IInv, QueueInv, late' = late,
           \A c \in Clients : cl'[c].pc \in {"checked", "queued"} =>
               /\ cl'[c] = cl[c] /\ own'[cl[c].o].q = own[cl[c].o].q
               /\ GoneAfter(cl[c].o) => Gone(cl[c].o),
           \A o \in Owners : own'[o].q = own[o].q \/ ~In("drain", own'[o].q),
           \/ rl.pc # "wait" /\ rl'.pc \notin {"wait", "unregister"}
           \/ rl'.pc = rl.pc /\ rl'.o = rl.o /\ own'[rl.o].q = own[rl.o].q
    PROVE  QueueInv'
<1>1. InQueue'
  BY DEF QueueInv, InQueue
<1>2. OneDrain'
  BY DEF QueueInv, OneDrain, In, Once
<1>3. Behind'
  BY DEF QueueInv, Behind
<1>4. NoneLeft'
  BY DEF QueueInv, NoneLeft, Inside
<1>5. DrainWaitsForQueued'
  BY DEF QueueInv, DrainWaitsForQueued, Gone, GoneAfter
<1> QED
  BY <1>1, <1>2, <1>3, <1>4, <1>5 DEF QueueInv

LEMMA CheckQueues ==
    ASSUME IInv, QueueInv, NEW c \in Clients, CheckState(c)
    PROVE  QueueInv'
<1>1. /\ own' = own /\ reg' = reg /\ rl' = rl /\ late' = late /\ cl[c].pc = "got"
      /\ \A d \in Clients \ {c} : cl'[d] = cl[d]
  BY DEF CheckState, maps, IInv, TypeOK
<1>2. CASE own[cl[c].o].st = "ready"
  <2>1. cl'[c].pc = "checked" /\ cl'[c].o = cl[c].o
    BY <1>2 DEF CheckState, IInv, TypeOK, RequestType
  <2>2. rl.pc \in {"wait", "unregister"} => cl[c].o # rl.o
    BY <1>2 DEF IInv, RouteInv, Removing
  <2>3. InQueue' /\ OneDrain'
    BY <1>1, <2>1 DEF QueueInv, InQueue, OneDrain
  <2>4. Behind' /\ NoneLeft'
    BY <1>1, <2>1, <2>2 DEF QueueInv, Behind, NoneLeft, Inside
  <2>5. DrainWaitsForQueued'
    BY <1>1, <1>2, <2>1 DEF QueueInv, DrainWaitsForQueued, Gone
  <2> QED
    BY <2>3, <2>4, <2>5 DEF QueueInv
<1>3. CASE own[cl[c].o].st # "ready"
  <2>1. cl'[c].pc = "idle"
    BY <1>3 DEF CheckState, NoRequest, IInv, TypeOK
  <2>2. \A d \in Clients : cl'[d].pc \in {"checked", "queued"} => cl'[d] = cl[d]
    BY <1>1, <2>1
  <2> QED
    BY <1>1, <2>2, QueuesRest DEF Gone, GoneAfter
<1> QED
  BY <1>2, <1>3

LEMMA LockQueues ==
    ASSUME IInv, QueueInv, NEW c \in Clients, LockConnection(c)
    PROVE  QueueInv'
<1> DEFINE o == cl[c].o
<1>1. /\ reg' = reg /\ rl' = rl /\ late' = late /\ cl[c].pc = "checked" /\ cl'[c].pc = "queued"
      /\ cl'[c].o = o /\ \A d \in Clients \ {c} : cl'[d] = cl[d]
  BY DEF LockConnection, maps, IInv, TypeOK, RequestType
<1>2. o \in Owners /\ own[o].q \in Seq(Waiters) /\ c \in Waiters /\ c # "drain"
  BY <1>1, OwnerOf, QueueOf, AgentOwnerAssumption DEF Waiters
<1>3. /\ own'[o].q = Append(own[o].q, c)
      /\ \A p \in Owners \ {o} : own'[p].q = own[p].q
      /\ \A p \in Owners : own'[p].st = own[p].st
  BY <1>2 DEF LockConnection, IInv, TypeOK, OwnerType
<1> HIDE DEF o
<1>4. /\ \A x : In(x, own'[o].q) <=> In(x, own[o].q) \/ x = c
      /\ Once("drain", own[o].q) => Once("drain", own'[o].q)
      /\ \A x : x # c /\ BeforeDrain(x, own[o].q) => BeforeDrain(x, own'[o].q)
  BY <1>2, <1>3, Appended
<1>5. \A d \in Clients : cl[d].pc # "idle" => cl[d].o \in Owners
  BY OwnerOf
<1>6. InQueue'
  BY <1>1, <1>3, <1>4, <1>5 DEF QueueInv, InQueue
<1>7. OneDrain'
  BY <1>1, <1>2, <1>3, <1>4 DEF QueueInv, OneDrain
<1>8. Behind'
  <2> SUFFICES ASSUME rl.pc = "wait", NEW d \in Clients \ late, cl'[d].o = rl.o
               PROVE  /\ cl'[d].pc # "checked"
                      /\ cl'[d].pc = "queued" => BeforeDrain(d, own'[rl.o].q)
    BY <1>1 DEF Behind
  <2>1. d # c
    BY <1>1 DEF QueueInv, Behind, o
  <2>2. rl.o \in Owners
    BY AtHand DEF IInv, RouteInv
  <2> QED
    BY <1>1, <1>3, <1>4, <2>1, <2>2 DEF QueueInv, Behind
<1>9. NoneLeft'
  BY <1>1 DEF QueueInv, NoneLeft, Inside, o
<1>10. DrainWaitsForQueued'
  BY <1>1, <1>2, <1>3, <1>5 DEF QueueInv, DrainWaitsForQueued, Gone, o
<1> QED
  BY <1>6, <1>7, <1>8, <1>9, <1>10 DEF QueueInv

LEMMA EndQueues ==
    ASSUME IInv, QueueInv, NEW c \in Clients, EndOperation(c)
    PROVE  QueueInv'
<1> DEFINE o == cl[c].o
<1>1. /\ reg' = reg /\ rl' = rl /\ late' = late \ {c} /\ cl[c].pc = "queued" /\ AtWork(c, o)
      /\ cl'[c].pc \in {"idle", "got"} /\ \A d \in Clients \ {c} : cl'[d] = cl[d]
  BY DEF EndOperation, maps, NoRequest, IInv, TypeOK, RequestType
<1>2. o \in Owners /\ own[o].q \in Seq(Waiters) /\ own[o].q # <<>> /\ Head(own[o].q) = c
  BY <1>1, OwnerOf, QueueOf DEF AtWork
<1>3. /\ own'[o].q = Tail(own[o].q)
      /\ \A p \in Owners \ {o} : own'[p].q = own[p].q
      /\ \A p \in Owners : own'[p].st = own[p].st
  BY <1>2 DEF EndOperation, IInv, TypeOK, OwnerType
<1> HIDE DEF o
<1>4. /\ \A x : In(x, own'[o].q) => In(x, own[o].q)
      /\ \A x : In(x, own[o].q) /\ x # c => In(x, own'[o].q)
      /\ Once("drain", own[o].q) => Once("drain", own'[o].q)
      /\ \A x : BeforeDrain(x, own[o].q) => BeforeDrain(x, own'[o].q)
  BY <1>2, <1>3, Advanced
<1>5. \A d \in Clients : cl[d].pc # "idle" => cl[d].o \in Owners
  BY OwnerOf
<1>6. InQueue'
  BY <1>1, <1>3, <1>4, <1>5 DEF QueueInv, InQueue
<1>7. OneDrain'
  BY <1>1, <1>2, <1>3, <1>4 DEF QueueInv, OneDrain
<1>8. Behind'
  <2> SUFFICES ASSUME rl.pc = "wait", NEW d \in Clients \ late', cl'[d].o = rl.o
               PROVE  /\ cl'[d].pc # "checked"
                      /\ cl'[d].pc = "queued" => BeforeDrain(d, own'[rl.o].q)
    BY <1>1 DEF Behind
  <2>1. rl.o \in Owners
    BY AtHand DEF IInv, RouteInv
  <2> QED
    BY <1>1, <1>3, <1>4, <2>1 DEF QueueInv, Behind
<1>9. NoneLeft'
  BY <1>1 DEF QueueInv, NoneLeft, Inside
<1>10. DrainWaitsForQueued'
  BY <1>1, <1>2, <1>3, <1>5 DEF QueueInv, DrainWaitsForQueued, Gone
<1> QED
  BY <1>6, <1>7, <1>8, <1>9, <1>10 DEF QueueInv

\* The tasks of a bundle come and go in the queue as requests do.
LEMMA TaskQueues ==
    ASSUME IInv, QueueInv, NEW o \in Owners, Task(o)
    PROVE  QueueInv'
<1>1. reg' = reg /\ rl' = rl /\ late' = late /\ cl' = cl
  BY DEF Task, TaskChecks, TaskLocks, TaskEnds, maps
<1>2. own[o].q \in Seq(Waiters) /\ "task" \in Waiters
  BY QueueOf DEF Waiters
<1>3. /\ \/ own'[o].q \in {own[o].q, Append(own[o].q, "task")}
         \/ own[o].q # <<>> /\ Head(own[o].q) = "task" /\ own'[o].q = Tail(own[o].q)
      /\ \A p \in Owners \ {o} : own'[p].q = own[p].q
      /\ \A p \in Owners : own'[p].st = own[p].st
  <2> USE DEF IInv, TypeOK, OwnerType
  <2>1. CASE TaskChecks(o)
    BY <2>1 DEF TaskChecks
  <2>2. CASE TaskLocks(o)
    BY <2>2 DEF TaskLocks
  <2>3. CASE TaskEnds(o)
    BY <2>3 DEF TaskEnds, AtWork
  <2> QED
    BY <2>1, <2>2, <2>3 DEF Task
<1>4. /\ \A x : x # "task" => (In(x, own'[o].q) <=> In(x, own[o].q))
      /\ Once("drain", own[o].q) => Once("drain", own'[o].q)
      /\ \A x : x # "task" /\ BeforeDrain(x, own[o].q) => BeforeDrain(x, own'[o].q)
  <2>1. CASE own'[o].q = own[o].q
    BY <2>1
  <2>2. CASE own'[o].q = Append(own[o].q, "task")
    BY <1>2, <2>2, Appended
  <2>3. CASE own[o].q # <<>> /\ Head(own[o].q) = "task" /\ own'[o].q = Tail(own[o].q)
    BY <1>2, <2>3, Advanced
  <2> QED
    BY <1>3, <2>1, <2>2, <2>3
<1>5. \A d \in Clients : d # "task" /\ (cl[d].pc # "idle" => cl[d].o \in Owners)
  BY OwnerOf, AgentOwnerAssumption
<1>6. InQueue'
  BY <1>1, <1>3, <1>4, <1>5 DEF QueueInv, InQueue
<1>7. OneDrain'
  BY <1>1, <1>3, <1>4 DEF QueueInv, OneDrain
<1>8. Behind'
  <2>1. rl.pc = "wait" => rl.o \in Owners
    BY AtHand DEF IInv, RouteInv
  <2> QED
    BY <1>1, <1>3, <1>4, <1>5, <2>1 DEF QueueInv, Behind
<1>9. NoneLeft'
  BY <1>1 DEF QueueInv, NoneLeft, Inside
<1>10. DrainWaitsForQueued'
  BY <1>1, <1>3, <1>5 DEF QueueInv, DrainWaitsForQueued, Gone
<1> QED
  BY <1>6, <1>7, <1>8, <1>9, <1>10 DEF QueueInv

\* The reload leaves the queue of the owner at hand, or takes the task out of it.
LEMMA LeavesQueue ==
    ASSUME IInv, QueueInv, NEW p \in {"task", "drain"}, rl.o \in Owners, rl.agent \in Agents,
           reg' = reg, cl' = cl, late' = late, rl'.pc \in {"idle", "unregister"},
           reg[rl.agent] = rl.o, rl.pc = "wait" => p = "drain",
           own'[rl.o].q = Without(own[rl.o].q, p),
           \A o \in Owners \ {rl.o} : own'[o] = own[o]
    PROVE  /\ InQueue' /\ OneDrain' /\ DrainWaitsForQueued'
           /\ rl'.pc = "idle" => QueueInv'
<1>1. \A d \in Clients : d # p /\ (cl[d].pc # "idle" => cl[d].o \in Owners)
  BY OwnerOf, AgentOwnerAssumption
<1>2. own[rl.o].q \in Seq(Waiters)
  BY QueueOf
<1>3. /\ \A x : In(x, own'[rl.o].q) => In(x, own[rl.o].q)
      /\ \A x : In(x, own[rl.o].q) /\ x # p => In(x, own'[rl.o].q)
      /\ \A x : Once(x, own[rl.o].q) => Once(x, own'[rl.o].q)
      /\ Once(p, own[rl.o].q) => ~In(p, own'[rl.o].q)
  BY <1>2, LeftOver
<1>4. InQueue'
  BY <1>1, <1>3 DEF QueueInv, InQueue
<1>5. OneDrain'
  <2>1. \A o \in Owners : ~In("drain", own'[o].q)
    BY <1>3 DEF QueueInv, OneDrain
  <2> QED
    BY <2>1 DEF OneDrain, In, Once
<1>6. DrainWaitsForQueued'
  BY <1>1 DEF QueueInv, DrainWaitsForQueued, Gone
<1> QED
  BY <1>4, <1>5, <1>6 DEF QueueInv, Behind, NoneLeft

LEMMA ReloadQueues ==
    ASSUME IInv, IInv', QueueInv, ReloadOwner', Next,
           ~(\E c \in Clients : Request(c) \/ \E a \in Agents : GetOwner(c, a)),
           ~(\E o \in Owners : Task(o))
    PROVE  QueueInv'
<1>0. \A d \in Clients : d # "task" /\ d # "drain" /\ (cl[d].pc # "idle" => cl[d].o \in Owners)
  BY OwnerOf, AgentOwnerAssumption
<1>1. ASSUME own' = own, reg' = reg, cl' = cl, late' = late,
             \/ rl'.pc = rl.pc
             \/ rl.pc # "wait" /\ rl'.pc \notin {"wait", "unregister"},
             rl'.pc = rl.pc => rl'.o = rl.o
      PROVE  QueueInv'
  BY <1>1, QueuesRest DEF Gone, GoneAfter
<1>2. ASSUME NEW a \in Agents, EditDisk(a) \/ AddExisting(a) \/ AddSkipped(a) PROVE QueueInv'
  <2>1. rl'.pc = rl.pc /\ rl'.o = rl.o
    BY <1>2 DEF EditDisk, AddExisting, AddSkipped, IInv, TypeOK, ReloadType
  <2>2. own' = own /\ reg' = reg /\ cl' = cl /\ late' = late
    BY <1>2 DEF EditDisk, AddExisting, AddSkipped, maps
  <2> QED
    BY <1>1, <2>1, <2>2
<1>3. ASSUME NEW a \in Agents, OpenFails(a) PROVE QueueInv'
  BY <1>1, <1>3 DEF OpenFails, Failed, NoReload, maps
<1>4. CASE ReloadStart
  <2>1. rl'.pc = "add" /\ rl.pc = "idle"
    BY <1>4 DEF ReloadStart, NoReload
  <2> QED
    BY <1>1, <1>4, <2>1 DEF ReloadStart, maps
<1>5. CASE ReloadDone
  <2>1. rl'.pc = "idle" /\ rl.pc = "remove"
    BY <1>5 DEF ReloadDone, NoReload
  <2> QED
    BY <1>1, <1>5, <2>1 DEF ReloadDone, maps
<1>6. CASE RemoveStart \/ RemoveToken \/ InsertRoute
  <2>1. rl.pc \in {"add", "untoken", "route"} /\ rl'.pc \in {"remove", "token"}
    BY <1>6 DEF RemoveStart, RemoveToken, InsertRoute, GoTo, IInv, TypeOK, ReloadType
  <2> QED
    BY <1>1, <1>6, <2>1 DEF RemoveStart, RemoveToken, InsertRoute, maps
<1>7. CASE PublishBundle
  <2>1. rl.pc = "token" /\ rl'.pc = "add"
    BY <1>7 DEF PublishBundle, NextAgent, IInv, TypeOK, ReloadType
  <2>2. \A o \in Owners : own'[o].q = own[o].q /\ own'[o].st = own[o].st
    BY <1>7 DEF PublishBundle, IInv, TypeOK, OwnerType
  <2> QED
    BY <1>0, <1>7, <2>1, <2>2, QueuesRest DEF PublishBundle, Gone, GoneAfter
<1>8. ASSUME NEW a \in Agents, OpenOwner(a) PROVE QueueInv'
  <2>1. rl.pc = "add" /\ rl'.pc = "assemble" /\ reg' = reg /\ cl' = cl /\ late' = late
    BY <1>8 DEF OpenOwner, maps, IInv, TypeOK, ReloadType
  <2>2. made + 1 \in Owners /\ made \in Nat
    BY <1>8, AgentOwnerAssumption DEF OpenOwner, IInv, TypeOK, Owners
  <2>3. \A c \in Clients : cl[c].o # made + 1
    BY <2>2 DEF IInv, TypeOK, RequestType
  <2>4. /\ own'[made + 1].q = <<>>
        /\ \A p \in Owners \ {made + 1} : own'[p] = own[p]
    BY <1>8, <2>2 DEF OpenOwner, NewOwner, IInv, TypeOK
  <2>5. ~In("drain", own'[made + 1].q)
    BY <2>4 DEF In
  <2> QED
    BY <1>0, <2>1, <2>3, <2>4, <2>5, QueuesRest DEF Gone, GoneAfter
<1>9. CASE Assemble
  <2>1. rl.pc = "assemble" /\ rl.o \in Owners /\ reg' = reg /\ cl' = cl /\ late' = late
    BY <1>9, AtHand DEF Assemble, maps, IInv, RouteInv
  <2>2. rl'.pc \in {"insert", "idle"}
    BY <1>9 DEF Assemble, GoTo, Failed, NoReload, IInv, TypeOK, ReloadType
  <2>3. /\ \A o \in Owners : own'[o].q = own[o].q
        /\ \A o \in Owners \ {rl.o} : own'[o].st = own[o].st
    <3>1. own' = [own EXCEPT ![rl.o].task = "idle"] \/ own' = [own EXCEPT ![rl.o].st = "draining"]
      BY <1>9 DEF Assemble, SetState
    <3>2. CASE own' = [own EXCEPT ![rl.o].task = "idle"]
      BY <2>1, <3>2 DEF IInv, TypeOK, OwnerType
    <3>3. CASE own' = [own EXCEPT ![rl.o].st = "draining"]
      BY <2>1, <3>3 DEF IInv, TypeOK, OwnerType
    <3> QED
      BY <3>1, <3>2, <3>3
  <2>4. \A c \in Clients : cl[c].o # rl.o
    BY <2>1 DEF IInv, RouteInv, Building
  <2> QED
    BY <1>0, <2>1, <2>2, <2>3, <2>4, QueuesRest DEF Gone, GoneAfter
<1>10. CASE InsertBundle
  <2>1. rl.pc = "insert" /\ rl.o \in Owners /\ rl.agent \in Agents /\ cl' = cl /\ late' = late
    BY <1>10, AtHand DEF InsertBundle, IInv, RouteInv
  <2>2. \A c \in Clients : cl[c].o # rl.o
    BY <2>1 DEF IInv, RouteInv, Building
  <2>3. CASE reg[rl.agent] = 0
    <3>1. own' = own /\ reg' = [reg EXCEPT ![rl.agent] = rl.o] /\ rl'.pc = "route"
      BY <1>10, <2>3 DEF InsertBundle, GoTo, IInv, TypeOK, ReloadType
    <3>2. \A a \in Agents : reg'[a] = reg[a] \/ reg[a] = 0
      BY <2>3, <3>1 DEF IInv, TypeOK
    <3>3. ASSUME NEW o \in Owners, GoneAfter(o) PROVE Gone(o)
      BY <3>1, <3>2, <3>3 DEF Gone, GoneAfter, Owners
    <3> QED
      BY <1>0, <2>1, <3>1, <3>3, QueuesRest
  <2>4. CASE reg[rl.agent] # 0
    <3>1. Drained(rl.o) /\ reg' = reg /\ rl'.pc = "idle"
      BY <1>10, <2>4 DEF InsertBundle, Failed, NoReload
    <3>2. /\ own'[rl.o].q = Without(own[rl.o].q, "task")
          /\ \A o \in Owners \ {rl.o} : own'[o] = own[o]
      BY <2>1, <3>1 DEF Drained, IInv, TypeOK, OwnerType
    <3>3. ~In("drain", own'[rl.o].q)
      BY <2>1, <3>2, QueueOf, LeftOver DEF QueueInv, OneDrain
    <3> QED
      BY <1>0, <2>1, <2>2, <3>1, <3>2, <3>3, QueuesRest DEF Gone, GoneAfter
  <2> QED
    BY <2>3, <2>4
<1>11. ASSUME NEW a \in Agents, RemoveAgent(a) PROVE QueueInv'
  <2>1. rl.pc = "remove" /\ reg' = reg /\ cl' = cl /\ late' = late
    BY <1>11 DEF RemoveAgent, maps
  <2>2. rl'.pc \in {"idle", "join"}
    <3>1. rl' = NoReload \/ rl' = [rl EXCEPT !.pc = "join", !.agent = a, !.o = reg[a]]
      BY <1>11 DEF RemoveAgent, Failed
    <3>2. NoReload.pc = "idle"
      BY DEF NoReload
    <3>3. [rl EXCEPT !.pc = "join", !.agent = a, !.o = reg[a]].pc = "join"
      BY DEF IInv, TypeOK, ReloadType
    <3> QED
      BY <3>1, <3>2, <3>3
  <2>3. /\ \A o \in Owners : own'[o].q = own[o].q
        /\ \A o \in Owners \ {reg[a]} : own'[o].st = own[o].st
    <3>1. own' = own \/ own' = [own EXCEPT ![reg[a]].st = "draining"]
      BY <1>11 DEF RemoveAgent, BeginDraining
    <3>2. CASE own' = [own EXCEPT ![reg[a]].st = "draining"]
      BY <3>2 DEF IInv, TypeOK, OwnerType
    <3> QED
      BY <3>1, <3>2
  <2> QED
    BY <1>0, <2>1, <2>2, <2>3, QueuesRest DEF Gone, GoneAfter
<1>12. CASE JoinTasks
  <2> DEFINE w == Without(own[rl.o].q, "task")
  <2>1. /\ rl.pc = "join" /\ rl.o \in Owners /\ reg' = reg /\ cl' = cl
        /\ late' = late \cup Missed(rl.o) /\ rl'.pc = "wait" /\ rl'.o = rl.o
    BY <1>12, AtHand DEF JoinTasks, GoTo, maps, IInv, RouteInv, TypeOK, ReloadType
  <2>2. /\ own'[rl.o].q = Append(w, "drain")
        /\ \A o \in Owners \ {rl.o} : own'[o] = own[o]
        /\ \A o \in Owners : own'[o].st = own[o].st
    BY <1>12, <2>1 DEF JoinTasks, IInv, TypeOK, OwnerType
  <2>3. /\ w \in Seq(Waiters) /\ ~In("drain", w) /\ Once("drain", w)
        /\ \A x : In(x, own[rl.o].q) /\ x # "task" => In(x, w)
    BY <2>1, QueueOf, WithoutIs, LeftOver DEF QueueInv, OneDrain
  <2> HIDE DEF w
  <2>4. /\ Once("drain", own'[rl.o].q)
        /\ \A x : In(x, own[rl.o].q) /\ x # "task" => In(x, own'[rl.o].q)
        /\ \A x : x # "drain" => BeforeDrain(x, own'[rl.o].q)
    <3>1. "drain" \in Waiters
      BY DEF Waiters
    <3> QED
      BY <2>2, <2>3, <3>1, Appended
  <2>5. InQueue'
    BY <1>0, <2>1, <2>2, <2>4 DEF QueueInv, InQueue
  <2>6. OneDrain'
    BY <2>1, <2>2, <2>4 DEF QueueInv, OneDrain
  <2>7. Behind'
    BY <1>0, <2>1, <2>4 DEF Behind, Missed
  <2>8. NoneLeft' /\ DrainWaitsForQueued'
    BY <1>0, <2>1, <2>2 DEF QueueInv, NoneLeft, DrainWaitsForQueued, Gone
  <2> QED
    BY <2>5, <2>6, <2>7, <2>8 DEF QueueInv
<1>13. CASE TaskPanicked
  <2>1. /\ rl.pc = "join" /\ rl.o \in Owners /\ reg' = reg /\ cl' = cl /\ late' = late
        /\ rl'.pc = "idle" /\ reg[rl.agent] = rl.o /\ rl.agent \in Agents
    BY <1>13, AtHand DEF TaskPanicked, Failed, NoReload, maps, IInv, RouteInv, Removing
  <2>2. /\ own'[rl.o].q = Without(own[rl.o].q, "task")
        /\ \A o \in Owners \ {rl.o} : own'[o] = own[o]
    BY <1>13, <2>1 DEF TaskPanicked, IInv, TypeOK, OwnerType
  <2> QED
    BY <1>0, <2>1, <2>2, LeavesQueue
<1>14. CASE DrainTimeout
  <2>1. /\ rl.pc = "wait" /\ rl.o \in Owners /\ reg' = reg /\ cl' = cl /\ late' = late
        /\ rl'.pc = "idle" /\ reg[rl.agent] = rl.o /\ rl.agent \in Agents
    BY <1>14, AtHand DEF DrainTimeout, Failed, NoReload, maps, IInv, RouteInv, Removing
  <2>2. /\ own'[rl.o].q = Without(own[rl.o].q, "drain")
        /\ \A o \in Owners \ {rl.o} : own'[o] = own[o]
    BY <1>14, <2>1 DEF DrainTimeout, LeaveQueue, IInv, TypeOK, OwnerType
  <2> QED
    BY <1>0, <2>1, <2>2, LeavesQueue
<1>15. CASE DrainDone
  <2>1. /\ rl.pc = "wait" /\ rl.o \in Owners /\ reg' = reg /\ cl' = cl /\ late' = late
        /\ rl'.pc = "unregister" /\ rl'.o = rl.o /\ reg[rl.agent] = rl.o /\ rl.agent \in Agents
    BY <1>15, AtHand DEF DrainDone, GoTo, IInv, RouteInv, Removing, TypeOK, ReloadType
  <2>2. /\ own'[rl.o].q = Without(own[rl.o].q, "drain")
        /\ \A o \in Owners \ {rl.o} : own'[o] = own[o]
    BY <1>15, <2>1 DEF DrainDone, LeaveQueue, IInv, TypeOK, OwnerType
  <2>3. \A c \in Clients \ late : cl[c].o = rl.o => ~Inside(c)
    <3> SUFFICES ASSUME NEW c \in Clients \ late, cl[c].o = rl.o, cl[c].pc = "queued" PROVE FALSE
      BY <2>1 DEF QueueInv, Behind, Inside
    <3>1. own[rl.o].q # <<>> /\ Head(own[rl.o].q) = "drain" /\ own[rl.o].q \in Seq(Waiters)
      BY <1>15, <2>1, QueueOf DEF DrainDone, AtWork
    <3>2. In(c, own[rl.o].q) /\ BeforeDrain(c, own[rl.o].q)
      BY <2>1 DEF QueueInv, InQueue, Behind
    <3>3. Len(own[rl.o].q) \in Nat /\ 1 \in 1..Len(own[rl.o].q) /\ own[rl.o].q[1] = "drain"
      BY <3>1
    <3> QED
      BY <3>2, <3>3 DEF In, BeforeDrain
  <2>4. InQueue' /\ OneDrain' /\ DrainWaitsForQueued'
    BY <1>0, <2>1, <2>2, LeavesQueue
  <2>5. Behind' /\ NoneLeft'
    BY <2>1, <2>3 DEF Behind, NoneLeft, Inside
  <2> QED
    BY <2>4, <2>5 DEF QueueInv
<1>16. CASE Unregister
  <2>1. /\ rl.pc = "unregister" /\ rl'.pc = "untoken" /\ own' = own /\ cl' = cl /\ late' = late
        /\ reg[rl.agent] = rl.o
        /\ \A a \in Agents : reg'[a] = reg[a] \/ a = rl.agent
    BY <1>16 DEF Unregister, GoTo, IInv, RouteInv, Removing, TypeOK, ReloadType
  <2>2. InQueue' /\ OneDrain' /\ Behind' /\ NoneLeft'
    BY <2>1 DEF QueueInv, InQueue, OneDrain, Behind, NoneLeft
  <2>3. DrainWaitsForQueued'
    <3> SUFFICES ASSUME NEW c \in Clients, Inside(c), own[cl[c].o].st \notin {"unborn", "ready"},
                        cl[c].o \notin {reg'[a] : a \in Agents}
                 PROVE  c \in late
      BY <2>1 DEF DrainWaitsForQueued, Gone, Inside
    <3>1. CASE cl[c].o = rl.o
      BY <2>1, <3>1 DEF QueueInv, NoneLeft
    <3>2. CASE cl[c].o # rl.o
      BY <2>1, <3>2 DEF QueueInv, DrainWaitsForQueued, Gone, Inside
    <3> QED
      BY <3>1, <3>2
  <2> QED
    BY <2>2, <2>3 DEF QueueInv
<1>17. CASE CallerGone
  <2>1. rl.pc # "route" /\ rl'.pc = "idle" /\ reg' = reg /\ cl' = cl /\ late' = late
    BY <1>17 DEF CallerGone, Failed, NoReload, maps
  <2>2. CASE rl.pc \in {"assemble", "insert"}
    <3>1. rl.o \in Owners /\ \A c \in Clients : cl[c].o # rl.o
      BY <2>2, AtHand DEF IInv, RouteInv, Building
    <3>2. own' = [own EXCEPT ![rl.o] = [own[rl.o] EXCEPT !.st = "dropped", !.task = "off", !.q = <<>>]]
      BY <1>17, <2>2 DEF CallerGone
    <3>3. own'[rl.o].q = <<>> /\ \A o \in Owners \ {rl.o} : own'[o] = own[o]
      BY <3>1, <3>2 DEF IInv, TypeOK, OwnerType
    <3>4. ~In("drain", own'[rl.o].q)
      BY <3>3 DEF In
    <3> QED
      BY <1>0, <2>1, <2>2, <3>1, <3>3, <3>4, QueuesRest DEF Gone, GoneAfter
  <2>3. CASE rl.pc = "wait"
    <3>1. rl.o \in Owners /\ rl.agent \in Agents /\ reg[rl.agent] = rl.o
      BY <2>3, AtHand DEF IInv, RouteInv, Removing
    <3>2. LeaveQueue(rl.o, own[rl.o].st)
      BY <1>17, <2>3 DEF CallerGone
    <3>3. /\ own'[rl.o].q = Without(own[rl.o].q, "drain")
          /\ \A o \in Owners \ {rl.o} : own'[o] = own[o]
      BY <3>1, <3>2 DEF LeaveQueue, IInv, TypeOK, OwnerType
    <3> QED
      BY <1>0, <2>1, <2>3, <3>1, <3>3, LeavesQueue
  <2>4. CASE rl.pc \notin {"assemble", "insert", "wait"}
    BY <1>1, <1>17, <2>1, <2>4 DEF CallerGone
  <2> QED
    BY <2>2, <2>3, <2>4
<1>18. CASE Restart
  <2>1. rl'.pc = "idle" /\ \A c \in Clients : cl'[c].pc = "idle"
    BY <1>18 DEF Restart, NoReload, NoRequest
  <2>2. \A o \in Owners : own'[o].q = <<>>
    BY <1>18 DEF Restart, Runtimes, NewOwner, NoOwner
  <2>3. OneDrain'
    BY <2>2 DEF OneDrain, In, Once
  <2> QED
    BY <2>1, <2>3 DEF QueueInv, InQueue, Behind, NoneLeft, DrainWaitsForQueued
<1> QED
  BY <1>2, <1>3, <1>4, <1>5, <1>6, <1>7, <1>8, <1>9, <1>10, <1>11, <1>12, <1>13, <1>14, <1>15,
     <1>16, <1>17, <1>18
     DEF Next, Reload, ReloadFault

LEMMA QueueStep ==
    ASSUME IInv, IInv', QueueInv, [Next]_vars
    PROVE  QueueInv'
<1>1. CASE UNCHANGED vars
  <2>1. own' = own /\ reg' = reg /\ cl' = cl /\ late' = late /\ rl' = rl
    BY <1>1 DEF vars, maps
  <2> QED
    BY <2>1, QueuesRest DEF Gone, GoneAfter
<1>2. ASSUME NEW c \in Clients, NEW a \in Agents, GetOwner(c, a) PROVE QueueInv'
  <2>1. own' = own /\ reg' = reg /\ rl' = rl /\ late' = late
    BY <1>2 DEF GetOwner, maps
  <2>2. \A d \in Clients : cl'[d].pc \in {"checked", "queued"} => cl'[d] = cl[d]
    BY <1>2 DEF GetOwner, IInv, TypeOK
  <2> QED
    BY <2>1, <2>2, QueuesRest DEF Gone, GoneAfter
<1>3. ASSUME NEW c \in Clients, Request(c) PROVE QueueInv'
  BY <1>3, CheckQueues, LockQueues, EndQueues DEF Request
<1>4. ASSUME NEW o \in Owners, Task(o) PROVE QueueInv'
  BY <1>4, TaskQueues
<1>5. IInv' => ReloadOwner'
  BY DEF IInv, RouteInv
<1> QED
  BY <1>1, <1>2, <1>3, <1>4, <1>5, ReloadQueues

\* A removal waits for every operation that had joined the queue of the connection
\* when its tasks were joined: after it, only one that had passed the check of the
\* state and not yet asked for the mutex can still work on the database.
THEOREM DrainIsComplete == Spec => []DrainWaitsForQueued
<1>1. Init => QueueInv
  BY QueueInit
<1>2. IInv /\ IInv' /\ QueueInv /\ [Next]_vars => QueueInv'
  BY QueueStep
<1>3. QueueInv => DrainWaitsForQueued
  BY DEF QueueInv
<1> QED
  BY <1>1, <1>2, <1>3, Inductive, PTL DEF Spec

-----------------------------------------------------------------------------
(* The tokens that the bearer check accepts.                                 *)

Adding == {"add", "assemble", "insert", "route", "token"}
Dropping == {"remove", "join", "wait", "unregister", "untoken"}
Between == {"unregister", "untoken"}

\* What the loops of a reload have left to do: first the agents of the file it
\* read, then agents that are not in it; a token is added when the agent is routed.
ToDo ==
    /\ rl.ok => rl.pc = "idle"
    /\ rl.pc \in Adding => \A a \in rl.todo : rl.want[a] # 0
    /\ rl.pc \in Dropping => \A a \in rl.todo : rl.want[a] = 0
    /\ rl.pc \in (Adding \cup Dropping) \ {"add", "remove"} => rl.agent \in rl.todo
    /\ rl.pc = "token" => disp[rl.agent] # 0

\* An agent has one token at most, and none while the dispatcher does not know it
\* or its bundle is being added.
OneToken == \A a \in Agents : \A t, u \in tmap[a] : t = u
KnownToken ==
    \A a \in Agents : disp[a] = 0 /\ ~(rl.pc \in Between /\ a = rl.agent) => tmap[a] = {}
NoTokenYet == rl.pc \in Adding \ {"add"} => tmap[rl.agent] = {}

\* An agent that a loop is done with has no token but that of the file.
TokensSet ==
    /\ rl.pc \in Adding =>
          \A a \in Agents \ rl.todo : rl.want[a] # 0 => tmap[a] \subseteq {rl.want[a]}
    /\ rl.pc \in Dropping =>
          \A a \in Agents \ rl.todo : tmap[a] \subseteq {rl.want[a]}

TokenInv ==
    /\ ToDo
    /\ ~torn => OneToken /\ KnownToken /\ NoTokenYet /\ TokensSet /\ NoStaleToken


LEMMA TokenInit == Init => TokenInv
<1> SUFFICES ASSUME Init PROVE TokenInv
  OBVIOUS
<1>1. rl.pc = "idle" /\ rl.ok = FALSE
  BY DEF Init, NoReload
<1>2. ASSUME NEW a \in Agents
      PROVE  /\ tmap[a] = {disk[a]} \ {0}
             /\ disp[a] = 0 => disk[a] = 0
  BY <1>2 DEF Init, DiskTokens, Numberings, Named
<1>3. ToDo
  BY <1>1 DEF ToDo, Adding, Dropping
<1>4. OneToken /\ KnownToken
  BY <1>2 DEF OneToken, KnownToken
<1>5. NoTokenYet /\ TokensSet /\ NoStaleToken
  BY <1>1 DEF NoTokenYet, TokensSet, NoStaleToken, Adding, Dropping
<1> QED
  BY <1>3, <1>4, <1>5 DEF TokenInv

\* The fields of a reload after its steps.
LEMMA ReloadAfter ==
    ASSUME TypeOK
    PROVE  /\ \A l : GoTo(l) => /\ rl'.pc = l /\ rl'.todo = rl.todo /\ rl'.agent = rl.agent
                                /\ rl'.want = rl.want /\ rl'.ok = rl.ok
           /\ Failed => rl'.pc = "idle" /\ rl'.ok = FALSE
           /\ NextAgent => /\ rl'.pc = "add" /\ rl'.todo = rl.todo \ {rl.agent}
                           /\ rl'.want = rl.want /\ rl'.ok = rl.ok
<1>1. rl \in ReloadType
  BY DEF TypeOK
<1>2. ASSUME NEW l, GoTo(l)
      PROVE  /\ rl'.pc = l /\ rl'.todo = rl.todo /\ rl'.agent = rl.agent
             /\ rl'.want = rl.want /\ rl'.ok = rl.ok
  BY <1>1, <1>2 DEF GoTo, ReloadType
<1>3. Failed => rl'.pc = "idle" /\ rl'.ok = FALSE
  BY DEF Failed, NoReload
<1>4. ASSUME NextAgent
      PROVE  /\ rl'.pc = "add" /\ rl'.todo = rl.todo \ {rl.agent}
             /\ rl'.want = rl.want /\ rl'.ok = rl.ok
  BY <1>1, <1>4 DEF NextAgent, ReloadType
<1> QED
  BY <1>2, <1>3, <1>4

\* A step of the reload that ends it, and changes no token.
LEMMA TokensLeft ==
    ASSUME TokenInv, UNCHANGED <<tmap, disp>>, rl'.pc = "idle", rl'.ok = FALSE,
           torn \/ rl.pc \in Between => torn'
    PROVE  TokenInv'
  BY DEF TokenInv, ToDo, OneToken, KnownToken, NoTokenYet, TokensSet, NoStaleToken, Adding,
         Dropping

\* A step within the handling of one agent that changes no token.
LEMMA TokensKept ==
    ASSUME TokenInv, UNCHANGED <<tmap, torn>>, rl.pc # "idle", rl'.ok = rl.ok,
           rl'.todo = rl.todo, rl'.want = rl.want, rl'.agent = rl.agent,
           \/ rl.pc \in Adding \ {"add"} /\ rl'.pc \in Adding \ {"add"}
           \/ rl.pc \in Dropping \ {"remove"} /\ rl'.pc \in Dropping \ {"remove"},
           rl.pc \in Between => rl'.pc \in Between,
           rl'.pc = "token" => disp'[rl.agent] # 0,
           \A a \in Agents : disp'[a] = 0 => disp[a] = 0 \/ (rl'.pc \in Between /\ a = rl.agent)
    PROVE  TokenInv'
  BY DEF TokenInv, ToDo, OneToken, KnownToken, NoTokenYet, TokensSet, NoStaleToken, Adding,
         Dropping, Between

LEMMA TokenStep == TypeOK /\ RouteInv /\ TokenInv /\ [Next]_vars => TokenInv'
<1> SUFFICES ASSUME TypeOK, RouteInv, TokenInv, [Next]_vars PROVE TokenInv'
  OBVIOUS
<1> USE DEF Between
<1>0. /\ ToDo
      /\ rl \in ReloadType
      /\ disp \in [Agents -> 0..made]
      /\ rl.todo \subseteq Agents
      /\ tmap \in [Agents -> SUBSET (0..MaxTokens)]
  BY DEF TokenInv, TypeOK, ReloadType
<1>1. CASE UNCHANGED <<disp, tmap, rl, torn>>
  BY <1>1 DEF TokenInv, ToDo, OneToken, KnownToken, NoTokenYet, TokensSet, NoStaleToken
<1>2. CASE ReloadStart
  <2>1. /\ rl.pc = "idle" /\ rl'.pc = "add" /\ rl'.todo = Named /\ rl'.want = disk /\ ~rl'.ok
        /\ UNCHANGED <<tmap, disp, torn>>
    BY <1>2 DEF ReloadStart, NoReload, maps
  <2>2. \A a \in Agents : a \notin Named => disk[a] = 0
    BY DEF Named
  <2>3. \A a \in Named : disk[a] # 0
    BY DEF Named
  <2> QED
    BY <2>1, <2>2, <2>3 DEF TokenInv, ToDo, OneToken, KnownToken, NoTokenYet, TokensSet,
       NoStaleToken, Adding, Dropping
<1>3. CASE \E a \in Agents : AddExisting(a)
  <2>1. PICK a \in Agents : AddExisting(a)
    BY <1>3
  <2>2. /\ rl.pc = "add" /\ rl'.pc = "add" /\ rl'.todo = rl.todo \ {a} /\ rl'.want = rl.want
        /\ rl'.ok = rl.ok /\ a \in rl.todo /\ disp[a] # 0 /\ UNCHANGED <<disp, torn>>
    BY <1>0, <2>1 DEF AddExisting, ReloadType
  <2>3. /\ \A b \in Agents \ {a} : tmap'[b] = tmap[b]
        /\ OneToken => \A t \in tmap'[a] : t = rl.want[a]
    <3>1. CASE tmap[a] = {} /\ UNCHANGED tmap
      BY <3>1
    <3>2. CASE \E t \in tmap[a] : tmap' = [tmap EXCEPT ![a] = (@ \ {t}) \cup {rl.want[a]}]
      <4>1. PICK t \in tmap[a] : tmap' = [tmap EXCEPT ![a] = (tmap[a] \ {t}) \cup {rl.want[a]}]
        BY <3>2
      <4>2. /\ \A b \in Agents \ {a} : tmap'[b] = tmap[b]
            /\ tmap'[a] = (tmap[a] \ {t}) \cup {rl.want[a]}
        BY <1>0, <4>1
      <4> QED
        BY <4>2 DEF OneToken
    <3> QED
      BY <2>1, <3>1, <3>2 DEF AddExisting
  <2>4. ToDo'
    BY <1>0, <2>2 DEF ToDo, Adding, Dropping
  <2>5. ASSUME ~torn, OneToken, KnownToken, TokensSet
        PROVE  OneToken' /\ KnownToken' /\ NoTokenYet' /\ TokensSet' /\ NoStaleToken'
    <3>1. OneToken'
      BY <2>3, <2>5 DEF OneToken
    <3>2. KnownToken' /\ NoTokenYet'
      BY <2>2, <2>3, <2>5 DEF KnownToken, NoTokenYet
    <3>3. TokensSet'
      BY <2>2, <2>3, <2>5 DEF TokensSet, Adding, Dropping
    <3>4. NoStaleToken'
      BY <1>0, <2>2 DEF NoStaleToken, ToDo
    <3> QED
      BY <3>1, <3>2, <3>3, <3>4
  <2> QED
    BY <2>2, <2>4, <2>5 DEF TokenInv
<1>4. CASE \E a \in Agents : AddSkipped(a)
  <2>1. PICK a \in Agents : AddSkipped(a)
    BY <1>4
  <2>2. /\ rl.pc = "add" /\ rl'.pc = "add" /\ rl'.todo = rl.todo \ {a} /\ rl'.want = rl.want
        /\ rl'.ok = rl.ok /\ disp[a] = 0 /\ UNCHANGED <<disp, tmap, torn>>
    BY <1>0, <2>1 DEF AddSkipped, ReloadType, maps
  <2>3. ToDo'
    BY <1>0, <2>2 DEF ToDo, Adding, Dropping
  <2> QED
    BY <2>2, <2>3 DEF TokenInv, ToDo, OneToken, KnownToken, NoTokenYet, TokensSet,
       NoStaleToken, Adding, Dropping
<1>5. CASE \E a \in Agents : OpenOwner(a)
  <2>1. PICK a \in Agents : OpenOwner(a)
    BY <1>5
  <2>2. /\ rl.pc = "add" /\ rl'.pc = "assemble" /\ rl'.todo = rl.todo /\ rl'.want = rl.want
        /\ rl'.ok = rl.ok /\ rl'.agent = a /\ a \in rl.todo /\ disp[a] = 0
        /\ UNCHANGED <<disp, tmap, torn>>
    BY <1>0, <2>1 DEF OpenOwner, ReloadType, maps
  <2>3. ToDo'
    BY <1>0, <2>2 DEF ToDo, Adding, Dropping
  <2> QED
    BY <2>2, <2>3 DEF TokenInv, OneToken, KnownToken, NoTokenYet, TokensSet,
       NoStaleToken, Adding, Dropping, ToDo
<1>6. CASE Failed /\ UNCHANGED <<tmap, disp>> /\ (torn \/ rl.pc \in Between => torn')
  BY <1>6, ReloadAfter, TokensLeft
<1>7. CASE Assemble
  <2>1. rl.pc = "assemble" /\ UNCHANGED <<tmap, disp, torn>> /\ (GoTo("insert") \/ Failed)
    BY <1>7 DEF Assemble, maps
  <2>2. CASE GoTo("insert")
    BY <2>1, <2>2, ReloadAfter, TokensKept DEF Adding
  <2> QED
    BY <1>6, <2>1, <2>2
<1>8. CASE InsertBundle
  <2>1. rl.pc = "insert" /\ UNCHANGED torn
    BY <1>8 DEF InsertBundle
  <2>2. CASE GoTo("route") /\ UNCHANGED <<disp, tmap>>
    BY <2>1, <2>2, ReloadAfter, TokensKept DEF Adding
  <2>3. CASE /\ tmap' = [tmap EXCEPT ![rl.agent] = {}] /\ disp' = [disp EXCEPT ![rl.agent] = 0]
             /\ Failed
    <3>1. rl'.pc = "idle" /\ rl'.ok = FALSE
      BY <2>3, ReloadAfter
    <3>2. \A b \in Agents : \/ tmap'[b] = tmap[b] /\ disp'[b] = disp[b]
                            \/ tmap'[b] = {}
      BY <1>0, <2>3
    <3>3. ToDo'
      BY <3>1 DEF ToDo, Adding, Dropping
    <3>4. ASSUME ~torn, OneToken, KnownToken
          PROVE  OneToken' /\ KnownToken' /\ NoTokenYet' /\ TokensSet' /\ NoStaleToken'
      <4>1. OneToken' /\ KnownToken'
        BY <2>1, <3>2, <3>4 DEF OneToken, KnownToken
      <4> QED
        BY <3>1, <4>1 DEF NoTokenYet, TokensSet, NoStaleToken, Adding, Dropping
    <3> QED
      BY <2>1, <3>3, <3>4 DEF TokenInv
  <2> QED
    BY <1>8, <2>2, <2>3 DEF InsertBundle
<1>9. CASE InsertRoute
  <2>1. /\ rl.pc = "route" /\ UNCHANGED <<tmap, torn>> /\ GoTo("token")
        /\ disp' = [disp EXCEPT ![rl.agent] = rl.o]
    BY <1>9 DEF InsertRoute
  <2>2. rl.o # 0
    BY <2>1 DEF RouteInv, ReloadOwner
  <2>3. /\ \A a \in Agents : disp'[a] = 0 => disp[a] = 0
        /\ disp'[rl.agent] # 0
    BY <1>0, <2>1, <2>2 DEF RouteInv, ReloadOwner
  <2> QED
    BY <2>1, <2>3, ReloadAfter, TokensKept DEF Adding
<1>10. CASE PublishBundle
  <2>1. /\ rl.pc = "token" /\ tmap' = [tmap EXCEPT ![rl.agent] = @ \cup {rl.want[rl.agent]}]
        /\ NextAgent /\ UNCHANGED <<disp, torn>>
    BY <1>10 DEF PublishBundle
  <2>2. /\ rl'.pc = "add" /\ rl'.todo = rl.todo \ {rl.agent} /\ rl'.want = rl.want
        /\ rl'.ok = rl.ok
    BY <2>1, ReloadAfter
  <2>3. rl.agent \in Agents /\ rl.agent \in rl.todo
    BY <1>0, <2>1 DEF ToDo, Adding
  <2>4. /\ \A b \in Agents \ {rl.agent} : tmap'[b] = tmap[b]
        /\ tmap'[rl.agent] = tmap[rl.agent] \cup {rl.want[rl.agent]}
    BY <1>0, <2>1, <2>3
  <2>5. ToDo'
    BY <1>0, <2>1, <2>2 DEF ToDo, Adding, Dropping
  <2>6. ASSUME ~torn, OneToken, KnownToken, NoTokenYet, TokensSet
        PROVE  OneToken' /\ KnownToken' /\ NoTokenYet' /\ TokensSet' /\ NoStaleToken'
    <3>1. tmap[rl.agent] = {} /\ tmap'[rl.agent] = {rl.want[rl.agent]}
      BY <2>1, <2>4, <2>6 DEF NoTokenYet, Adding
    <3>2. disp[rl.agent] # 0
      BY <1>0, <2>1 DEF ToDo
    <3>3. OneToken' /\ KnownToken'
      BY <2>1, <2>2, <2>4, <2>6, <3>1, <3>2 DEF OneToken, KnownToken
    <3>4. NoTokenYet' /\ NoStaleToken'
      BY <1>0, <2>1, <2>2 DEF NoTokenYet, NoStaleToken, ToDo
    <3>5. TokensSet'
      BY <2>1, <2>2, <2>4, <2>6, <3>1 DEF TokensSet, Adding, Dropping
    <3> QED
      BY <3>3, <3>4, <3>5
  <2> QED
    BY <2>1, <2>5, <2>6 DEF TokenInv
<1>11. CASE RemoveStart
  <2>1. /\ rl.pc = "add" /\ rl.todo = {} /\ rl'.pc = "remove" /\ rl'.want = rl.want
        /\ rl'.ok = rl.ok /\ rl'.todo = {a \in Agents : disp[a] # 0 /\ rl.want[a] = 0}
        /\ UNCHANGED <<tmap, disp, torn>>
    BY <1>0, <1>11 DEF RemoveStart, ReloadType, maps
  <2>2. ToDo'
    BY <1>0, <2>1 DEF ToDo, Adding, Dropping
  <2>3. ASSUME ~torn, OneToken, KnownToken, TokensSet
        PROVE  OneToken' /\ KnownToken' /\ NoTokenYet' /\ TokensSet' /\ NoStaleToken'
    <3>1. OneToken' /\ KnownToken' /\ NoTokenYet'
      BY <2>1, <2>3 DEF OneToken, KnownToken, NoTokenYet, Adding
    <3>2. \A a \in Agents \ rl'.todo : tmap[a] \subseteq {rl.want[a]}
      BY <2>1, <2>3 DEF KnownToken, TokensSet, Adding
    <3>3. TokensSet' /\ NoStaleToken'
      BY <1>0, <2>1, <3>2 DEF TokensSet, NoStaleToken, Adding, Dropping, ToDo
    <3> QED
      BY <3>1, <3>3
  <2> QED
    BY <2>1, <2>2, <2>3 DEF TokenInv
<1>12. CASE \E a \in Agents : RemoveAgent(a)
  <2>1. PICK a \in Agents : RemoveAgent(a)
    BY <1>12
  <2>2. rl.pc = "remove" /\ a \in rl.todo /\ UNCHANGED <<tmap, disp, torn>>
    BY <2>1 DEF RemoveAgent, maps
  <2>3. CASE Failed
    BY <1>6, <2>2, <2>3
  <2>4. CASE rl' = [rl EXCEPT !.pc = "join", !.agent = a, !.o = reg[a]]
    <3>1. /\ rl'.pc = "join" /\ rl'.agent = a /\ rl'.todo = rl.todo /\ rl'.want = rl.want
          /\ rl'.ok = rl.ok
      BY <1>0, <2>4 DEF ReloadType
    <3> QED
      BY <1>0, <2>2, <3>1 DEF TokenInv, ToDo, OneToken, KnownToken, NoTokenYet, TokensSet,
         NoStaleToken, Adding, Dropping
  <2> QED
    BY <2>1, <2>3, <2>4 DEF RemoveAgent
<1>13. CASE JoinTasks
  <2>1. rl.pc = "join" /\ GoTo("wait") /\ UNCHANGED <<tmap, disp, torn>>
    BY <1>13 DEF JoinTasks, maps
  <2> QED
    BY <2>1, ReloadAfter, TokensKept DEF Dropping
<1>14. CASE DrainDone
  <2>1. /\ rl.pc = "wait" /\ GoTo("unregister") /\ UNCHANGED <<tmap, torn>>
        /\ disp' = [disp EXCEPT ![rl.agent] = 0]
    BY <1>14 DEF DrainDone
  <2>2. \A a \in Agents : disp'[a] = 0 => disp[a] = 0 \/ a = rl.agent
    BY <1>0, <2>1
  <2> QED
    BY <2>1, <2>2, ReloadAfter, TokensKept DEF Dropping
<1>15. CASE Unregister
  <2>1. rl.pc = "unregister" /\ GoTo("untoken") /\ UNCHANGED <<tmap, disp, torn>>
    BY <1>15 DEF Unregister
  <2> QED
    BY <2>1, ReloadAfter, TokensKept DEF Dropping
<1>16. CASE RemoveToken
  <2>1. /\ rl.pc = "untoken" /\ tmap' = [tmap EXCEPT ![rl.agent] = {}] /\ UNCHANGED <<disp, torn>>
        /\ rl'.pc = "remove" /\ rl'.todo = rl.todo \ {rl.agent} /\ rl'.want = rl.want
        /\ rl'.ok = rl.ok
    BY <1>0, <1>16 DEF RemoveToken, ReloadType
  <2>2. /\ \A b \in Agents \ {rl.agent} : tmap'[b] = tmap[b]
        /\ rl.agent \in Agents => tmap'[rl.agent] = {}
    BY <1>0, <2>1
  <2>3. ToDo'
    BY <1>0, <2>1 DEF ToDo, Adding, Dropping
  <2>4. ASSUME ~torn, OneToken, KnownToken, TokensSet
        PROVE  OneToken' /\ KnownToken' /\ NoTokenYet' /\ TokensSet' /\ NoStaleToken'
    <3>1. OneToken' /\ KnownToken' /\ NoTokenYet'
      BY <2>1, <2>2, <2>4 DEF OneToken, KnownToken, NoTokenYet, Adding
    <3>2. TokensSet' /\ NoStaleToken'
      BY <1>0, <2>1, <2>2, <2>4 DEF TokensSet, NoStaleToken, Adding, Dropping, ToDo
    <3> QED
      BY <3>1, <3>2
  <2> QED
    BY <2>1, <2>3, <2>4 DEF TokenInv
<1>17. CASE ReloadDone
  <2>1. /\ rl.pc = "remove" /\ rl.todo = {} /\ rl'.pc = "idle" /\ rl'.want = rl.want
        /\ UNCHANGED <<tmap, disp, torn>>
    BY <1>17 DEF ReloadDone, NoReload, maps
  <2>2. ToDo'
    BY <2>1 DEF ToDo, Adding, Dropping
  <2> QED
    BY <2>1, <2>2 DEF TokenInv, OneToken, KnownToken, NoTokenYet, TokensSet, NoStaleToken, Adding,
       Dropping
<1>18. CASE CallerGone
  <2>1. torn' = (torn \/ rl.pc \in {"token", "unregister", "untoken"}) /\ Failed
        /\ UNCHANGED <<tmap, disp>>
    BY <1>18 DEF CallerGone, maps
  <2> QED
    BY <1>6, <2>1
<1>19. CASE Restart
  <2>1. rl'.pc = "idle" /\ rl'.ok = FALSE
    BY <1>19 DEF Restart, NoReload
  <2>2. ASSUME NEW a \in Agents
        PROVE  /\ tmap'[a] = {disk[a]} \ {0}
               /\ disp'[a] = 0 => disk[a] = 0
    BY <1>19, <2>2 DEF Restart, DiskTokens, Numberings, Named
  <2>3. OneToken' /\ KnownToken'
    BY <2>2 DEF OneToken, KnownToken
  <2> QED
    BY <2>1, <2>3 DEF TokenInv, ToDo, NoTokenYet, TokensSet, NoStaleToken, Adding, Dropping
<1>20. CASE TaskPanicked \/ DrainTimeout \/ \E a \in Agents : OpenFails(a)
  <2>1. Failed /\ UNCHANGED <<tmap, disp, torn>> /\ rl.pc \notin Between
    BY <1>20 DEF TaskPanicked, DrainTimeout, OpenFails, maps
  <2> QED
    BY <1>6, <2>1
<1>21. CASE \/ \E c \in Clients : Request(c) \/ \E a \in Agents : GetOwner(c, a)
            \/ \E o \in Owners : Task(o)
            \/ \E a \in Agents : EditDisk(a)
  BY <1>1, <1>21 DEF Request, Task, GetOwner, CheckState, LockConnection, EndOperation,
     TaskChecks, TaskLocks, TaskEnds, EditDisk, maps
<1> QED
  BY <1>1, <1>2, <1>3, <1>4, <1>5, <1>7, <1>8, <1>9, <1>10, <1>11, <1>12, <1>13, <1>14, <1>15,
     <1>16, <1>17, <1>18, <1>19, <1>20, <1>21 DEF Next, Reload, ReloadFault, vars

\* After a reload that answered OK the bearer check accepts the tokens of the file
\* it read and no others, whatever failed, panicked or was dropped before it; only
\* a reload dropped between two of the maps it changes is excepted.
THEOREM StaleTokensAreRefused == Spec => []NoStaleToken
<1>1. Init => TokenInv
  BY TokenInit
<1>2. IInv /\ TokenInv /\ [Next]_vars => TokenInv'
  BY TokenStep DEF IInv
<1>3. IInv => TypeOK /\ RouteInv
  BY DEF IInv
<1>4. TokenInv => NoStaleToken
  BY DEF TokenInv, NoStaleToken
<1> QED
  BY <1>1, <1>2, <1>3, <1>4, Inductive, PTL DEF Spec
===============================================================================
