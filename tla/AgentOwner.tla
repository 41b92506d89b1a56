------------------------------ MODULE AgentOwner ------------------------------
(***************************************************************************)
(* The database owners of the aggregator (crates/right/src/db_owner.rs)    *)
(* and the /reload handler that adds, rotates and removes agents           *)
(* (crates/right/src/internal_api.rs).  An owner checks its state before   *)
(* it waits for the connection mutex, whose waiters are served in order;   *)
(* a removal drains the owner, then takes it out of the three routing maps *)
(* one after the other.  The handler's future is dropped when its caller   *)
(* goes away, at whatever wait it has reached.                             *)
(***************************************************************************)
EXTENDS Naturals, Sequences, FiniteSets

CONSTANTS Agents,     \* names of agents
          Clients,    \* requests that may run at the same time
          MaxTokens,  \* bearer tokens an agent may have had
          MaxOwners,  \* bound on the owners ever opened
          MaxEdits,   \* bound on the changes of the token file
          MaxFaults   \* bound on failures, lost callers and restarts

ASSUME AgentOwnerAssumption ==
    /\ IsFiniteSet(Agents) /\ Agents # {}
    /\ Clients \cap {"task", "drain"} = {}
    /\ {MaxTokens, MaxOwners, MaxEdits, MaxFaults} \subseteq Nat /\ MaxTokens # 0

VARIABLES disk,    \* the token of each agent in the token file, 0 for none
          reg,     \* DbOwnerRegistry.bundles: the owner of an agent, or 0
          disp,    \* ToolDispatcher.agents: the owner of an agent, or 0
          tmap,    \* the tokens the bearer check accepts, per agent
          own,     \* the owners and their bundles
          made,    \* how many owners were opened
          rl,      \* the reload in progress
          cl,      \* the requests in progress
          late,    \* history: requests that missed the queue a drain waited for
          torn,    \* history: a reload was dropped between two routing maps
          edits, faults

vars == <<disk, reg, disp, tmap, own, made, rl, cl, late, torn, edits, faults>>
maps == <<reg, disp, tmap>>

Owners == 1..MaxOwners
NoAgent == "none"
States == {"unborn", "ready", "draining", "failed", "dropped"}
NoOwner == [agent |-> NoAgent, st |-> "unborn", pub |-> FALSE, q |-> <<>>, task |-> "off"]
NewOwner(a, p) == [agent |-> a, st |-> "ready", pub |-> p, q |-> <<>>, task |-> "idle"]
NoReload == [pc |-> "idle", todo |-> {}, agent |-> NoAgent, o |-> 0,
             want |-> [a \in Agents |-> 0], ok |-> FALSE]
NoRequest == [pc |-> "idle", o |-> 0]

Named == {a \in Agents : disk[a] # 0}
\* The start of the process: one published runtime per agent of the file, built
\* before the sockets are bound; the owners are numbered from n + 1 on.
Numberings(n) ==
    {r \in [Agents -> {0} \cup (n + 1)..(n + Cardinality(Named))] :
        /\ \A a \in Agents : r[a] = 0 <=> a \notin Named
        /\ \A a, b \in Named : r[a] = r[b] => a = b}
Runtimes(r) ==
    [o \in Owners |-> IF \E a \in Agents : r[a] = o
                      THEN NewOwner(CHOOSE a \in Agents : r[a] = o, TRUE)
                      ELSE NoOwner]
DiskTokens == [a \in Agents |-> {disk[a]} \ {0}]

Init ==
    /\ disk \in [Agents -> 0..1] /\ made = Cardinality(Named) /\ made <= MaxOwners
    /\ reg \in Numberings(0) /\ disp = reg /\ tmap = DiskTokens /\ own = Runtimes(reg)
    /\ rl = NoReload /\ cl = [c \in Clients |-> NoRequest]
    /\ late = {} /\ torn = FALSE /\ edits = 0 /\ faults = 0

\* The queue without a waiter that gives up, who is in it once at most.
Without(q, p) ==
    IF \E i \in 1..Len(q) : q[i] = p
    THEN LET k == CHOOSE i \in 1..Len(q) : q[i] = p
         IN [i \in 1..(Len(q) - 1) |-> IF i < k THEN q[i] ELSE q[i + 1]]
    ELSE q

Charge == faults < MaxFaults /\ faults' = faults + 1
SetState(o, s) == own' = [own EXCEPT ![o].st = s]

----------------------------------------------------------------------------
(* Requests: they take the owner from a routing map, and may use it for      *)
(* several operations.                                                       *)

\* Through the registry (the internal API) or, with a token the bearer check
\* accepts, through the dispatcher (the tools of the agent).
GetOwner(c, a) ==
    /\ cl[c].pc = "idle"
    /\ \E o \in {reg[a], disp[a]} \ {0} :
          /\ \/ o = reg[a] /\ own[o].pub
             \/ o = disp[a] /\ tmap[a] # {}
          /\ cl' = [cl EXCEPT ![c] = [pc |-> "got", o |-> o]]
    /\ UNCHANGED <<disk, maps, own, made, rl, late, torn, edits, faults>>

\* mutant: the state is not read
CheckStateSkipped(c) ==
    /\ cl[c].pc = "got" /\ cl' = [cl EXCEPT ![c].pc = "checked"]
    /\ UNCHANGED <<disk, maps, own, made, rl, late, torn, edits, faults>>

\* with_connection reads the state, and only then asks for the mutex.
CheckState(c) ==
    /\ cl[c].pc = "got"
    /\ cl' = [cl EXCEPT ![c] = IF own[cl[c].o].st = "ready"
                               THEN [@ EXCEPT !.pc = "checked"] ELSE NoRequest]
    /\ UNCHANGED <<disk, maps, own, made, rl, late, torn, edits, faults>>

LockConnection(c) ==
    /\ cl[c].pc = "checked"
    /\ cl' = [cl EXCEPT ![c].pc = "queued"]
    /\ own' = [own EXCEPT ![cl[c].o].q = Append(@, c)]
    /\ UNCHANGED <<disk, maps, made, rl, late, torn, edits, faults>>

AtWork(p, o) == own[o].q # <<>> /\ Head(own[o].q) = p

\* The operation ends; the request goes on to its next one, or is answered.
EndOperation(c) ==
    /\ cl[c].pc = "queued" /\ AtWork(c, cl[c].o)
    /\ own' = [own EXCEPT ![cl[c].o].q = Tail(@)]
    /\ \E r \in {NoRequest, [cl[c] EXCEPT !.pc = "got"]} : cl' = [cl EXCEPT ![c] = r]
    /\ late' = late \ {c}
    /\ UNCHANGED <<disk, maps, made, rl, torn, edits, faults>>

\* A task of the bundle (the refresh scheduler, the reconciler) does the same.
TaskChecks(o) ==
    /\ own[o].task = "idle" /\ own[o].st = "ready"
    /\ own' = [own EXCEPT ![o].task = "checked"]
    /\ UNCHANGED <<disk, maps, made, rl, cl, late, torn, edits, faults>>

TaskLocks(o) ==
    /\ own[o].task = "checked"
    /\ own' = [own EXCEPT ![o] = [@ EXCEPT !.task = "queued", !.q = Append(own[o].q, "task")]]
    /\ UNCHANGED <<disk, maps, made, rl, cl, late, torn, edits, faults>>

TaskEnds(o) ==
    /\ own[o].task = "queued" /\ AtWork("task", o)
    /\ own' = [own EXCEPT ![o] = [@ EXCEPT !.task = "idle", !.q = Tail(own[o].q)]]
    /\ UNCHANGED <<disk, maps, made, rl, cl, late, torn, edits, faults>>

----------------------------------------------------------------------------
(* The token file, written by the command line, which then asks for a reload. *)

EditDisk(a) ==
    /\ edits < MaxEdits /\ edits' = edits + 1
    /\ \E t \in (0..MaxTokens) \ {disk[a]} : disk' = [disk EXCEPT ![a] = t]
    /\ UNCHANGED <<maps, own, made, rl, cl, late, torn, faults>>

----------------------------------------------------------------------------
(* handle_reload, one at a time.                                             *)

GoTo(l) == rl' = [rl EXCEPT !.pc = l]
Failed == rl' = NoReload
\* The next agent of the loop, or what follows it.
NextAgent == rl' = [rl EXCEPT !.pc = "add", !.todo = @ \ {rl.agent}, !.agent = NoAgent, !.o = 0]

ReloadStart ==
    /\ rl.pc = "idle"
    /\ rl' = [NoReload EXCEPT !.pc = "add", !.todo = Named, !.want = disk]
    /\ UNCHANGED <<disk, maps, own, made, cl, late, torn, edits, faults>>

\* mutant: the new token is added, the old one stays
AddExistingKeeps(a) ==
    /\ rl.pc = "add" /\ a \in rl.todo /\ disp[a] # 0
    /\ tmap' = [tmap EXCEPT ![a] = IF @ = {} THEN @ ELSE @ \cup {rl.want[a]}]
    /\ rl' = [rl EXCEPT !.todo = @ \ {a}]
    /\ UNCHANGED <<disk, reg, disp, own, made, cl, late, torn, edits, faults>>

\* An agent the dispatcher knows: its token is swapped when the file's differs.
AddExisting(a) ==
    /\ rl.pc = "add" /\ a \in rl.todo /\ disp[a] # 0
    /\ \/ /\ tmap[a] = {} /\ UNCHANGED tmap
       \/ \E t \in tmap[a] :
             tmap' = [tmap EXCEPT ![a] = (@ \ {t}) \cup {rl.want[a]}]
    /\ rl' = [rl EXCEPT !.todo = @ \ {a}]
    /\ UNCHANGED <<disk, reg, disp, own, made, cl, late, torn, edits, faults>>

\* The agent's directory is missing.
AddSkipped(a) ==
    /\ rl.pc = "add" /\ a \in rl.todo /\ disp[a] = 0 /\ Charge
    /\ rl' = [rl EXCEPT !.todo = @ \ {a}]
    /\ UNCHANGED <<disk, maps, own, made, cl, late, torn, edits>>

\* open_and_migrate: the owner becomes ready, or the reload fails.
OpenOwner(a) ==
    /\ rl.pc = "add" /\ a \in rl.todo /\ disp[a] = 0 /\ made < MaxOwners
    /\ made' = made + 1
    /\ own' = [own EXCEPT ![made + 1] = [NewOwner(a, FALSE) EXCEPT !.task = "off"]]
    /\ rl' = [rl EXCEPT !.pc = "assemble", !.agent = a, !.o = made + 1]
    /\ UNCHANGED <<disk, maps, cl, late, torn, edits, faults>>

OpenFails(a) ==
    /\ rl.pc = "add" /\ a \in rl.todo /\ disp[a] = 0 /\ Charge
    /\ Failed
    /\ UNCHANGED <<disk, maps, own, made, cl, late, torn, edits>>

\* assemble_initialized_runtime spawns the bundle's tasks; when it fails the
\* private bundle is drained.
Assemble ==
    /\ rl.pc = "assemble"
    /\ \/ /\ own' = [own EXCEPT ![rl.o].task = "idle"]
          /\ GoTo("insert") /\ UNCHANGED faults
       \/ Charge /\ SetState(rl.o, "draining") /\ Failed
    /\ UNCHANGED <<disk, maps, made, cl, late, torn, edits>>

Drained(o) == own' = [own EXCEPT ![o] = [@ EXCEPT !.st = "draining", !.task = "off",
                                                  !.q = Without(own[o].q, "task")]]

\* insert_bundle refuses an agent that is still registered.
InsertBundle ==
    /\ rl.pc = "insert"
    /\ IF reg[rl.agent] = 0
       THEN /\ reg' = [reg EXCEPT ![rl.agent] = rl.o]
            /\ GoTo("route") /\ UNCHANGED <<disp, own, tmap>>
       ELSE /\ Drained(rl.o) /\ tmap' = [tmap EXCEPT ![rl.agent] = {}]
            /\ disp' = [disp EXCEPT ![rl.agent] = 0]
            /\ Failed /\ UNCHANGED reg
    /\ UNCHANGED <<disk, made, cl, late, torn, edits, faults>>

InsertRoute ==
    /\ rl.pc = "route"
    /\ disp' = [disp EXCEPT ![rl.agent] = rl.o] /\ GoTo("token")
    /\ UNCHANGED <<disk, reg, tmap, own, made, cl, late, torn, edits, faults>>

\* mutant: the token is inserted, the bundle stays unpublished
PublishTokenOnly ==
    /\ rl.pc = "token"
    /\ tmap' = [tmap EXCEPT ![rl.agent] = @ \cup {rl.want[rl.agent]}]
    /\ NextAgent
    /\ UNCHANGED <<disk, reg, disp, own, made, cl, late, torn, edits, faults>>

PublishBundle ==
    /\ rl.pc = "token"
    /\ tmap' = [tmap EXCEPT ![rl.agent] = @ \cup {rl.want[rl.agent]}]
    /\ own' = [own EXCEPT ![rl.o].pub = TRUE]
    /\ NextAgent
    /\ UNCHANGED <<disk, reg, disp, made, cl, late, torn, edits, faults>>

\* The removals: what the dispatcher knows and the file does not.
RemoveStart ==
    /\ rl.pc = "add" /\ rl.todo = {}
    /\ rl' = [rl EXCEPT !.pc = "remove",
                        !.todo = {a \in Agents : disp[a] # 0 /\ rl.want[a] = 0}]
    /\ UNCHANGED <<disk, maps, own, made, cl, late, torn, edits, faults>>

BeginDraining(o) ==
    own' = IF own[o].st = "ready" THEN [own EXCEPT ![o].st = "draining"] ELSE own

RemoveAgent(a) ==
    /\ rl.pc = "remove" /\ a \in rl.todo
    /\ IF reg[a] = 0
       THEN Failed /\ UNCHANGED own
       ELSE /\ BeginDraining(reg[a])
            /\ rl' = [rl EXCEPT !.pc = "join", !.agent = a, !.o = reg[a]]
    /\ UNCHANGED <<disk, maps, made, cl, late, torn, edits, faults>>

\* drain: the tasks are aborted and joined, wherever they are; then the reload
\* waits for its turn at the connection mutex.
Missed(o) == {c \in Clients : cl[c].o = o /\ cl[c].pc = "checked"}
JoinTasks ==
    /\ rl.pc = "join"
    /\ own' = [own EXCEPT ![rl.o] =
                   [@ EXCEPT !.task = "off", !.q = Append(Without(own[rl.o].q, "task"), "drain")]]
    /\ late' = late \cup Missed(rl.o) /\ GoTo("wait")
    /\ UNCHANGED <<disk, maps, made, cl, torn, edits, faults>>

TaskPanicked ==
    /\ rl.pc = "join" /\ own[rl.o].task # "off" /\ Charge
    /\ own' = [own EXCEPT ![rl.o] = [@ EXCEPT !.st = "failed", !.task = "off",
                                               !.q = Without(own[rl.o].q, "task")]]
    /\ Failed
    /\ UNCHANGED <<disk, maps, made, cl, late, torn, edits>>

LeaveQueue(o, s) ==
    own' = [own EXCEPT ![o] = [@ EXCEPT !.st = s, !.q = Without(own[o].q, "drain")]]

DrainTimeout ==
    /\ rl.pc = "wait" /\ ~AtWork("drain", rl.o) /\ Charge
    /\ LeaveQueue(rl.o, "failed") /\ Failed
    /\ UNCHANGED <<disk, maps, made, cl, late, torn, edits>>

\* mutant: the removal does not wait for the connection mutex
DrainDoneAtOnce ==
    /\ rl.pc = "wait"
    /\ LeaveQueue(rl.o, own[rl.o].st)
    /\ disp' = [disp EXCEPT ![rl.agent] = 0]
    /\ GoTo("unregister")
    /\ UNCHANGED <<disk, reg, tmap, made, cl, late, torn, edits, faults>>

\* The owner is idle: the agent leaves the dispatcher, the registry, the tokens.
DrainDone ==
    /\ rl.pc = "wait" /\ AtWork("drain", rl.o)
    /\ LeaveQueue(rl.o, own[rl.o].st)
    /\ disp' = [disp EXCEPT ![rl.agent] = 0]
    /\ GoTo("unregister")
    /\ UNCHANGED <<disk, reg, tmap, made, cl, late, torn, edits, faults>>

Unregister ==
    /\ rl.pc = "unregister"
    /\ reg' = [reg EXCEPT ![rl.agent] = 0] /\ GoTo("untoken")
    /\ UNCHANGED <<disk, disp, tmap, own, made, cl, late, torn, edits, faults>>

RemoveToken ==
    /\ rl.pc = "untoken"
    /\ tmap' = [tmap EXCEPT ![rl.agent] = {}]
    /\ rl' = [rl EXCEPT !.pc = "remove", !.todo = @ \ {rl.agent}, !.agent = NoAgent, !.o = 0]
    /\ UNCHANGED <<disk, reg, disp, own, made, cl, late, torn, edits, faults>>

ReloadDone ==
    /\ rl.pc = "remove" /\ rl.todo = {}
    /\ rl' = [NoReload EXCEPT !.want = rl.want, !.ok = TRUE]
    /\ UNCHANGED <<disk, maps, own, made, cl, late, torn, edits, faults>>

\* The caller of /reload goes away: the handler is dropped where it waits.  A
\* bundle it had not registered goes with it; "route" is not a wait.
CallerGone ==
    /\ rl.pc \notin {"idle", "route"} /\ Charge
    /\ IF rl.pc \in {"assemble", "insert"}
       THEN own' = [own EXCEPT ![rl.o] = [@ EXCEPT !.st = "dropped", !.task = "off", !.q = <<>>]]
       ELSE IF rl.pc = "wait" THEN LeaveQueue(rl.o, own[rl.o].st) ELSE UNCHANGED own
    /\ torn' = (torn \/ rl.pc \in {"token", "unregister", "untoken"})
    /\ Failed
    /\ UNCHANGED <<disk, maps, made, cl, late, edits>>

\* The process ends and starts again from the token file.
Restart ==
    /\ Charge /\ made + Cardinality(Named) <= MaxOwners
    /\ reg' \in Numberings(made) /\ disp' = reg' /\ tmap' = DiskTokens
    /\ own' = Runtimes(reg') /\ made' = made + Cardinality(Named)
    /\ rl' = NoReload /\ cl' = [c \in Clients |-> NoRequest]
    /\ late' = {} /\ torn' = FALSE
    /\ UNCHANGED <<disk, edits>>

Reload ==
    \/ ReloadStart \/ RemoveStart \/ Assemble \/ InsertBundle \/ InsertRoute
    \/ PublishBundle \/ JoinTasks \/ DrainDone \/ Unregister \/ RemoveToken \/ ReloadDone
    \/ \E a \in Agents : AddExisting(a) \/ OpenOwner(a) \/ RemoveAgent(a)
ReloadFault ==
    \/ TaskPanicked \/ DrainTimeout \/ CallerGone \/ Restart
    \/ \E a \in Agents : AddSkipped(a) \/ OpenFails(a)
Request(c) == CheckState(c) \/ LockConnection(c) \/ EndOperation(c)
Task(o) == TaskChecks(o) \/ TaskLocks(o) \/ TaskEnds(o)

Next ==
    \/ Reload \/ ReloadFault
    \/ \E c \in Clients : Request(c) \/ \E a \in Agents : GetOwner(c, a)
    \/ \E o \in Owners : Task(o)
    \/ \E a \in Agents : EditDisk(a)

Spec == Init /\ [][Next]_vars

\* The handlers are scheduled; an operation on the database ends; the command
\* line asks for a reload after it wrote the file, so reloads never cease.
FairSpec ==
    /\ Spec /\ WF_vars(Reload)
    /\ \A c \in Clients : WF_vars(Request(c))
    /\ \A o \in Owners : WF_vars(TaskLocks(o) \/ TaskEnds(o))

----------------------------------------------------------------------------
(* Properties.                                                              *)

Waiters == Clients \cup {"task", "drain"}
OwnerType ==
    [agent : Agents \cup {NoAgent}, st : States, pub : BOOLEAN, q : Seq(Waiters),
     task : {"off", "idle", "checked", "queued"}]
ReloadType ==
    [pc : {"idle", "add", "assemble", "insert", "route", "token", "remove", "join", "wait",
           "unregister", "untoken"},
     todo : SUBSET Agents, agent : Agents \cup {NoAgent}, o : 0..made,
     want : [Agents -> 0..MaxTokens], ok : BOOLEAN]
RequestType == [pc : {"idle", "got", "checked", "queued"}, o : 0..made]

\* Every variable keeps its type, and the maps and requests only name owners that
\* were opened.
TypeOK ==
    /\ disk \in [Agents -> 0..MaxTokens] /\ made \in 0..MaxOwners
    /\ reg \in [Agents -> 0..made] /\ disp \in [Agents -> 0..made]
    /\ tmap \in [Agents -> SUBSET (0..MaxTokens)]
    /\ own \in [Owners -> OwnerType] /\ rl \in ReloadType
    /\ cl \in [Clients -> RequestType] /\ late \subseteq Clients
    /\ torn \in BOOLEAN /\ {edits, faults} \subseteq Nat

\* The owners implement the tenures of SoleOwner: an owner's tenure is open from
\* the moment open_and_migrate stores Ready until begin_draining, mark_failed or
\* the end of its bundle; an operation is admitted when with_connection has read
\* Ready, and stays admitted until it released the mutex.
OpenOf(a) == {o \in Owners : own[o].agent = a /\ own[o].st = "ready"}
Tenures == INSTANCE SoleOwner WITH
    open <- [a \in Agents |-> IF OpenOf(a) = {} THEN 0 ELSE CHOOSE o \in OpenOf(a) : TRUE],
    inside <- [c \in Clients |-> IF cl[c].pc \in {"checked", "queued"} THEN cl[c].o ELSE 0],
    last <- made
ImplementsSoleOwner == Tenures!Spec

\* An agent never has two owners that accept operations (the registry refuses a
\* second bundle, and a removed owner has left Ready before it leaves the maps).
OneReadyOwner == \A a \in Agents : \A o, p \in OpenOf(a) : o = p

\* A removed owner's operations: only one that was between the check of the state
\* and the queue of the mutex when wait_for_idle joined it can still be at work.
\* Everything that had joined the queue was waited for.
Gone(o) == own[o].st \notin {"unborn", "ready"} /\ o \notin {reg[a] : a \in Agents}
DrainWaitsForQueued ==
    \A c \in Clients : cl[c].pc \in {"checked", "queued"} /\ Gone(cl[c].o) => c \in late

\* After a reload that answered OK, the bearer check accepts no token but those
\* of the file it read, unless an earlier reload was dropped between two maps.
NoStaleToken ==
    rl.ok /\ ~torn => \A a \in Agents : tmap[a] \subseteq {rl.want[a]}

\* Without a fault the routing settles on the token file: whoever is in it is
\* served by a published, ready owner under its own token, and nobody else is.
Served(a) ==
    /\ reg[a] # 0 /\ disp[a] = reg[a] /\ own[reg[a]].pub /\ own[reg[a]].st = "ready"
    /\ tmap[a] = {disk[a]}
Unknown(a) == reg[a] = 0 /\ disp[a] = 0 /\ tmap[a] = {}
SettlesOnDisk ==
    \/ <>(faults > 0)
    \/ <>[](\A a \in Agents : IF disk[a] = 0 THEN Unknown(a) ELSE Served(a))
===============================================================================
