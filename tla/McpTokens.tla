------------------------------ MODULE McpTokens ------------------------------
(***************************************************************************)
(* The credentials of one external MCP server of one agent: the durable    *)
(* row of mcp_servers, the proxy backend that carries the access token,    *)
(* the dashboard handlers of the internal API (crates/right/src/           *)
(* internal_api.rs), the refresh scheduler (right-mcp/src/refresh.rs), the *)
(* start-up reconnect task (right-mcp/src/reconnect.rs) and the restart    *)
(* that rebuilds all of it from the row (runtime_builder.rs).              *)
(*                                                                         *)
(* An access token is [g, k]: the k-th one issued under the g-th dashboard *)
(* authorisation; a refresh token is [g, r]: the r-th one the provider     *)
(* rotated to.  Locks, timers and entries are per server, so one server is *)
(* modelled.  The retries inside do_refresh_cancellable are one attempt,   *)
(* and the lock waiters are served in any order.                           *)
(***************************************************************************)
EXTENDS Integers, Sequences, FiniteSets

CONSTANTS Reqs,          \* dashboard requests, each handled once
          Ops,           \* the operations a request may ask for
          MaxRefreshes,  \* bound on the token endpoint's positive answers
          MaxFailures,   \* bound on its transient failures and revocations
          MaxRestarts,   \* bound on Aggregator restarts
          Rotates        \* the provider replaces a refresh token it accepts

ASSUME McpTokensAssumption ==
    /\ IsFiniteSet(Reqs) /\ "free" \notin Reqs
    /\ Ops \subseteq {"token", "addOauth", "addPlain", "remove", "headers"}
    /\ Rotates \in BOOLEAN /\ {MaxRefreshes, MaxFailures, MaxRestarts} \subseteq Nat

VARIABLES row,      \* the mcp_servers row, or NoRow
          up,       \* the Aggregator runs
          proxies,  \* the backend the registry routes to, 0 if none
          tok,      \* the access token each backend carries
          lock,     \* the holder of the server's mutation lock
          chan,     \* the refresh channel
          sched,    \* what the scheduler loop is persisting, or Idle
          ent,      \* the scheduler's entry of the server
          timer,    \* the server has a refresh timer
          gen,      \* the generation of the entry
          tasks,    \* the in-flight refreshes
          rec,      \* the start-up reconnect task
          hs,       \* the progress of each request
          prov,     \* the provider's side of the grants
          budget,   \* failures and restarts that may still happen
          last,     \* history: the last mutation committed
          raced,    \* history: a token request overlapped another mutation
          late,     \* history: the reconnect task acted on after a request
          lost      \* history: why the entry was given up

vars == <<row, up, proxies, tok, lock, chan, sched, ent, timer, gen,
          tasks, rec, hs, prov, budget, last, raced, late, lost>>
sVars == <<sched, ent, timer, gen, tasks>>
hVars == <<last, raced, late, lost>>

NoRow == [kind |-> "absent"]
None == [g |-> -1, k |-> 0]
Idle == [do |-> "idle"]
NoEnt == [g |-> -1, b |-> 0, ref |-> None]
Off == [st |-> "off"]
Free == "free"

Grants == 0 .. Cardinality(Reqs)
Tokens == [g : Grants, k : 0 .. MaxRefreshes]
Backends == 1 .. 1 + Cardinality(Reqs)
Handlers == Reqs
Waiting == {q \in Reqs : hs[q].pc \in {"cancel", "lock"}}
Active == {q \in Reqs : hs[q].pc \notin {"new", "done"}}

\* The rows the three writers of credentials.rs leave.
OauthRow(acc, ref) == [kind |-> "oauth", ep |-> TRUE, acc |-> acc, ref |-> ref]
BareRow(kind) == [kind |-> kind, ep |-> FALSE, acc |-> None, ref |-> None]

\* db_set_oauth_state and db_update_oauth_token: both fail without a row; the
\* second one changes the tokens of the row whatever its auth_type is.
DbSetOauth(r, acc, ref) == IF r = NoRow THEN r ELSE OauthRow(acc, ref)
DbUpdateToken(r, acc, ref) ==
    IF r = NoRow THEN r ELSE [r EXCEPT !.acc = acc, !.ref = ref]

\* The provider accepts a refresh token that is the current one of its grant.
Live(ref) == ref # None /\ ref.g \notin prov.dead /\ ref.k = prov.cur[ref.g]

Init ==
    /\ row \in {NoRow, OauthRow([g |-> 0, k |-> 0], [g |-> 0, k |-> 0])}
    /\ up = FALSE /\ proxies = 0
    /\ tok = [b \in Backends |-> None]
    /\ lock = Free /\ chan = <<>>
    /\ sched = Idle /\ ent = NoEnt /\ timer = FALSE /\ gen = 0 /\ tasks = {}
    /\ rec = Off
    /\ hs = [q \in Reqs |-> [pc |-> "new"]]
    /\ prov = [cur |-> [g \in Grants |-> 0], iss |-> [g \in Grants |-> 0],
               dead |-> {}, n |-> 0, grants |-> 0]
    /\ budget = [fail |-> MaxFailures, restart |-> MaxRestarts]
    /\ last = [op |-> "none", g |-> 0] /\ raced = FALSE /\ late = FALSE
    /\ lost = {}

\* Backends are numbered: the one of the start-up, then those of the requests.
Made == Cardinality({q \in Reqs : hs[q].pc = "done" /\ hs[q].made})
NewBackend == 2 + Made

Done(q, made) == hs' = [hs EXCEPT ![q] = [pc |-> "done", made |-> made]]
Push(m) == chan' = Append(chan, m)
EntryMsg(b, ref) == [do |-> "new", b |-> b, ref |-> ref]

----------------------------------------------------------------------------
(* Start-up: assemble_initialized_runtime.                                  *)

\* The runtime is built from the row.  A live OAuth row whose refresh is not
\* due is handed to the scheduler, one that is due to a reconnect task; an
\* OAuth row without endpoint data waits for the user.
AssembleRuntime(due) ==
    /\ ~up
    /\ up' = TRUE
    /\ proxies' = IF row = NoRow THEN 0 ELSE 1 + Made
    /\ tok' = IF row = NoRow THEN tok ELSE [tok EXCEPT ![1 + Made] = row.acc]
    /\ LET oauth == row # NoRow /\ row.kind = "oauth"
       IN /\ chan' = IF oauth /\ row.ep /\ ~due
                     THEN <<EntryMsg(1 + Made, row.ref)>> ELSE <<>>
          /\ rec' = IF oauth /\ row.ep /\ due
                    THEN [st |-> "run", cancelled |-> FALSE, b |-> 1 + Made,
                          ref |-> row.ref, acc |-> None]
                    ELSE Off
    /\ UNCHANGED <<row, lock, sVars, hs, prov, budget, hVars>>

\* The process ends: everything but the row is lost and requests are cut off.
Restart ==
    /\ up /\ budget.restart > 0
    /\ budget' = [budget EXCEPT !.restart = @ - 1]
    /\ up' = FALSE /\ proxies' = 0 /\ lock' = Free /\ chan' = <<>>
    /\ tok' = [b \in Backends |-> None]
    /\ sched' = Idle /\ ent' = NoEnt /\ timer' = FALSE /\ gen' = 0 /\ tasks' = {}
    /\ rec' = Off
    /\ hs' = [q \in Reqs |-> IF q \in Active THEN [pc |-> "done", made |-> FALSE]
                                             ELSE hs[q]]
    /\ lost' = {}
    /\ UNCHANGED <<row, prov, last, raced, late>>

----------------------------------------------------------------------------
(* The dashboard handlers.                                                  *)

CancelRec(r) == IF r = Off THEN Off ELSE [r EXCEPT !.cancelled = TRUE]

\* Every handler asks the scheduler to forget the server and waits for the
\* answer before it takes the mutation lock.  remove and set-headers cancel
\* the reconnect task first, and set-token has already read the backend.
Begin(q, op) ==
    /\ up /\ hs[q].pc = "new"
    /\ op = "token" => proxies # 0
    /\ hs' = [hs EXCEPT ![q] = [pc |-> "cancel", op |-> op, b |-> proxies,
                                over |-> FALSE]]
    /\ Push([do |-> "remove", q |-> q])
    /\ rec' = IF op \in {"remove", "headers"} THEN CancelRec(rec) ELSE rec
    /\ UNCHANGED <<row, up, proxies, tok, lock, sVars, prov, budget, hVars>>

\* lock_mcp_mutation.  A request was overtaken when a set-token reached the
\* scheduler after the request had cancelled the refresh.
TakeLock(q) ==
    /\ up /\ lock = Free /\ hs[q].pc = "lock"
    /\ lock' = q
    /\ hs' = [hs EXCEPT ![q].pc = "held"]
    /\ raced' = (raced \/ hs[q].over)
    /\ UNCHANGED <<row, up, proxies, tok, chan, sVars, rec, prov, budget,
                   last, late, lost>>

Holds(q, op) == up /\ lock = q /\ hs[q].pc = "held" /\ hs[q].op \in op

\* handle_set_token: the token of the backend it read at the start, then the
\* row; a row that is gone ends the request with an error.
SetTokenStore(q) ==
    /\ Holds(q, {"token"})
    /\ LET g == prov.grants + 1
           t == [g |-> g, k |-> 0]
       IN /\ prov' = [prov EXCEPT !.grants = g]
          /\ tok' = [tok EXCEPT ![hs[q].b] = t]
          /\ row' = DbSetOauth(row, t, t)
          /\ raced' = (raced \/ hs[q].b # proxies)
          /\ IF row = NoRow
             THEN /\ Done(q, FALSE) /\ lock' = Free /\ UNCHANGED last
             ELSE /\ hs' = [hs EXCEPT ![q].pc = "stored"]
                  /\ last' = [op |-> "token", g |-> g] /\ UNCHANGED lock
    /\ UNCHANGED <<up, proxies, chan, sVars, rec, budget, late, lost>>

\* Then it cancels the reconnect task and hands the entry to the scheduler.
SetTokenNotify(q) ==
    /\ up /\ lock = q /\ hs[q].pc = "stored"
    /\ rec' = CancelRec(rec)
    /\ Push(EntryMsg(hs[q].b, row.ref))
    /\ hs' = [p \in Reqs |-> CASE p = q -> [hs[p] EXCEPT !.pc = "probe"]
                                [] p \in Waiting -> [hs[p] EXCEPT !.over = TRUE]
                                [] OTHER -> hs[p]]
    /\ UNCHANGED <<row, up, proxies, tok, lock, sVars, prov, budget, hVars>>

\* The readiness probe ends, with the session restored or without.
SetTokenProbe(q) ==
    /\ up /\ lock = q /\ hs[q].pc = "probe"
    /\ lock' = Free /\ Done(q, FALSE)
    /\ UNCHANGED <<row, up, proxies, tok, chan, sVars, rec, prov, budget, hVars>>

\* handle_mcp_add of an OAuth server without token: registered unconnected.
AddOauth(q) ==
    /\ Holds(q, {"addOauth"})
    /\ rec' = CancelRec(rec)
    /\ row' = BareRow("oauth") /\ last' = [op |-> "addOauth", g |-> 0]
    /\ proxies' = NewBackend /\ tok' = [tok EXCEPT ![NewBackend] = None]
    /\ lock' = Free /\ Done(q, TRUE)
    /\ UNCHANGED <<up, chan, sVars, prov, budget, raced, late, lost>>

\* handle_mcp_add of any other server: the row is replaced before the
\* connection is tried, the backend is published after it succeeded.
AddReplace(q) ==
    /\ Holds(q, {"addPlain"})
    /\ rec' = CancelRec(rec)
    /\ row' = BareRow("plain") /\ last' = [op |-> "addPlain", g |-> 0]
    /\ hs' = [hs EXCEPT ![q] = [pc |-> "connect", op |-> "addPlain",
                                prev |-> row, prevLast |-> last]]
    /\ UNCHANGED <<up, proxies, tok, lock, chan, sVars, prov, budget,
                   raced, late, lost>>

AddPublish(q) ==
    /\ up /\ lock = q /\ hs[q].pc = "connect"
    /\ proxies' = NewBackend /\ tok' = [tok EXCEPT ![NewBackend] = None]
    /\ lock' = Free /\ Done(q, TRUE)
    /\ UNCHANGED <<row, up, chan, sVars, rec, prov, budget, hVars>>

\* rollback_mcp_add restores the row; neither the entry the request cancelled
\* nor the reconnect task come back.
AddRollback(q) ==
    /\ up /\ lock = q /\ hs[q].pc = "connect"
    /\ row' = hs[q].prev /\ last' = hs[q].prevLast
    /\ lost' = lost \cup {"rollback"}
    /\ lock' = Free /\ Done(q, FALSE)
    /\ UNCHANGED <<up, proxies, tok, chan, sVars, rec, prov, budget,
                   raced, late>>

\* handle_mcp_remove.
Remove(q) ==
    /\ Holds(q, {"remove"})
    /\ proxies' = 0 /\ row' = NoRow /\ last' = [op |-> "remove", g |-> 0]
    /\ lock' = Free /\ Done(q, FALSE)
    /\ UNCHANGED <<up, tok, chan, sVars, rec, prov, budget, raced, late, lost>>

\* handle_mcp_set_headers: only a server the registry knows, with a row.
SetHeaders(q) ==
    /\ Holds(q, {"headers"})
    /\ lock' = Free
    /\ IF proxies = 0 \/ row = NoRow
       THEN Done(q, FALSE) /\ UNCHANGED <<row, last, proxies, tok>>
       ELSE /\ row' = BareRow("headers") /\ last' = [op |-> "headers", g |-> 0]
            /\ proxies' = NewBackend /\ tok' = [tok EXCEPT ![NewBackend] = None]
            /\ Done(q, TRUE)
    /\ UNCHANGED <<up, chan, sVars, rec, prov, budget, raced, late, lost>>

----------------------------------------------------------------------------
(* The refresh scheduler: one loop, three arms.                             *)

Cancelled(ts) == {[t EXCEPT !.cancelled = TRUE] : t \in ts}

\* mutant: the removal is acknowledged before it is done
ForgetServerLater ==
    /\ up /\ sched = Idle /\ chan # <<>> /\ Head(chan).do = "remove"
    /\ chan' = Tail(chan)
    /\ LET q == Head(chan).q
       IN hs' = IF hs[q].pc = "cancel" THEN [hs EXCEPT ![q].pc = "lock"] ELSE hs
    /\ UNCHANGED <<row, up, proxies, tok, lock, sVars, rec, prov, budget, hVars>>

\* RemoveServer / RemoveServerAndWait: the generation is not bumped.
ForgetServer ==
    /\ up /\ sched = Idle /\ chan # <<>> /\ Head(chan).do = "remove"
    /\ chan' = Tail(chan)
    /\ ent' = NoEnt /\ timer' = FALSE /\ tasks' = Cancelled(tasks)
    /\ LET q == Head(chan).q
       IN hs' = IF hs[q].pc = "cancel" THEN [hs EXCEPT ![q].pc = "lock"] ELSE hs
    /\ lost' = {}
    /\ UNCHANGED <<row, up, proxies, tok, lock, sched, gen, rec, prov, budget,
                   last, raced, late>>

\* NewEntry: the timer is set and the token of the backend is read at once ...
TakeEntry ==
    /\ up /\ sched = Idle /\ chan # <<>> /\ Head(chan).do = "new"
    /\ chan' = Tail(chan)
    /\ timer' = TRUE
    /\ sched' = [do |-> "entry", b |-> Head(chan).b, ref |-> Head(chan).ref,
                 acc |-> tok[Head(chan).b]]
    /\ UNCHANGED <<row, up, proxies, tok, lock, ent, gen, tasks, rec, hs,
                   prov, budget, hVars>>

\* ... the row is written under the mutation lock, then the entry is replaced
\* and whatever refresh is in flight superseded.
StoreEntry ==
    /\ up /\ sched.do = "entry" /\ lock = Free
    /\ row' = DbSetOauth(row, sched.acc, sched.ref)
    /\ ent' = [g |-> sched.ref.g, b |-> sched.b, ref |-> sched.ref]
    /\ gen' = gen + 1
    /\ tasks' = Cancelled(tasks)
    /\ sched' = Idle /\ lost' = {}
    /\ UNCHANGED <<up, proxies, tok, lock, chan, timer, rec, hs, prov, budget,
                   last, raced, late>>

\* The timer fires: a refresh of the entry's refresh token is spawned.
TimerFires ==
    /\ up /\ sched = Idle /\ timer
    /\ timer' = FALSE
    /\ tasks' = IF ent = NoEnt THEN tasks
                ELSE tasks \cup {[gen |-> gen, ref |-> ent.ref, cancelled |-> FALSE,
                                  st |-> "run"]}
    /\ UNCHANGED <<row, up, proxies, tok, lock, chan, sched, ent, gen, rec,
                   hs, prov, budget, hVars>>

\* The token endpoint accepts the refresh token, or does not know it.
Answers(ref) ==
    IF Live(ref)
    THEN prov.n < MaxRefreshes
    ELSE TRUE
Issued(ref) == [g |-> ref.g, k |-> prov.iss[ref.g] + 1]
NextRef(ref) == IF Rotates THEN [ref EXCEPT !.k = ref.k + 1] ELSE ref
Charge(ref) ==
    prov' = IF Live(ref)
            THEN [prov EXCEPT !.n = @ + 1,
                              !.iss = [g \in Grants |-> IF g = ref.g THEN prov.iss[g] + 1
                                                                     ELSE prov.iss[g]],
                              !.cur = [g \in Grants |-> IF g = ref.g THEN NextRef(ref).k
                                                                     ELSE prov.cur[g]]]
            ELSE prov

\* do_refresh_cancellable gets its answer.  A task that was cancelled may
\* still return it: the answer and the cancellation race in the select.
RefreshAnswered(t) ==
    /\ up /\ t.st = "run" /\ Answers(t.ref)
    /\ Charge(t.ref)
    /\ tasks' = (tasks \ {t}) \cup
         {IF Live(t.ref) THEN [gen |-> t.gen, ref |-> NextRef(t.ref),
                               cancelled |-> t.cancelled, st |-> "ok",
                               acc |-> Issued(t.ref)]
          ELSE [t EXCEPT !.st = "perm"]}
    /\ UNCHANGED <<row, up, proxies, tok, lock, chan, sched, ent, timer, gen,
                   rec, hs, budget, hVars>>

RefreshFails(t) ==
    /\ up /\ t.st = "run" /\ ~t.cancelled /\ budget.fail > 0
    /\ budget' = [budget EXCEPT !.fail = @ - 1]
    /\ tasks' = (tasks \ {t}) \cup {[t EXCEPT !.st = "trans"]}
    /\ UNCHANGED <<row, up, proxies, tok, lock, chan, sched, ent, timer, gen,
                   rec, hs, prov, hVars>>

RefreshCancelled(t) ==
    /\ up /\ t.st = "run" /\ t.cancelled
    /\ tasks' = tasks \ {t}
    /\ UNCHANGED <<row, up, proxies, tok, lock, chan, sched, ent, timer, gen,
                   rec, hs, prov, budget, hVars>>

\* mutant: the generation of a result is not compared
CurrentIfTracked(t) == ent # NoEnt

\* The join arm drops the result of a server it no longer tracks or of an
\* entry that was superseded.
Current(t) == ent # NoEnt /\ t.gen = gen

JoinDiscard(t) ==
    /\ up /\ sched = Idle /\ t.st # "run" /\ ~Current(t)
    /\ tasks' = tasks \ {t}
    /\ UNCHANGED <<row, up, proxies, tok, lock, chan, sched, ent, timer, gen,
                   rec, hs, prov, budget, hVars>>

\* A new access token: the backend first, then (StoreRefreshed) the row.  The
\* entry keeps the refresh token it had.
JoinOk(t) ==
    /\ up /\ sched = Idle /\ t.st = "ok" /\ Current(t)
    /\ tasks' = tasks \ {t}
    /\ tok' = [tok EXCEPT ![ent.b] = t.acc]
    /\ timer' = TRUE
    /\ sched' = [do |-> "token", acc |-> t.acc, ref |-> t.ref]
    /\ UNCHANGED <<row, up, proxies, lock, chan, ent, gen, rec, hs, prov,
                   budget, hVars>>

StoreRefreshed ==
    /\ up /\ sched.do = "token" /\ lock = Free
    /\ row' = DbUpdateToken(row, sched.acc, sched.ref)
    /\ sched' = Idle
    /\ UNCHANGED <<up, proxies, tok, lock, chan, ent, timer, gen, tasks, rec, hs,
                   prov, budget, hVars>>

\* mutant: a transient failure ends the refreshes too
JoinFailedGivesUp(t) ==
    /\ up /\ sched = Idle /\ t.st \in {"perm", "trans"} /\ Current(t)
    /\ tasks' = tasks \ {t}
    /\ timer' = FALSE
    /\ lost' = IF t.st = "perm" THEN lost \cup {"permanent"} ELSE lost
    /\ UNCHANGED <<row, up, proxies, tok, lock, chan, sched, ent, gen, rec, hs,
                   prov, budget, last, raced, late>>

\* A permanent failure flags the backend and ends the refreshes; a transient
\* one is tried again later.
JoinFailed(t) ==
    /\ up /\ sched = Idle /\ t.st \in {"perm", "trans"} /\ Current(t)
    /\ tasks' = tasks \ {t}
    /\ IF t.st = "perm"
       THEN timer' = FALSE /\ lost' = lost \cup {"permanent"}
       ELSE timer' = TRUE /\ UNCHANGED lost
    /\ UNCHANGED <<row, up, proxies, tok, lock, chan, sched, ent, gen, rec, hs,
                   prov, budget, last, raced, late>>

----------------------------------------------------------------------------
(* The start-up reconnect task.                                             *)

\* Acting on after a request began or cancelled the task.
Trespass == late' = (late \/ rec.cancelled \/ Active # {})

RecAnswered ==
    /\ up /\ rec.st = "run" /\ Answers(rec.ref)
    /\ Charge(rec.ref)
    /\ IF Live(rec.ref)
       THEN /\ rec' = [rec EXCEPT !.st = "got", !.ref = NextRef(rec.ref),
                                 !.acc = Issued(rec.ref)]
            /\ UNCHANGED lost
       ELSE rec' = Off /\ lost' = lost \cup {"permanent"}
    /\ UNCHANGED <<row, up, proxies, tok, lock, chan, sVars, hs, budget, last, raced, late>>

\* A transient failure ends the task: nothing schedules another refresh.
RecFails ==
    /\ up /\ rec.st = "run"
    /\ \/ rec.cancelled /\ UNCHANGED budget
       \/ budget.fail > 0 /\ budget' = [budget EXCEPT !.fail = @ - 1]
    /\ rec' = Off
    /\ lost' = lost \cup {"startup"}
    /\ UNCHANGED <<row, up, proxies, tok, lock, chan, sVars, hs, prov,
                   last, raced, late>>

\* The cancellation is not looked at again once the refresh succeeded.
RecWriteToken ==
    /\ up /\ rec.st = "got"
    /\ tok' = [tok EXCEPT ![rec.b] = rec.acc]
    /\ rec' = [rec EXCEPT !.st = "wrote"]
    /\ Trespass
    /\ UNCHANGED <<row, up, proxies, lock, chan, sVars, hs, prov, budget,
                   last, raced, lost>>

RecStore ==
    /\ up /\ rec.st = "wrote" /\ lock = Free
    /\ row' = DbUpdateToken(row, rec.acc, rec.ref)
    /\ rec' = IF row = NoRow THEN Off ELSE [rec EXCEPT !.st = "saved"]
    /\ Trespass
    /\ UNCHANGED <<up, proxies, tok, lock, chan, sVars, hs, prov, budget,
                   last, raced, lost>>

RecNotify ==
    /\ up /\ rec.st = "saved"
    /\ Push(EntryMsg(rec.b, rec.ref))
    /\ rec' = Off
    /\ Trespass
    /\ UNCHANGED <<row, up, proxies, tok, lock, sVars, hs, prov, budget,
                   last, raced, lost>>

----------------------------------------------------------------------------
(* The provider withdraws a grant.                                          *)
Revoke(g) ==
    /\ budget.fail > 0 /\ g <= prov.grants /\ g \notin prov.dead
    /\ budget' = [budget EXCEPT !.fail = @ - 1]
    /\ prov' = [prov EXCEPT !.dead = @ \cup {g}]
    /\ UNCHANGED <<row, up, proxies, tok, lock, chan, sVars, rec, hs, hVars>>

Handle(q) ==
    \/ \E op \in Ops : Begin(q, op)
    \/ TakeLock(q)
    \/ SetTokenStore(q) \/ SetTokenNotify(q) \/ SetTokenProbe(q)
    \/ AddOauth(q) \/ AddReplace(q) \/ AddPublish(q) \/ AddRollback(q)
    \/ Remove(q) \/ SetHeaders(q)

Refresh(t) == RefreshAnswered(t) \/ RefreshFails(t) \/ RefreshCancelled(t)

Scheduler ==
    \/ ForgetServer \/ TakeEntry \/ StoreEntry \/ TimerFires \/ StoreRefreshed
    \/ \E t \in tasks : JoinDiscard(t) \/ JoinOk(t) \/ JoinFailed(t)

Reconnect == RecAnswered \/ RecFails \/ RecWriteToken \/ RecStore \/ RecNotify

Next ==
    \/ \E due \in BOOLEAN : AssembleRuntime(due)
    \/ Restart
    \/ \E q \in Reqs : Handle(q)
    \/ Scheduler
    \/ \E t \in tasks : Refresh(t)
    \/ Reconnect
    \/ \E g \in Grants : Revoke(g)

Spec == Init /\ [][Next]_vars

----------------------------------------------------------------------------
(* What the parts promise together.                                         *)

Creds == Tokens \cup {None}

RowType == [kind : {"plain", "oauth", "headers"}, ep : BOOLEAN, acc : Creds, ref : Creds]
MutationType == [op : Ops \cup {"none"}, g : Grants]
MessageType ==
    [do : {"remove"}, q : Reqs] \cup [do : {"new"}, b : Backends, ref : Tokens]
SchedType ==
    [do : {"entry"}, b : Backends, ref : Tokens, acc : Creds]
        \cup [do : {"token"}, acc : Tokens, ref : Tokens]
EntryType == [g : Grants, b : Backends, ref : Tokens]
TaskType ==
    [gen : 0 .. gen, ref : Tokens, cancelled : BOOLEAN, st : {"run", "perm", "trans"}]
        \cup [gen : 0 .. gen, ref : Tokens, cancelled : BOOLEAN, st : {"ok"}, acc : Tokens]
ReconnectType ==
    [st : {"run", "got", "wrote", "saved"}, cancelled : BOOLEAN, b : Backends,
     ref : Tokens, acc : Creds]
BusyType ==
    [pc : {"cancel", "lock", "held", "stored", "probe"}, op : Ops,
     b : Backends \cup {0}, over : BOOLEAN]
ConnectType ==
    [pc : {"connect"}, op : {"addPlain"}, prev : RowType \cup {NoRow}, prevLast : MutationType]
RequestType ==
    [pc : {"new"}] \cup [pc : {"done"}, made : BOOLEAN] \cup BusyType \cup ConnectType
ProviderType ==
    [cur : [Grants -> 0 .. MaxRefreshes], iss : [Grants -> 0 .. MaxRefreshes],
     dead : SUBSET Grants, n : 0 .. MaxRefreshes, grants : Grants]

\* Every variable keeps its type; in particular there are as many backends and
\* grants as requests may create.
TypeOK ==
    /\ row \in RowType \cup {NoRow} /\ last \in MutationType
    /\ up \in BOOLEAN /\ timer \in BOOLEAN /\ raced \in BOOLEAN /\ late \in BOOLEAN /\ gen \in Nat
    /\ proxies \in Backends \cup {0} /\ tok \in [Backends -> Creds]
    /\ lock \in Reqs \cup {Free} /\ chan \in Seq(MessageType)
    /\ sched \in SchedType \cup {Idle} /\ ent \in EntryType \cup {NoEnt}
    /\ tasks \subseteq TaskType /\ rec \in ReconnectType \cup {Off}
    /\ hs \in [Reqs -> RequestType] /\ prov \in ProviderType
    /\ budget \in [fail : 0 .. MaxFailures, restart : 0 .. MaxRestarts]
    /\ lost \subseteq {"rollback", "permanent", "startup"}

\* Nothing that can still change a credential is under way.
Quiet == up /\ Active = {} /\ chan = <<>> /\ sched = Idle /\ tasks = {} /\ rec = Off

\* When everything has settled, the row, the routed backend and the scheduler
\* show the last mutation the dashboard committed (an add that failed counts
\* as none).  Two things only can break this: a set-token that overlaps
\* another mutation (it read the backend, or the other one cancelled the
\* refresh, before the lock), and a reconnect task that goes on after a
\* request cancelled it.
LastMutationWins ==
    Quiet /\ ~raced /\ ~late =>
      CASE last.op = "token" ->
             /\ row # NoRow /\ row.kind = "oauth" /\ row.acc.g = last.g
             /\ row.ref.g = last.g /\ proxies # 0 /\ tok[proxies] = row.acc
             /\ ent # NoEnt => ent.g = last.g /\ ent.b = proxies
        [] last.op = "remove" -> row = NoRow /\ proxies = 0 /\ ent = NoEnt
        [] last.op = "headers" -> row = BareRow("headers") /\ ent = NoEnt
        [] last.op = "addOauth" -> row = BareRow("oauth") /\ ent = NoEnt
        [] last.op = "addPlain" -> row = BareRow("plain") /\ ent = NoEnt
        [] OTHER -> row # NoRow => row.acc.g = 0 /\ tok[proxies] = row.acc

\* An OAuth server whose refresh token the provider still accepts has a timer
\* once everything has settled, unless an add that failed dropped it, the
\* start-up refresh failed, or the provider refused a refresh before.
RefreshStaysScheduled ==
    Quiet /\ ~raced /\ ~late /\ lost = {} /\ row # NoRow =>
      (row.kind = "oauth" /\ row.ep /\ Live(row.ref) => timer /\ ent # NoEnt)

\* The scheduler never puts the outcome of a superseded refresh into a
\* backend: what the join arm writes belongs to the grant it tracks.
StaleResultDiscarded ==
    [][\A b \in Backends :
          sched = Idle /\ sched'.do = "token" /\ tok'[b] # tok[b] =>
             ent.b = b /\ tok'[b].g = ent.g]_vars

\* A fresh token that arrives while a stale retry loop is in progress is not
\* overwritten by it (reconnect.rs, module comment).
FreshTokenKept ==
    Quiet /\ ~raced /\ last.op = "token" /\ row # NoRow =>
       row.acc.g = last.g /\ row.ref.g = last.g
=============================================================================
