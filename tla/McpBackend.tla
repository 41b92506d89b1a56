------------------------------ MODULE McpBackend ------------------------------
(***************************************************************************)
(* The session of one proxy backend (right-mcp/src/proxy.rs): its status,  *)
(* the cached rmcp session, and the callers that rebuild it: tool calls,   *)
(* the plain connects of the start-up and of the refresh scheduler, the    *)
(* health reconciler (right-mcp/src/health.rs) and the readiness probe of  *)
(* /set-token (crates/right/src/internal_api.rs).  connect() holds the     *)
(* backend's connect mutex for its whole body and, unless staged, takes    *)
(* the server's mutation lock to store the instructions.                   *)
(***************************************************************************)
EXTENDS Naturals

CONSTANTS Callers,       \* tool calls that may run at the same time
          MaxStrikes,    \* MAX_STRIKES of the reconciler
          MaxAttempts,   \* OAUTH_RECONNECT_MAX_ATTEMPTS of /set-token
          MaxTokens,     \* bound on /set-token requests
          MaxEvents      \* bound on upstream events and failed writes

ASSUME CallersAssumption == Callers \cap {"plain", "health", "token", "free"} = {}
ASSUME BoundsAssumption ==
    /\ MaxStrikes \in Nat \ {0} /\ MaxAttempts \in Nat \ {0}
    /\ MaxTokens \in Nat /\ MaxEvents \in Nat

VARIABLES status,    \* BackendStatus
          session,   \* the cached session: none, live or dead
          cm,        \* the holder of connect_mutex
          ml,        \* the holder of the mutation lock
          pc,        \* what each process is doing
          res,       \* the outcome of its last connect
          seen,      \* the status the reconciler acts on
          strikes,   \* its count of dead probes
          att,       \* the attempts of the readiness probe
          srv,       \* the upstream server is up
          auth,      \* it accepts the current token
          tokens, events, \* requests and upstream events so far
          misses     \* history: dead probes in a row, up to MaxStrikes

vars == <<status, session, cm, ml, pc, res, seen, strikes, att, srv, auth,
          tokens, events, misses>>
env == <<srv, auth, tokens, events>>
hv == <<seen, strikes, misses>>

Free == "free"
Procs == Callers \cup {"plain", "health", "token"}
Statuses == {"connected", "needs_auth", "unreachable"}
Results == {"none", "ok", "auth", "err"}

Init ==
    /\ status = "unreachable" /\ session = "none"
    /\ cm = Free /\ ml = Free
    /\ pc = [p \in Procs |-> IF p = "plain" THEN "want" ELSE "idle"]
    /\ res = [p \in Procs |-> "none"]
    /\ seen = "unreachable" /\ strikes = 0 /\ misses = 0
    /\ att = 0 /\ srv = TRUE /\ auth = TRUE /\ tokens = 0 /\ events = 0

Go(p, l) == pc' = [pc EXCEPT ![p] = l]
Return(p, r) == Go(p, "back") /\ res' = [res EXCEPT ![p] = r]
Resume(p, l) == Go(p, l) /\ res' = [res EXCEPT ![p] = "none"]

----------------------------------------------------------------------------
(* connect_inner, for any of its callers.                                   *)

TakeMutex(p) ==
    /\ pc[p] = "want" /\ cm = Free
    /\ cm' = p /\ Go(p, "net")
    /\ UNCHANGED <<status, session, ml, res, hv, att, env>>

\* initialize or list_tools fails: an auth error flips the status.
ConnectFails(p) ==
    /\ pc[p] = "net" /\ ~(srv /\ auth)
    /\ status' = IF srv THEN "needs_auth" ELSE status
    /\ cm' = Free /\ Return(p, IF srv THEN "auth" ELSE "err")
    /\ UNCHANGED <<session, ml, hv, att, env>>

Publish(p) == session' = "live" /\ status' = "connected" /\ cm' = Free /\ Return(p, "ok")

\* A staged connect publishes the session at once; the others first store the
\* instructions, which waits for the mutation lock and may fail.
ConnectStaged(p) ==
    /\ p = "token" /\ pc[p] = "net" /\ srv /\ auth
    /\ Publish(p)
    /\ UNCHANGED <<ml, hv, att, env>>

ConnectAnswered(p) ==
    /\ p # "token" /\ pc[p] = "net" /\ srv /\ auth
    /\ Go(p, "save")
    /\ UNCHANGED <<status, session, cm, ml, res, hv, att, env>>

SaveInstructions(p) ==
    /\ pc[p] = "save" /\ ml = Free
    /\ \/ Publish(p) /\ UNCHANGED events
       \/ /\ events < MaxEvents /\ events' = events + 1
          /\ cm' = Free /\ Return(p, "err") /\ UNCHANGED <<status, session>>
    /\ UNCHANGED <<ml, hv, att, srv, auth, tokens>>

Connect(p) == \/ TakeMutex(p) \/ ConnectFails(p) \/ ConnectStaged(p)
              \/ ConnectAnswered(p) \/ SaveInstructions(p)

----------------------------------------------------------------------------
(* tools_call: one attempt, and one more after a reconnect when the session  *)
(* turned out to be dead.                                                    *)

ToolStart(t) ==
    /\ pc[t] = "idle" /\ status = "connected"
    /\ Go(t, "call")
    /\ UNCHANGED <<status, session, cm, ml, res, hv, att, env>>

\* call_once, classified: auth, dead session, or an answer of any kind.
Dead == session # "live" \/ ~srv
ToolCall(t) ==
    /\ pc[t] = "call"
    /\ status' = IF ~Dead /\ ~auth THEN "needs_auth" ELSE status
    /\ Go(t, IF Dead THEN "want" ELSE "idle")
    /\ UNCHANGED <<session, cm, ml, res, hv, att, env>>

ToolRetry(t) ==
    /\ pc[t] = "back"
    /\ status' = IF res[t] = "ok" /\ ~Dead /\ ~auth THEN "needs_auth" ELSE status
    /\ Resume(t, "idle")
    /\ UNCHANGED <<session, cm, ml, hv, att, env>>

Tool(t) == ToolStart(t) \/ ToolCall(t) \/ ToolRetry(t)

----------------------------------------------------------------------------
(* Refreshes of the token, and the connect they start when the backend had   *)
(* been flagged.  connect_backend and log_reconnect_result only log.         *)

RefreshOk ==
    /\ pc["plain"] = "idle"
    /\ auth' = TRUE
    /\ Go("plain", IF status = "needs_auth" THEN "want" ELSE "idle")
    /\ UNCHANGED <<status, session, cm, ml, res, hv, att, srv, tokens, events>>

RefreshPermanent ==
    /\ pc["plain"] = "idle" /\ ~auth
    /\ status' = "needs_auth"
    /\ UNCHANGED <<session, cm, ml, pc, res, hv, att, env>>

PlainBack ==
    /\ pc["plain"] = "back" /\ Resume("plain", "idle")
    /\ UNCHANGED <<status, session, cm, ml, hv, att, env>>

----------------------------------------------------------------------------
(* handle_set_token, from its mutation lock on.                              *)

SetToken ==
    /\ pc["token"] = "idle" /\ ml = Free /\ tokens < MaxTokens
    /\ tokens' = tokens + 1
    /\ ml' = "token" /\ auth' = TRUE /\ att' = 1
    /\ Go("token", "want")
    /\ UNCHANGED <<status, session, cm, res, hv, srv, events>>

\* reconnect_after_oauth_update retries all but auth errors, then the handler
\* records the outcome and lets the lock go.
SetTokenBack ==
    /\ pc["token"] = "back"
    /\ IF res["token"] = "err" /\ att < MaxAttempts
       THEN att' = att + 1 /\ Resume("token", "want") /\ UNCHANGED <<status, ml>>
       ELSE /\ status' = CASE res["token"] = "auth" -> "needs_auth"
                           [] res["token"] = "err" -> "unreachable"
                           [] OTHER -> status
            /\ ml' = Free /\ Resume("token", "idle") /\ att' = 0
    /\ UNCHANGED <<session, cm, hv, env>>

----------------------------------------------------------------------------
(* run_health_reconciler.                                                    *)

\* mutant: one strike too few
DecideEarly(s, outcome) ==
    CASE outcome = "alive" -> [do |-> "stay", strikes |-> 0]
      [] outcome = "auth" -> [do |-> "needs_auth", strikes |-> 0]
      [] OTHER -> IF s + 2 >= MaxStrikes THEN [do |-> "unreachable", strikes |-> 0]
                                         ELSE [do |-> "stay", strikes |-> s + 1]

\* decide_connected.
Decide(s, outcome) ==
    CASE outcome = "alive" -> [do |-> "stay", strikes |-> 0]
      [] outcome = "auth" -> [do |-> "needs_auth", strikes |-> 0]
      [] OTHER -> IF s + 1 >= MaxStrikes THEN [do |-> "unreachable", strikes |-> 0]
                                         ELSE [do |-> "stay", strikes |-> s + 1]

\* mutant: the status is set without a comparison
SetStatus(new) == new

\* compare_and_set_status from Connected.
CasStatus(new) == IF status = "connected" THEN new ELSE status

\* The decision about a backend that was Connected when the tick began.
Apply(outcome) ==
    LET d == Decide(strikes, outcome)
    IN /\ strikes' = d.strikes
       /\ status' = IF d.do = "stay" THEN status ELSE CasStatus(d.do)
       /\ misses' = IF outcome # "dead" THEN 0
                    ELSE IF misses < MaxStrikes THEN misses + 1 ELSE misses

\* mutant: only connected backends are visited
HealthTickConnectedOnly ==
    /\ pc["health"] = "idle" /\ status = "connected"
    /\ seen' = status /\ Go("health", "probe")
    /\ UNCHANGED <<status, session, cm, ml, res, strikes, misses, att, env>>

\* A NeedsAuth backend is taken off the schedule and loses its strikes.
HealthTick ==
    /\ pc["health"] = "idle"
    /\ seen' = status
    /\ IF status = "needs_auth"
       THEN strikes' = 0 /\ misses' = 0 /\ UNCHANGED pc
       ELSE /\ Go("health", IF status = "connected" THEN "probe" ELSE "want")
            /\ UNCHANGED <<strikes, misses>>
    /\ UNCHANGED <<status, session, cm, ml, res, att, env>>

\* probe_live on the cached session; a dead one is reconnected in this tick.
Probe ==
    /\ pc["health"] = "probe"
    /\ IF Dead
       THEN Go("health", "want") /\ UNCHANGED <<status, strikes, misses>>
       ELSE Apply(IF auth THEN "alive" ELSE "auth") /\ Go("health", "idle")
    /\ UNCHANGED <<session, cm, ml, res, seen, att, env>>

\* PROBE_TIMEOUT drops the connect wherever it is held up.
HealthTimeout ==
    /\ \/ pc["health"] = "want" /\ cm # Free
       \/ pc["health"] = "net" /\ ~srv
       \/ pc["health"] = "save" /\ ml # Free
    /\ cm' = IF cm = "health" THEN Free ELSE cm
    /\ Return("health", "err")
    /\ UNCHANGED <<status, session, ml, hv, att, env>>

HealthBack ==
    /\ pc["health"] = "back"
    /\ IF seen = "connected"
       THEN Apply(CASE res["health"] = "ok" -> "alive"
                    [] res["health"] = "auth" -> "auth"
                    [] OTHER -> "dead")
       ELSE /\ strikes' = IF status = "connected" THEN 0 ELSE strikes
            /\ misses' = IF status = "connected" THEN 0 ELSE misses
            /\ UNCHANGED status
    /\ Resume("health", "idle")
    /\ UNCHANGED <<session, cm, ml, seen, att, env>>

Health == HealthTick \/ Probe \/ HealthTimeout \/ HealthBack

----------------------------------------------------------------------------
(* The upstream server: it goes down (its sessions with it) and comes back,  *)
(* drops an idle session, or stops accepting the token.                      *)
Upstream ==
    /\ events < MaxEvents /\ events' = events + 1
    /\ \/ srv' = ~srv /\ session' = (IF session = "live" THEN "dead" ELSE session)
          /\ UNCHANGED auth
       \/ session = "live" /\ session' = "dead" /\ UNCHANGED <<srv, auth>>
       \/ auth /\ auth' = FALSE /\ UNCHANGED <<srv, session>>
    /\ UNCHANGED <<status, cm, ml, pc, res, hv, att, tokens>>

Next ==
    \/ \E p \in Procs : Connect(p)
    \/ \E t \in Callers : Tool(t)
    \/ RefreshOk \/ RefreshPermanent \/ PlainBack
    \/ SetToken \/ SetTokenBack
    \/ Health
    \/ Upstream

Spec == Init /\ [][Next]_vars

\* Every started operation goes on: the mutexes are first-in first-out, the
\* HTTP clients have timeouts and the reconciler ticks for ever.  Nothing
\* forces tool calls, refreshes, requests or the upstream server to happen.
Fairness ==
    /\ \A t \in Callers : WF_vars(Connect(t) \/ ToolCall(t) \/ ToolRetry(t))
    /\ WF_vars(Connect("plain") \/ PlainBack)
    /\ WF_vars(Connect("token") \/ SetTokenBack) /\ SF_vars(TakeMutex("token"))
    /\ WF_vars(Connect("health") \/ Health)

FairSpec == Spec /\ Fairness

----------------------------------------------------------------------------
\* Every variable keeps its type; the strikes stay below the limit, at which the
\* reconciler acts and starts over.
TypeOK ==
    /\ status \in Statuses /\ session \in {"none", "live", "dead"}
    /\ cm \in Procs \cup {Free} /\ ml \in {"token", Free}
    /\ pc \in [Procs -> {"idle", "call", "probe", "want", "net", "save", "back"}]
    /\ res \in [Procs -> Results] /\ seen \in Statuses
    /\ strikes \in 0 .. MaxStrikes - 1 /\ att \in 0 .. MaxAttempts
    /\ srv \in BOOLEAN /\ auth \in BOOLEAN
    /\ tokens \in 0 .. MaxTokens /\ events \in 0 .. MaxEvents /\ misses \in 0 .. MaxStrikes

\* A process that rebuilds the session is alone: whoever talks to the upstream
\* server or stores its instructions holds connect_mutex, so two connects never
\* interleave their writes of session and status.
ConnectExclusive ==
    \A p \in Procs : pc[p] \in {"net", "save"} <=> cm = p

\* The reconciler never turns an auth failure into a connection failure: a
\* NeedsAuth that arrived while it probed survives, and only the readiness
\* probe of a fresh token may replace it by Unreachable.
AuthDeathSticks ==
    [][status = "needs_auth" /\ status' = "unreachable" => pc["token"] = "back"]_vars

\* The reconciler gives a Connected backend up only after MaxStrikes dead
\* probes with a failed reconnect in a row.
GivesUpAfterStrikes ==
    [][status = "connected" /\ status' = "unreachable" /\ pc["token"] # "back" =>
          misses' = MaxStrikes]_vars

\* The mutation lock and the connect mutex are taken in opposite orders by
\* /set-token and by a connect that stores its instructions.
LockCycle ==
    /\ pc["token"] = "want" /\ ml = "token"
    /\ cm # Free /\ pc[cm] = "save" /\ cm # "health"

\* A backend that is Unreachable while its server is up does not stay so: the
\* reconciler reconnects it or finds out that it needs authentication, unless
\* the two locks have been taken crosswise.
UnreachableRecovers ==
    (status = "unreachable" /\ srv) ~> (status # "unreachable" \/ ~srv \/ LockCycle)

\* /set-token runs a bounded retry loop: it returns.
SetTokenReturns == (pc["token"] # "idle") ~> (pc["token"] = "idle")
=============================================================================
