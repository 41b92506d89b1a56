--------------------------- MODULE McpBackendProofs ---------------------------
(***************************************************************************)
(* Proofs about McpBackend for any set of tool calls, any number of        *)
(* strikes and attempts, and any bound on what happens upstream: type      *)
(* correctness, mutual exclusion of connects, and the two promises about   *)
(* how the reconciler changes the status.                                  *)
(***************************************************************************)
EXTENDS McpBackend, TLAPS

\* The reconciler never counts more strikes than there were dead probes in a row.
StrikesCounted == strikes <= misses

-----------------------------------------------------------------------------
(* What a decision of the reconciler can be: decide_connected gives a        *)
(* backend up only for a dead probe that reaches the limit, and otherwise    *)
(* leaves a count below the limit.                                           *)
LEMMA Decision ==
    ASSUME NEW s \in 0 .. MaxStrikes - 1, NEW outcome \in {"alive", "auth", "dead"}
    PROVE  LET d == Decide(s, outcome)
           IN /\ d.do \in {"stay", "needs_auth", "unreachable"}
              /\ d.strikes \in 0 .. MaxStrikes - 1
              /\ d.strikes <= (IF outcome = "dead" THEN s + 1 ELSE 0)
              /\ d.do = "unreachable" => outcome = "dead" /\ s + 1 >= MaxStrikes
  BY BoundsAssumption DEF Decide

\* The one place where the reconciler judges a backend that was Connected: types
\* and count are kept, and it only ever gives up a backend still Connected, for
\* the last of MaxStrikes dead probes.
LEMMA Applied ==
    ASSUME TypeOK, StrikesCounted, NEW outcome \in {"alive", "auth", "dead"}, Apply(outcome)
    PROVE  /\ status' \in Statuses /\ strikes' \in 0 .. MaxStrikes - 1
           /\ misses' \in 0 .. MaxStrikes /\ strikes' <= misses'
           /\ status' = "unreachable" /\ status # "unreachable" =>
                 status = "connected" /\ misses' = MaxStrikes
<1> DEFINE d == Decide(strikes, outcome)
<1>1. strikes \in 0 .. MaxStrikes - 1 /\ misses \in 0 .. MaxStrikes /\ strikes <= misses
  BY DEF TypeOK, StrikesCounted
<1>2. /\ d.do \in {"stay", "needs_auth", "unreachable"}
      /\ d.strikes \in 0 .. MaxStrikes - 1
      /\ d.strikes <= (IF outcome = "dead" THEN strikes + 1 ELSE 0)
      /\ d.do = "unreachable" => outcome = "dead" /\ strikes + 1 >= MaxStrikes
  BY <1>1, Decision
<1>3. /\ strikes' = d.strikes
      /\ status' = IF d.do = "stay" THEN status ELSE CasStatus(d.do)
      /\ misses' = IF outcome # "dead" THEN 0
                   ELSE IF misses < MaxStrikes THEN misses + 1 ELSE misses
  BY DEF Apply
<1> HIDE DEF d
<1> QED
  BY <1>1, <1>2, <1>3, BoundsAssumption DEF TypeOK, Statuses, CasStatus

-----------------------------------------------------------------------------
(* Type correctness, together with the count of strikes.                    *)
LEMMA TypeInit == Init => TypeOK /\ StrikesCounted
  BY CallersAssumption, BoundsAssumption
     DEF Init, TypeOK, StrikesCounted, Procs, Statuses, Results, Free

LEMMA TypeOfConnect ==
    ASSUME TypeOK, StrikesCounted, NEW p \in Procs, Connect(p)
    PROVE  TypeOK' /\ StrikesCounted'
<1>1. CASE TakeMutex(p)
  BY <1>1 DEF TypeOK, StrikesCounted, TakeMutex, Go, hv, env
<1>2. CASE ConnectFails(p)
  BY <1>2 DEF TypeOK, StrikesCounted, ConnectFails, Return, Go, Statuses, Results, hv, env
<1>3. CASE ConnectStaged(p)
  BY <1>3 DEF TypeOK, StrikesCounted, ConnectStaged, Publish, Return, Go, Statuses, Results,
              hv, env
<1>4. CASE ConnectAnswered(p)
  BY <1>4 DEF TypeOK, StrikesCounted, ConnectAnswered, Go, hv, env
<1>5. CASE SaveInstructions(p)
  BY <1>5, BoundsAssumption DEF TypeOK, StrikesCounted, SaveInstructions, Publish, Return, Go,
              Statuses, Results, hv, env
<1> QED
  BY <1>1, <1>2, <1>3, <1>4, <1>5 DEF Connect

LEMMA TypeOfTool ==
    ASSUME TypeOK, StrikesCounted, NEW t \in Callers, Tool(t)
    PROVE  TypeOK' /\ StrikesCounted'
<1>1. CASE ToolStart(t)
  BY <1>1 DEF TypeOK, StrikesCounted, ToolStart, Go, hv, env
<1>2. CASE ToolCall(t)
  BY <1>2 DEF TypeOK, StrikesCounted, ToolCall, Go, Statuses, hv, env
<1>3. CASE ToolRetry(t)
  BY <1>3 DEF TypeOK, StrikesCounted, ToolRetry, Resume, Go, Statuses, Results, hv, env
<1> QED
  BY <1>1, <1>2, <1>3 DEF Tool

LEMMA TypeOfHealth ==
    ASSUME TypeOK, StrikesCounted, Health PROVE TypeOK' /\ StrikesCounted'
<1>1. CASE HealthTick
  BY <1>1, BoundsAssumption DEF TypeOK, StrikesCounted, HealthTick, Go, Statuses, env
<1>2. CASE Probe
  <2>1. CASE Dead
    BY <1>2, <2>1 DEF TypeOK, StrikesCounted, Probe, Go, env
  <2>2. CASE ~Dead
    <3> DEFINE outcome == IF auth THEN "alive" ELSE "auth"
    <3>1. Apply(outcome) /\ outcome \in {"alive", "auth", "dead"}
      BY <1>2, <2>2 DEF Probe
    <3>2. /\ status' \in Statuses /\ strikes' \in 0 .. MaxStrikes - 1
          /\ misses' \in 0 .. MaxStrikes /\ strikes' <= misses'
      BY <3>1, Applied
    <3> QED
      BY <1>2, <2>2, <3>2 DEF TypeOK, StrikesCounted, Probe, Go, env
  <2> QED
    BY <2>1, <2>2
<1>3. CASE HealthTimeout
  BY <1>3 DEF TypeOK, StrikesCounted, HealthTimeout, Return, Go, Results, hv, env
<1>4. CASE HealthBack
  <2>1. /\ status' \in Statuses /\ strikes' \in 0 .. MaxStrikes - 1
        /\ misses' \in 0 .. MaxStrikes /\ strikes' <= misses'
    <3>1. CASE seen = "connected"
      <4> DEFINE outcome == CASE res["health"] = "ok" -> "alive"
                              [] res["health"] = "auth" -> "auth"
                              [] OTHER -> "dead"
      <4>1. Apply(outcome) /\ outcome \in {"alive", "auth", "dead"}
        BY <1>4, <3>1 DEF HealthBack
      <4> QED
        BY <4>1, Applied
    <3>2. CASE seen # "connected"
      BY <1>4, <3>2, BoundsAssumption DEF HealthBack, TypeOK, StrikesCounted
    <3> QED
      BY <3>1, <3>2
  <2> QED
    BY <1>4, <2>1 DEF TypeOK, StrikesCounted, HealthBack, Resume, Go, Results, env
<1> QED
  BY <1>1, <1>2, <1>3, <1>4 DEF Health

LEMMA TypeStep == TypeOK /\ StrikesCounted /\ [Next]_vars => TypeOK' /\ StrikesCounted'
<1> SUFFICES ASSUME TypeOK, StrikesCounted, [Next]_vars PROVE TypeOK' /\ StrikesCounted'
  OBVIOUS
<1>1. ASSUME NEW p \in Procs, Connect(p) PROVE TypeOK' /\ StrikesCounted'
  BY <1>1, TypeOfConnect
<1>2. ASSUME NEW t \in Callers, Tool(t) PROVE TypeOK' /\ StrikesCounted'
  BY <1>2, TypeOfTool
<1>3. CASE RefreshOk
  BY <1>3 DEF TypeOK, StrikesCounted, RefreshOk, Go, Procs, hv
<1>4. CASE RefreshPermanent
  BY <1>4 DEF TypeOK, StrikesCounted, RefreshPermanent, Statuses, hv, env
<1>5. CASE PlainBack
  BY <1>5 DEF TypeOK, StrikesCounted, PlainBack, Resume, Go, Procs, Results, hv, env
<1>6. CASE SetToken
  BY <1>6, BoundsAssumption DEF TypeOK, StrikesCounted, SetToken, Go, Procs, hv
<1>7. CASE SetTokenBack
  BY <1>7, BoundsAssumption DEF TypeOK, StrikesCounted, SetTokenBack, Resume, Go, Statuses,
                                Results, hv, env
<1>8. CASE Health
  BY <1>8, TypeOfHealth
<1>9. CASE Upstream
  <2>1. srv' \in BOOLEAN
    BY <1>9, Zenon DEF TypeOK, Upstream
  <2>2. auth' \in BOOLEAN
    BY <1>9, Zenon DEF TypeOK, Upstream
  <2>3. session' \in {"none", "live", "dead"}
    BY <1>9, Zenon DEF TypeOK, Upstream
  <2>4. events' \in 0 .. MaxEvents
    <3>1. events < MaxEvents /\ events' = events + 1
      BY <1>9 DEF Upstream
    <3> QED
      BY <3>1, BoundsAssumption DEF TypeOK
  <2>5. UNCHANGED <<status, cm, ml, pc, res, seen, strikes, misses, att, tokens>>
    BY <1>9 DEF Upstream, hv
  <2> QED
    BY <2>1, <2>2, <2>3, <2>4, <2>5 DEF TypeOK, StrikesCounted
<1>10. CASE UNCHANGED vars
  BY <1>10 DEF TypeOK, StrikesCounted, vars
<1> QED
  BY <1>1, <1>2, <1>3, <1>4, <1>5, <1>6, <1>7, <1>8, <1>9, <1>10 DEF Next

\* Every reachable state of the backend is well typed.
THEOREM TypeCorrect == Spec => []TypeOK
<1>1. Spec => [](TypeOK /\ StrikesCounted)
  BY TypeInit, TypeStep, PTL DEF Spec
<1> QED
  BY <1>1, PTL

-----------------------------------------------------------------------------
(* Exclusion.  Whoever talks to the server holds connect_mutex.              *)
LEMMA ExclusiveInit == Init => ConnectExclusive
  BY CallersAssumption DEF Init, ConnectExclusive, Procs, Free

LEMMA ExclusiveOfConnect ==
    ASSUME TypeOK, ConnectExclusive, NEW p \in Procs, Connect(p) PROVE ConnectExclusive'
<1>1. Free \notin Procs
  BY CallersAssumption DEF Procs, Free
<1>2. CASE TakeMutex(p)
  BY <1>1, <1>2 DEF TypeOK, ConnectExclusive, TakeMutex, Go
<1>3. CASE ConnectFails(p)
  BY <1>1, <1>3 DEF TypeOK, ConnectExclusive, ConnectFails, Return, Go
<1>4. CASE ConnectStaged(p)
  BY <1>1, <1>4 DEF TypeOK, ConnectExclusive, ConnectStaged, Publish, Return, Go
<1>5. CASE ConnectAnswered(p)
  BY <1>5 DEF TypeOK, ConnectExclusive, ConnectAnswered, Go
<1>6. CASE SaveInstructions(p)
  BY <1>1, <1>6 DEF TypeOK, ConnectExclusive, SaveInstructions, Publish, Return, Go
<1> QED
  BY <1>2, <1>3, <1>4, <1>5, <1>6 DEF Connect

\* Everybody else moves only where no connect is under way, or, at the probe's
\* timeout, drops the mutex with the connect.
LEMMA ExclusiveStep == TypeOK /\ ConnectExclusive /\ [Next]_vars => ConnectExclusive'
<1> SUFFICES ASSUME TypeOK, ConnectExclusive, [Next]_vars PROVE ConnectExclusive'
  OBVIOUS
<1>1. ASSUME NEW p \in Procs, Connect(p) PROVE ConnectExclusive'
  BY <1>1, ExclusiveOfConnect
<1>2. ASSUME NEW t \in Callers, Tool(t) PROVE ConnectExclusive'
  BY <1>2 DEF TypeOK, ConnectExclusive, Tool, ToolStart, ToolCall, ToolRetry, Resume, Go, Procs
<1>3. CASE RefreshOk \/ RefreshPermanent \/ PlainBack
  BY <1>3 DEF TypeOK, ConnectExclusive, RefreshOk, RefreshPermanent, PlainBack, Resume, Go, Procs
<1>4. CASE SetToken \/ SetTokenBack
  BY <1>4 DEF TypeOK, ConnectExclusive, SetToken, SetTokenBack, Resume, Go, Procs
<1>5. CASE Health
  <2>1. CASE HealthTimeout
    <3>1. Free \notin Procs
      BY CallersAssumption DEF Procs, Free
    <3> QED
      BY <2>1, <3>1 DEF TypeOK, ConnectExclusive, HealthTimeout, Return, Go, Procs
  <2>2. CASE HealthTick \/ Probe \/ HealthBack
    BY <2>2 DEF TypeOK, ConnectExclusive, HealthTick, Probe, HealthBack, Resume, Go, Procs
  <2> QED
    BY <1>5, <2>1, <2>2 DEF Health
<1>6. CASE Upstream
  BY <1>6 DEF ConnectExclusive, Upstream
<1>7. CASE UNCHANGED vars
  BY <1>7 DEF ConnectExclusive, vars
<1> QED
  BY <1>1, <1>2, <1>3, <1>4, <1>5, <1>6, <1>7 DEF Next

\* Two connects of one backend never interleave, whoever starts them and
\* wherever a timeout drops them.
THEOREM ConnectsAreExclusive == Spec => []ConnectExclusive
<1>1. Spec => [](TypeOK /\ StrikesCounted /\ ConnectExclusive)
  BY TypeInit, TypeStep, ExclusiveInit, ExclusiveStep, PTL DEF Spec
<1> QED
  BY <1>1, PTL

-----------------------------------------------------------------------------
(* How the status may change.  Both promises are about steps that make a     *)
(* backend unreachable; only /set-token and the reconciler take such steps.  *)
LEMMA BecomesUnreachable ==
    ASSUME TypeOK, StrikesCounted, [Next]_vars, status # "unreachable", status' = "unreachable",
           pc["token"] # "back"
    PROVE  status = "connected" /\ misses' = MaxStrikes
<1>1. ASSUME NEW p \in Procs, Connect(p) PROVE FALSE
  BY <1>1 DEF Connect, TakeMutex, ConnectFails, ConnectStaged, ConnectAnswered,
              SaveInstructions, Publish
<1>2. ASSUME NEW t \in Callers, Tool(t) PROVE FALSE
  BY <1>2 DEF Tool, ToolStart, ToolCall, ToolRetry
<1>3. CASE RefreshOk \/ RefreshPermanent \/ PlainBack \/ SetToken \/ SetTokenBack \/ Upstream
  BY <1>3 DEF RefreshOk, RefreshPermanent, PlainBack, SetToken, SetTokenBack, Upstream
<1>4. CASE Probe
  <2> DEFINE outcome == IF auth THEN "alive" ELSE "auth"
  <2>1. Apply(outcome) /\ outcome \in {"alive", "auth", "dead"}
    BY <1>4 DEF Probe
  <2> QED
    BY <2>1, Applied
<1>5. CASE HealthBack
  <2> DEFINE outcome == CASE res["health"] = "ok" -> "alive"
                          [] res["health"] = "auth" -> "auth"
                          [] OTHER -> "dead"
  <2>1. Apply(outcome) /\ outcome \in {"alive", "auth", "dead"}
    BY <1>5 DEF HealthBack
  <2> QED
    BY <2>1, Applied
<1>6. CASE HealthTick \/ HealthTimeout
  BY <1>6 DEF HealthTick, HealthTimeout
<1>7. CASE UNCHANGED vars
  BY <1>7 DEF vars
<1> QED
  BY <1>1, <1>2, <1>3, <1>4, <1>5, <1>6, <1>7 DEF Next, Health

\* A backend that needs authentication is not taken for an unreachable one by
\* the reconciler, whatever it saw when its probe began.
THEOREM AuthDeathIsKept == Spec => AuthDeathSticks
<1>1. TypeOK /\ StrikesCounted /\ [Next]_vars =>
        [status = "needs_auth" /\ status' = "unreachable" => pc["token"] = "back"]_vars
  BY BecomesUnreachable
<1> QED
  BY <1>1, TypeInit, TypeStep, PTL DEF Spec, AuthDeathSticks

\* The reconciler gives a Connected backend up only after MaxStrikes dead
\* probes in a row.
THEOREM GivesUpOnlyAfterStrikes == Spec => GivesUpAfterStrikes
<1>1. TypeOK /\ StrikesCounted /\ [Next]_vars =>
        [status = "connected" /\ status' = "unreachable" /\ pc["token"] # "back" =>
            misses' = MaxStrikes]_vars
  BY BecomesUnreachable
<1> QED
  BY <1>1, TypeInit, TypeStep, PTL DEF Spec, GivesUpAfterStrikes
=============================================================================
