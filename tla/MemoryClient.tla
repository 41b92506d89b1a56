---------------------------- MODULE MemoryClient ----------------------------
(* ResilientHindsight (right-memory/resilient.rs, circuit.rs, status.rs) in  *)
(* the bot: every call of Hindsight goes through one circuit breaker and     *)
(* leaves its mark on the memory status, in steps that other calls           *)
(* interleave with.  The status in turn decides whether the drain loop of    *)
(* lib.rs works on the queue of retains that failed.                         *)
(*                                                                           *)
(* The queue itself, with its leases and cap, is the subject of RetainQueue, *)
(* where the status is arbitrary; here it is what the wrapper makes of it,   *)
(* and the owner's answers arrive.                                           *)
(* A tick stands for WINDOW and INITIAL_OPEN, both 30 seconds.               *)
EXTENDS Naturals, Sequences, FiniteSets

CONSTANTS
    Users,       \* concurrent recalls and retains of the worker
    Poison,      \* rows that Hindsight never takes
    Left,        \* rows an earlier process left in the queue
    MaxRows,     \* bound: retains that are queued
    Trip,        \* TRIP_THRESHOLD
    MaxOpen,     \* MAX_OPEN, in ticks
    AuthOpen,    \* AUTH_OPEN, in ticks
    RetainRetries, \* POLICY_AUTO_RETAIN.attempts
    BankRetries, \* POLICY_STARTUP_BANK.attempts
    MaxAge,      \* MAX_AGE of a row, in ticks
    MaxChanges   \* bound: changes of what Hindsight answers

Callers == Users \cup {"bank", "drain"}
Rows == 1..MaxRows

ASSUME MemoryClientAssumption ==
    /\ {"bank", "drain"} \cap Users = {} /\ Poison \subseteq Rows
    /\ {Trip, MaxOpen, AuthOpen} \subseteq Nat \ {0} /\ MaxOpen <= AuthOpen
    /\ {RetainRetries, BankRetries} \subseteq Nat /\ BankRetries + 1 < Trip
    /\ {MaxRows, MaxAge, MaxChanges} \subseteq Nat /\ Left \in 0..MaxRows

VARIABLES
    circuit,   \* CircuitState, refreshed
    until,     \* ticks until an open circuit is half open
    lastOpen,  \* last_open_duration
    fails,     \* failures in the window
    status,    \* MemoryStatus
    call,      \* where each caller's call_with_policy stands
    queue,     \* pending_retains, oldest first
    age,       \* row -> ticks since it was queued
    booted,    \* the bank was asked for and the drain loop is spawned
    probing,   \* the background probe of the bank
    up,        \* what Hindsight answers
    raced,     \* ghost: the status was written from a stale reading
    took,      \* ghost: Hindsight stored or refused the row the drain loop posted
    rows, changes

breaker == <<circuit, until, lastOpen, fails>>
store == <<queue, age, rows, took>>
boot == <<booted, probing>>
env == <<up, changes>>
vars == <<breaker, status, call, store, boot, raced, env>>

Answering == {"ok", "down", "denied", "unpaid"}
Statuses == {"Healthy", "Degraded", "QuotaExhausted", "AuthFailed"}
Sticky == status \in {"QuotaExhausted", "AuthFailed"}

\* out: the last answer, or "open" when the circuit refused the attempt
Outcomes == {"ok", "transient", "malformed", "client", "auth", "quota"}
Idle == [pc |-> "idle", kind |-> "recall", tries |-> 0, out |-> "ok", closed |-> TRUE]
Sent(kind) == [Idle EXCEPT !.pc = "sent", !.kind = kind]
Queued == {queue[i] : i \in DOMAIN queue}

\* A prefetch goes on after a failure as the recall of the next turn would.
Retries(kind) ==
    CASE kind = "retain" -> RetainRetries
      [] kind = "bank" -> BankRetries
      [] OTHER -> 0

Init ==
    /\ circuit = "closed" /\ until = 0 /\ lastOpen = 1 /\ fails = 0
    /\ status = "Healthy"
    /\ call = [c \in Callers |-> IF c = "bank" THEN Sent("bank") ELSE Idle]
    /\ queue = [r \in 1..Left |-> r] /\ age = [r \in Rows |-> 0] /\ rows = Left
    /\ booted = FALSE /\ probing = FALSE /\ raced = FALSE /\ took = FALSE
    /\ up \in Answering /\ changes = 0

----------------------------------------------------------------------------
(* Breaker.  An open circuit turns half open with the tick that ends it, as  *)
(* every method refreshes before it looks.                                   *)

\* Failures recorded by now or while it is open are never looked at: the success
\* that closes the circuit clears them.
Open(ticks) == circuit' = "open" /\ until' = ticks /\ lastOpen' = ticks /\ fails' = 0

Doubled == IF 2 * lastOpen > MaxOpen THEN MaxOpen ELSE 2 * lastOpen

CountFailure ==
    CASE circuit = "closed" /\ fails + 1 < Trip ->
            fails' = fails + 1 /\ UNCHANGED <<circuit, until, lastOpen>>
      [] circuit = "closed" /\ fails + 1 >= Trip -> Open(1)
      [] circuit = "half" -> Open(Doubled)
      [] OTHER -> UNCHANGED breaker

\* mutant: the success of a half-open probe is not looked at
RecordFailuresOnly(out) ==
    \/ out \in {"ok", "client", "quota"} /\ UNCHANGED breaker
    \/ out = "auth" /\ Open(AuthOpen)
    \/ out \in {"transient", "malformed"} /\ CountFailure

\* The rejected payload and the exhausted quota do not tick the breaker.
Record(out) ==
    \/ /\ out = "ok" /\ circuit = "half"
       /\ circuit' = "closed" /\ until' = 0 /\ lastOpen' = 1 /\ fails' = 0
    \/ out = "ok" /\ circuit # "half" /\ UNCHANGED breaker
    \/ out \in {"client", "quota"} /\ UNCHANGED breaker
    \/ out = "auth" /\ Open(AuthOpen)
    \/ out \in {"transient", "malformed"} /\ CountFailure

----------------------------------------------------------------------------
(* call_with_policy.                                                         *)

At(c, pc) == call[c].pc = pc
\* mutant: the drain loop takes a refused attempt for a stored row
HeardOpenAsOk(kind, out) ==
    CASE kind = "retain" /\ out \in {"transient", "open"} -> out
      [] kind = "drain" /\ out \notin {"ok", "client", "open"} -> "transient"
      [] kind = "bank" /\ out \in {"transient", "malformed"} -> "transient"
      [] kind = "bank" /\ out \in {"client", "auth", "quota", "open"} -> "client"
      [] OTHER -> "ok"

\* What a caller tells apart of the outcome: nothing of a recall, whether to
\* queue it after a retain, whether the row leaves in the drain loop.
Heard(kind, out) ==
    CASE kind = "retain" /\ out \in {"transient", "open"} -> out
      [] kind = "drain" /\ out \notin {"ok", "client"} -> "transient"
      [] kind = "bank" /\ out \in {"transient", "malformed"} -> "transient"
      [] kind = "bank" /\ out \in {"client", "auth", "quota", "open"} -> "client"
      [] OTHER -> "ok"

Return(c) ==
    LET k == call[c] IN
    call' = [call EXCEPT ![c] = IF k.kind = "recall" THEN Idle
                                ELSE [Idle EXCEPT !.pc = "return", !.kind = k.kind, !.out = k.out]]

\* mutant: an attempt the circuit refuses returns at once
AdmitReturns(c, r) ==
    call' = [call EXCEPT ![c] = IF circuit = "open" THEN [r EXCEPT !.pc = "return", !.out = Heard(r.kind, "open")]
                                ELSE r]

\* Each attempt asks the breaker first; refused, the call only refreshes the status.
Admit(c, r) ==
    call' = [call EXCEPT ![c] = IF circuit = "open" THEN [r EXCEPT !.pc = "read", !.out = Heard(r.kind, "open")]
                                ELSE r]

\* What Hindsight may answer; a row it never takes is refused as often as it is
\* posted, and it may object to a bank or to what is retained.
Answers(c) ==
    CASE up = "down" -> {"transient", "malformed"}
      [] up = "denied" -> {"auth"}
      [] up = "unpaid" -> {"quota"}
      [] c = "drain" /\ Head(queue) \in Poison -> {"transient", "malformed", "client"}
      [] OTHER -> {"ok"} \cup (IF call[c].kind \in {"bank", "retain"} THEN {"client"} ELSE {})

\* classify, and the breaker's record of it.
AfterAnswer(c, out) ==
    CASE out = "ok" -> "clear"
      [] out \in {"auth", "quota"} -> out
      [] out = "transient" /\ call[c].tries < Retries(call[c].kind) -> "backoff"
      [] OTHER -> "read"

Answer(c, out) ==
    /\ At(c, "sent") /\ out \in Answers(c) /\ Record(out)
    /\ call' = [call EXCEPT ![c].out = Heard(call[c].kind, out),
                            ![c].pc = AfterAnswer(c, out)]
    /\ took' = (took \/ (c = "drain" /\ out \in {"ok", "client"}))
    /\ UNCHANGED <<status, queue, age, rows, boot, raced, env>>

Backoff(c) ==
    /\ At(c, "backoff")
    /\ Admit(c, [call[c] EXCEPT !.pc = "sent", !.tries = @ + 1])
    /\ UNCHANGED <<breaker, status, store, boot, raced, env>>

\* refresh_status reads the breaker under its lock ...
Read(c) == call' = [call EXCEPT ![c].pc = "write", ![c].closed = (circuit = "closed")]

\* Any success ends QuotaExhausted.
ClearQuota(c) ==
    /\ At(c, "clear") /\ Read(c)
    /\ status' = IF status = "QuotaExhausted" THEN "Healthy" ELSE status
    /\ UNCHANGED <<breaker, store, boot, raced, env>>

SetAuthFailed(c) ==
    /\ At(c, "auth") /\ Return(c)
    /\ status' = "AuthFailed"
    /\ UNCHANGED <<breaker, store, boot, raced, env>>

SetQuotaExhausted(c) ==
    /\ At(c, "quota") /\ Return(c)
    /\ status' = IF Sticky THEN status ELSE "QuotaExhausted"
    /\ UNCHANGED <<breaker, store, boot, raced, env>>

ReadBreaker(c) ==
    /\ At(c, "read") /\ Read(c)
    /\ UNCHANGED <<breaker, status, store, boot, raced, env>>

Reflected(c) == IF call[c].closed THEN "Healthy" ELSE "Degraded"

\* ... and writes the status after it let go of it.
WriteStatus(c) ==
    /\ At(c, "write") /\ Return(c)
    /\ status' = IF Sticky THEN status ELSE Reflected(c)
    /\ raced' = (call[c].closed # (circuit = "closed"))
    /\ UNCHANGED <<breaker, store, boot, env>>

----------------------------------------------------------------------------
(* The callers.                                                              *)

\* A turn recalls, prefetches and retains.
Retaining == {u \in Users : call[u].kind = "retain" /\ ~At(u, "idle")}
Start(u, kind) ==
    /\ At(u, "idle") /\ booted
    /\ kind = "retain" => rows + Cardinality(Retaining) < MaxRows
    /\ Admit(u, Sent(kind))
    /\ UNCHANGED <<breaker, status, store, boot, raced, env>>

Done(c) == call' = [call EXCEPT ![c] = Idle]

\* retain queues what may succeed later, unless the user has to act first; a row
\* that the owner does not take is lost with a log line.
Requeued(u) ==
    /\ call[u].kind = "retain"
    /\ \/ call[u].out = "transient"
       \/ call[u].out = "open" /\ ~Sticky
Finish(u) ==
    /\ At(u, "return") /\ Done(u)
    /\ \/ /\ Requeued(u)
          /\ rows' = rows + 1 /\ queue' = Append(queue, rows + 1)
          /\ UNCHANGED <<age, took>>
       \/ UNCHANGED store
    /\ UNCHANGED <<breaker, status, boot, raced, env>>

\* get_or_create_bank: its success alone ends AuthFailed.  A start that met a
\* passing failure goes on to probe every minute.
BankReturns ==
    /\ At("bank", "return") /\ Done("bank")
    /\ booted' = TRUE
    /\ LET out == call["bank"].out IN
       /\ probing' = IF booted THEN probing /\ out # "ok"
                     ELSE out = "transient"
       /\ IF out = "ok" /\ status = "AuthFailed"
          THEN status' = "Healthy" /\ raced' = (circuit # "closed")
          ELSE UNCHANGED <<status, raced>>
    /\ UNCHANGED <<breaker, store, env>>

ProbeBank ==
    /\ At("bank", "idle") /\ probing
    /\ Admit("bank", Sent("bank"))
    /\ UNCHANGED <<breaker, status, store, boot, raced, env>>

\* The oldest row leaves the queue.
Leave ==
    /\ queue' = Tail(queue) /\ age' = [age EXCEPT ![Head(queue)] = 0]
    /\ took' = FALSE /\ UNCHANGED rows

\* mutant: the drain loop does not look at the age of a row
ClaimAnyAge ==
    /\ At("drain", "idle") /\ booted /\ status = "Healthy" /\ queue # <<>>
    /\ Admit("drain", Sent("drain"))
    /\ UNCHANGED <<breaker, status, store, boot, raced, env>>

\* A tick of the drain loop, skipped unless Healthy, claims the oldest row, or
\* drops it when it is too old.
DrainTick ==
    /\ At("drain", "idle") /\ booted /\ status = "Healthy" /\ queue # <<>>
    /\ IF age[Head(queue)] > MaxAge
       THEN Leave /\ UNCHANGED call
       ELSE Admit("drain", Sent("drain")) /\ UNCHANGED store
    /\ UNCHANGED <<breaker, status, boot, raced, env>>

\* drain_retain_item: a stored or refused row leaves, and the next row of the
\* batch is posted whatever the status is now; any other outcome ends the tick.
DrainReturns ==
    /\ At("drain", "return")
    /\ \/ call["drain"].out = "ok" /\ Leave /\ Done("drain")
       \/ call["drain"].out = "ok" /\ Leave /\ Len(queue) > 1 /\ Admit("drain", Sent("drain"))
       \/ call["drain"].out # "ok" /\ Done("drain") /\ UNCHANGED store
    /\ UNCHANGED <<breaker, status, boot, raced, env>>

----------------------------------------------------------------------------
(* Time, Hindsight and the process.                                          *)

Tick ==
    /\ until' = IF until > 0 THEN until - 1 ELSE 0
    /\ circuit' = IF circuit = "open" /\ until' = 0 THEN "half" ELSE circuit
    /\ fails' \in 0..fails
    /\ age' = [r \in Rows |-> IF age[r] <= MaxAge /\ r \in Queued THEN age[r] + 1 ELSE age[r]]
    /\ UNCHANGED <<lastOpen, status, call, queue, rows, took, boot, raced, env>>

HindsightChanges(u) ==
    /\ u # up /\ changes < MaxChanges /\ up' = u /\ changes' = changes + 1
    /\ UNCHANGED <<breaker, status, call, store, boot, raced>>

CallSteps(c) ==
    \/ (\E out \in Outcomes : Answer(c, out)) \/ Backoff(c) \/ ClearQuota(c)
    \/ SetAuthFailed(c) \/ SetQuotaExhausted(c) \/ ReadBreaker(c) \/ WriteStatus(c)
Proceed(c) ==
    \/ CallSteps(c)
    \/ c \in Users /\ Finish(c)
    \/ c = "bank" /\ BankReturns
    \/ c = "drain" /\ DrainReturns

Next ==
    \/ \E c \in Callers : Proceed(c)
    \/ \E u \in Users, kind \in {"recall", "retain"} : Start(u, kind)
    \/ ProbeBank \/ DrainTick \/ Tick
    \/ \E u \in Answering : HindsightChanges(u)

(* Calls have deadlines, time passes, and the intervals of the drain loop    *)
(* and of the probe elapse; a drain tick must find the status Healthy.       *)
Fairness ==
    /\ \A c \in Callers : WF_vars(Proceed(c))
    /\ WF_vars(Tick) /\ WF_vars(ProbeBank) /\ SF_vars(DrainTick)

Spec == Init /\ [][Next]_vars
FairSpec == Spec /\ Fairness

----------------------------------------------------------------------------
\* Type invariant; a circuit has time left exactly while it is open.
TypeOK ==
    /\ circuit \in {"closed", "open", "half"} /\ until \in 0..AuthOpen
    /\ lastOpen \in 1..AuthOpen /\ fails \in 0..(Trip - 1)
    /\ (until > 0) = (circuit = "open")
    /\ status \in Statuses
    /\ \A c \in Callers :
         /\ call[c].pc \in {"idle", "sent", "backoff", "clear", "auth", "quota",
                            "read", "write", "return"}
         /\ call[c].tries <= Retries(call[c].kind)
    /\ queue \in Seq(Rows) /\ age \in [Rows -> 0..(MaxAge + 1)] /\ rows \in 0..MaxRows
    /\ booted \in BOOLEAN /\ probing \in BOOLEAN
    /\ raced \in BOOLEAN /\ took \in BOOLEAN

\* However calls interleave, once none is under way the status says whether the
\* circuit is closed, unless the last write was made from a reading that another
\* call had overtaken; the sticky statuses stand for themselves.
StatusSettles ==
    (\A c \in Callers : At(c, "idle")) /\ ~Sticky /\ ~raced
        => (status = "Healthy") = (circuit = "closed")

\* Hindsight is back for good, and somebody talks to the agent again and again.
Talking == <>[](up = "ok") /\ []<>(\E u \in Users : At(u, "sent") /\ call[u].kind = "recall")

\* An outage ends: with Hindsight back, calls of the worker find their way through
\* open and half-open circuits and the status returns to Healthy, or it is
\* AuthFailed, which waits for a restart.
OutageEnds == Talking => []<>(status \in {"Healthy", "AuthFailed"})

\* The queue empties after an outage, behind a row that is never taken as well:
\* each row is stored, refused or too old in the end, as long as the worker's
\* calls keep the status up to date and it is not AuthFailed for good.
RowsDrain ==
    Talking /\ []<>(status # "AuthFailed")
        => \A r \in Rows : [](r \in Queued => <>(r \notin Queued))

\* Behind the circuit the queue implements PendingRows as well: a row is gone when
\* Hindsight stored or refused it or it was too old, never because the circuit
\* refused the attempt, an outage answered it, or the status changed meanwhile.
Promise == INSTANCE PendingRows WITH
    Cap <- MaxRows,
    pending <- Queued,
    last <- rows,
    taken <- IF took THEN {Head(queue)} ELSE {},
    late <- {r \in Queued : age[r] > MaxAge}
KeepsPromise == Promise!Spec
=============================================================================
