---------------------------- MODULE RetainQueue ----------------------------
(***************************************************************************)
(* The pending-retain lease queue of right-memory and its drainer.         *)
(*                                                                         *)
(* A retain that Hindsight could not take is queued as a row of            *)
(* pending_retains in the agent database.  The Aggregator owns the         *)
(* database and executes enqueue, claim, ack and nack, each in one         *)
(* transaction; the bot's drain loop drives them over IPC.  A claim leases *)
(* the oldest unclaimed rows under a fresh token; the drainer POSTs them   *)
(* one at a time and settles each.  The bot and the owner may crash        *)
(* between any two steps, and a request of a dead bot may still be         *)
(* handled after its successor started.                                    *)
(*                                                                         *)
(* Rows are numbered in insertion order, which is the order of created_at  *)
(* (the index breaks ties by rowid).  Time is relative: Tick advances      *)
(* every age and every lease by one unit.  The contents of a row and its   *)
(* attempts counter are left out: no guard reads them.                     *)
(***************************************************************************)
EXTENDS Integers, FiniteSets

CONSTANTS MaxRows,    \* bound: rows enqueued in a behaviour
          MaxBoots,   \* bound: incarnations of the bot process
          Cap,        \* QUEUE_CAP
          Batch,      \* DRAIN_BATCH
          LeaseTtl,   \* CLAIM_LEASE_TTL, in ticks
          MaxAge,     \* MAX_AGE, in ticks
          Tokens,     \* claim tokens
          NoTok       \* NULL claim_token

ASSUME ConstantsAssumption ==
    /\ MaxRows \in Nat \ {0} /\ MaxBoots \in Nat \ {0}
    /\ Cap \in Nat \ {0} /\ Batch \in Nat \ {0}
    /\ LeaseTtl \in Nat \ {0} /\ MaxAge \in Nat
    /\ NoTok \notin Tokens

Ids == 1..MaxRows
Boots == 1..MaxBoots

SettleOps == {"ack", "retry", "drop"}
Requests == [op : SettleOps, tok : Tokens, id : Ids]
NoReq == [op |-> "none", tok |-> NoTok, id |-> 0]
ClaimReq == [op |-> "claim", tok |-> NoTok, id |-> 0]

VARIABLES
    lastId,     \* ids 1..lastId have been inserted
    live,       \* ids of the rows in pending_retains
    tok,        \* claim_token of a row
    lease,      \* time left until claim_expires_at; 0: expired
    age,        \* time since created_at, saturating at MaxAge + 1
    boot,       \* the running incarnation of the bot
    pc,         \* where its drain loop stands
    batch,      \* rows of its claim it has not settled yet
    mytok,      \* the token of its claim
    left,       \* time left until the lease_expires_at of its claim
    req,        \* the outstanding owner request of each incarnation
    healthy,    \* wrapper.status() is Healthy
    accepted,   \* rows Hindsight stored at least once
    rejected,   \* rows Hindsight answered with a 4xx
    evicted,    \* rows deleted by the cap
    aged        \* rows deleted by the age cap

db == <<lastId, live, tok, lease, age>>
drainer == <<pc, batch, mytok, left>>
upstream == <<accepted, rejected>>
fate == <<evicted, aged>>
vars == <<db, boot, drainer, req, healthy, upstream, fate>>

-----------------------------------------------------------------------------
(* The first k rows of S in insertion order: ORDER BY created_at LIMIT k.   *)
Oldest(S, k) == {i \in S : Cardinality({j \in S : j < i}) < k}

\* the loop of drain_claimed visits its items in that order
IsNext(id) == id \in batch /\ \A j \in batch : id <= j

\* mutant: the expiry column is never compared
NothingExpired == {}

\* reclaim_expired clears these leases
Expired == {i \in live : tok[i] # NoTok /\ lease[i] = 0}

ReclaimedTok == [i \in Ids |-> IF i \in Expired THEN NoTok ELSE tok[i]]

\* DELETE ... LIMIT MAX(0, COUNT(star) - (QUEUE_CAP - 1))
Overflow == Oldest(live, Cardinality(live) - (Cap - 1))

(* enqueue_in_transaction: reclaim, evict down to Cap - 1, insert.  The     *)
(* request comes from the bot or the Aggregator; a lost one changes nothing *)
Enqueue ==
    /\ lastId < MaxRows
    /\ LET id == lastId + 1 IN
       /\ lastId' = id
       /\ live' = (live \ Overflow) \cup {id}
       /\ tok' = [i \in Ids |-> IF i \in Overflow THEN NoTok ELSE ReclaimedTok[i]]
       /\ lease' = [i \in Ids |-> IF i \in Overflow THEN 0 ELSE lease[i]]
       /\ age' = [i \in Ids |-> IF i \in Overflow THEN 0 ELSE age[i]]
    /\ evicted' = evicted \cup Overflow
    /\ UNCHANGED <<boot, drainer, req, healthy, upstream, aged>>

-----------------------------------------------------------------------------
(* The drain loop.                                                          *)

\* one tick of run_drain_loop: skipped unless the status is Healthy
StartDrain ==
    /\ pc = "idle"
    /\ healthy
    /\ pc' = "claiming"
    /\ req' = [req EXCEPT ![boot] = ClaimReq]
    /\ UNCHANGED <<db, boot, batch, mytok, left, healthy, upstream, fate>>

FreshToken(t) ==
    /\ \A i \in Ids : tok[i] # t
    /\ \A b \in Boots : req[b].tok # t
    /\ mytok # t

\* load_unclaimed after the reclaim
Candidates == Oldest({i \in live : ReclaimedTok[i] = NoTok}, Batch)
\* mutant: a row is dropped a tick before it is too old
StaleTooEarly == {i \in Candidates : age[i] >= MaxAge}

Stale == {i \in Candidates : age[i] > MaxAge}
Leased == Candidates \ Stale

(* claim_batch at the owner.  Its answer reaches the drainer if that is     *)
(* still running and the connection holds; otherwise nobody knows the token *)
Claim(b, t, answered) ==
    /\ req[b] = ClaimReq
    /\ FreshToken(t)
    /\ live' = live \ Stale
    /\ tok' = [i \in Ids |-> IF i \in Leased THEN t ELSE ReclaimedTok[i]]
    /\ lease' = [i \in Ids |-> IF i \in Leased THEN LeaseTtl ELSE lease[i]]
    /\ aged' = aged \cup Stale
    /\ req' = [req EXCEPT ![b] = NoReq]
    /\ IF b = boot /\ answered /\ Leased # {}
         THEN /\ pc' = "posting"
              /\ batch' = Leased
              /\ mytok' = t
              /\ left' = LeaseTtl
         ELSE /\ pc' = IF b = boot THEN "idle" ELSE pc
              /\ UNCHANGED <<batch, mytok, left>>
    /\ age' = [i \in Ids |-> IF i \in Stale THEN 0 ELSE age[i]]
    /\ UNCHANGED <<lastId, boot, healthy, upstream, evicted>>

\* the drainer sends the request that settles row id and waits for it
Settle(op, id) ==
    /\ req' = [req EXCEPT ![boot] = [op |-> op, tok |-> mytok, id |-> id]]
    /\ pc' = "settling"
    /\ UNCHANGED <<batch, mytok, left>>

StopTick ==
    /\ pc' = "idle"
    /\ batch' = {}
    /\ mytok' = NoTok
    /\ left' = 0

PostAccepted(id) ==
    /\ pc = "posting" /\ IsNext(id)
    /\ accepted' = accepted \cup {id}
    /\ Settle("ack", id)
    /\ UNCHANGED <<db, boot, healthy, rejected, fate>>

PostRejected(id) ==
    /\ pc = "posting" /\ IsNext(id)
    /\ rejected' = rejected \cup {id}
    /\ Settle("drop", id)
    /\ UNCHANGED <<db, boot, healthy, accepted, fate>>

\* mutant: a transient failure is dropped like a client error
PostTransientDrops(id) ==
    /\ pc = "posting" /\ IsNext(id)
    /\ accepted' \in {accepted, accepted \cup {id}}
    /\ healthy' \in BOOLEAN
    /\ Settle("drop", id)
    /\ UNCHANGED <<db, boot, rejected, fate>>

(* Transient, RateLimited, Malformed or an open circuit.  A timed-out POST  *)
(* may have been stored; the failure may trip the breaker.                  *)
PostTransient(id) ==
    /\ pc = "posting" /\ IsNext(id)
    /\ accepted' \in {accepted, accepted \cup {id}}
    /\ healthy' \in BOOLEAN
    /\ Settle("retry", id)
    /\ UNCHANGED <<db, boot, rejected, fate>>

\* Auth or Quota: stop at once, the batch stays leased; the status is sticky
PostDenied ==
    /\ pc = "posting"
    /\ healthy' = FALSE
    /\ StopTick
    /\ UNCHANGED <<db, boot, req, upstream, fate>>

\* the answer (Ok, Conflict or a transport error, all only logged) to r
Settled(r) ==
    LET rest == IF r.op = "retry" THEN {} ELSE batch \ {r.id} IN
    IF rest = {}
      THEN StopTick
      ELSE /\ batch' = rest
           /\ pc' = "posting"
           /\ UNCHANGED <<mytok, left>>

\* mutant: no claim_token in the WHERE clause
HoldsAnyToken(r) == r.id \in live

\* ack and nack touch a row only while the token still holds its lease
Holds(r) == r.id \in live /\ tok[r.id] = r.tok

Apply(r) ==
    /\ IF Holds(r)
         THEN /\ tok' = [tok EXCEPT ![r.id] = NoTok]
              /\ lease' = [lease EXCEPT ![r.id] = 0]
              /\ IF r.op = "retry"
                   THEN UNCHANGED <<live, age>>
                   ELSE /\ live' = live \ {r.id}
                        /\ age' = [age EXCEPT ![r.id] = 0]
         ELSE UNCHANGED <<live, tok, lease, age>>
    /\ UNCHANGED lastId

HandleSettle(b) ==
    /\ req[b].op \in SettleOps
    /\ Apply(req[b])
    /\ req' = [req EXCEPT ![b] = NoReq]
    /\ IF b = boot THEN Settled(req[b]) ELSE UNCHANGED drainer
    /\ UNCHANGED <<boot, healthy, upstream, fate>>

\* the owner never sees the request; a live drainer gets a transport error
GiveUp ==
    CASE pc = "settling" -> Settled(req[boot])
      [] pc = "claiming" -> pc' = "idle" /\ UNCHANGED <<batch, mytok, left>>
      [] OTHER -> UNCHANGED drainer

Lose(b) ==
    /\ req[b] # NoReq
    /\ req' = [req EXCEPT ![b] = NoReq]
    /\ IF b = boot THEN GiveUp ELSE UNCHANGED drainer
    /\ UNCHANGED <<db, boot, healthy, upstream, fate>>

-----------------------------------------------------------------------------
(* The environment.                                                         *)

\* the bot dies; its request is still under way; the new wrapper is Healthy
BotCrash ==
    /\ boot < MaxBoots
    /\ boot' = boot + 1
    /\ healthy' = TRUE
    /\ StopTick
    /\ UNCHANGED <<db, req, upstream, fate>>

\* the Aggregator dies with every request; open_and_migrate reclaims
OwnerRestart ==
    /\ tok' = ReclaimedTok
    /\ req' = [b \in Boots |-> NoReq]
    /\ GiveUp
    /\ UNCHANGED <<lastId, live, lease, age, boot, healthy, upstream, fate>>

\* recalls, turn retains and the breaker's timers move the memory status
StatusChange ==
    /\ healthy' = ~healthy
    /\ UNCHANGED <<db, boot, drainer, req, upstream, fate>>

Tick ==
    /\ lease' = [i \in Ids |-> IF lease[i] > 0 THEN lease[i] - 1 ELSE 0]
    /\ left' = IF left > 0 THEN left - 1 ELSE 0
    /\ age' = [i \in Ids |-> IF i \in live /\ age[i] <= MaxAge
                               THEN age[i] + 1 ELSE age[i]]
    /\ UNCHANGED <<lastId, live, tok, boot, pc, batch, mytok, req, healthy,
                   upstream, fate>>

Init ==
    /\ lastId = 0 /\ live = {}
    /\ tok = [i \in Ids |-> NoTok]
    /\ lease = [i \in Ids |-> 0] /\ age = [i \in Ids |-> 0]
    /\ boot = 1 /\ pc = "idle" /\ batch = {} /\ mytok = NoTok /\ left = 0
    /\ req = [b \in Boots |-> NoReq]
    /\ healthy = TRUE
    /\ accepted = {} /\ rejected = {} /\ evicted = {} /\ aged = {}

Post ==
    \/ \E id \in Ids : PostAccepted(id) \/ PostRejected(id) \/ PostTransient(id)
    \/ PostDenied

Owner(b) ==
    \/ \E t \in Tokens, answered \in BOOLEAN : Claim(b, t, answered)
    \/ HandleSettle(b)
    \/ Lose(b)

Next ==
    \/ Enqueue
    \/ StartDrain
    \/ Post
    \/ \E b \in Boots : Owner(b)
    \/ BotCrash
    \/ OwnerRestart
    \/ StatusChange
    \/ Tick

ClaimHandled ==
    \E b \in Boots, t \in Tokens, answered \in BOOLEAN : Claim(b, t, answered)

(* Time passes, a running drain tick proceeds, and every request is either  *)
(* handled or lost.  A drain tick starts whenever the 30 s interval elapses *)
(* in a Healthy moment, and claims sent again and again over the local      *)
(* socket are not all lost before the owner sees them, so both are strongly *)
(* fair.  Answers, acks and nacks may all be lost.                          *)
Fairness ==
    /\ WF_vars(Tick)
    /\ WF_vars(Post)
    /\ \A b \in Boots : WF_vars(Owner(b))
    /\ SF_vars(StartDrain)
    /\ SF_vars(ClaimHandled)

Spec == Init /\ [][Next]_vars
FairSpec == Spec /\ Fairness

-----------------------------------------------------------------------------
(* Type invariant of the queue, its drainer and the requests between them.  *)
TypeOK ==
    /\ lastId \in 0..MaxRows
    /\ live \subseteq 1..lastId
    /\ tok \in [Ids -> Tokens \cup {NoTok}]
    /\ lease \in [Ids -> 0..LeaseTtl]
    /\ age \in [Ids -> 0..(MaxAge + 1)]
    /\ boot \in Boots
    /\ pc \in {"idle", "claiming", "posting", "settling"}
    /\ batch \subseteq 1..lastId
    /\ mytok \in Tokens \cup {NoTok}
    /\ left \in 0..LeaseTtl
    /\ req \in [Boots -> Requests \cup {NoReq, ClaimReq}]
    /\ healthy \in BOOLEAN
    /\ accepted \subseteq Ids /\ rejected \subseteq Ids
    /\ evicted \subseteq Ids /\ aged \subseteq Ids

(* A claim is exclusive until it expires: whatever late requests of crashed *)
(* drainers, enqueues, reclaims and restarts happen meanwhile, a row the    *)
(* running drainer has claimed and not settled is either gone or still      *)
(* leased to it, so no other claim can hand it out and its ack cannot       *)
(* conflict (retain_sink.rs, RetainClaim: a stale token can never delete or *)
(* requeue rows claimed by its successor).                                  *)
LeaseHonoured ==
    pc \in {"posting", "settling"} /\ left > 0 =>
        \A i \in batch \cap live : tok[i] = mytok

(* No row is lost silently: a row that left pending_retains was stored by   *)
(* Hindsight, refused by it as a client error, pushed out by the cap or     *)
(* dropped by the age cap, however crashes and lost requests interleave.    *)
NoSilentLoss ==
    (1..lastId) \ live \subseteq accepted \cup rejected \cup evicted \cup aged

(* enqueue's promise that the cap holds after every insert, with leased     *)
(* rows counted and reclaim and eviction in the same transaction.           *)
QueueWithinCap == Cardinality(live) <= Cap

(* The age cap and the lease expiry together empty the queue: as long as    *)
(* the memory status keeps returning to Healthy, every row leaves, even     *)
(* when each claim's answer, ack or nack is lost or its drainer crashes.    *)
EveryRowLeaves ==
    []<>healthy => \A i \in Ids : (i \in live) ~> (i \notin live)

(* The owner and its drainers implement PendingRows: rows that crashed, late *)
(* or repeated requests settle leave because Hindsight took them, the cap    *)
(* pushes out the oldest, and a claim drops nothing but what is too old.     *)
Promise == INSTANCE PendingRows WITH
    pending <- live,
    last <- lastId,
    taken <- live \cap (accepted \cup rejected),
    late <- {i \in live : age[i] > MaxAge}
KeepsPromise == Promise!Spec
=============================================================================
