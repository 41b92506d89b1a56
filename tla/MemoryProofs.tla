---------------------------- MODULE MemoryProofs ----------------------------
(***************************************************************************)
(* Proofs about the memory of an agent: first RetainQueue, for every       *)
(* number of rows, incarnations and tokens and every cap, batch size,      *)
(* lease time and age limit, then MemoryClient, for any users, thresholds, *)
(* durations and retries.  Both implement PendingRows.                     *)
(***************************************************************************)
EXTENDS RetainQueue, FiniteSetTheorems, SequenceTheorems, WellFoundedInduction,
        TLAPS

Working == pc \in {"posting", "settling"}

\* the one outstanding request of the running drainer matches its pc
OwnRequest ==
    /\ pc = "claiming" <=> req[boot] = ClaimReq
    /\ pc = "settling" <=> req[boot].op \in SettleOps
    /\ pc = "settling" => req[boot].tok = mytok /\ req[boot].id \in batch
    /\ Working => batch # {} /\ mytok \in Tokens
    /\ \A b \in Boots : b > boot => req[b] = NoReq

\* no request of a dead incarnation carries the running drainer's token
NoStaleToken ==
    Working => \A b \in Boots \ {boot} : req[b].tok # mytok

\* while the drainer's own view of its lease is unexpired, the rows agree
LeaseView ==
    Working /\ left > 0 =>
        \A i \in batch \cap live : tok[i] = mytok /\ lease[i] = left

\* an ack (a drop) is only ever sent for a row Hindsight took (refused)
SettleBacked ==
    \A b \in Boots :
        /\ req[b].op = "ack" => req[b].id \in accepted
        /\ req[b].op = "drop" => req[b].id \in rejected

IInv == TypeOK /\ OwnRequest /\ NoStaleToken /\ LeaseView /\ SettleBacked
        /\ NoSilentLoss

-----------------------------------------------------------------------------
(* LIMIT k returns rows of the table it selects from.                       *)
LEMMA OldestSubset == \A S, k : Oldest(S, k) \subseteq S
  BY DEF Oldest

(* What reclaim_expired, the eviction and the claim select: live rows, and  *)
(* for the claim only rows without a lease that is still running.           *)
LEMMA SelectionFacts ==
    ASSUME TypeOK
    PROVE  /\ Expired \subseteq live /\ Overflow \subseteq live
           /\ Candidates \subseteq live /\ Stale \subseteq live
           /\ Leased \subseteq live /\ Leased \cap Stale = {}
           /\ live \subseteq Ids
           /\ ReclaimedTok \in [Ids -> Tokens \cup {NoTok}]
           /\ \A i \in live : lease[i] > 0 => ReclaimedTok[i] = tok[i]
           /\ \A i \in Candidates : ReclaimedTok[i] = NoTok
<1>1. live \subseteq Ids
  BY ConstantsAssumption DEF TypeOK, Ids
<1>2. Expired \subseteq live /\ Overflow \subseteq live
  BY OldestSubset DEF Expired, Overflow
<1>3. Candidates \subseteq {i \in live : ReclaimedTok[i] = NoTok}
  BY OldestSubset DEF Candidates
<1>4. Stale \subseteq Candidates /\ Leased \subseteq Candidates /\ Leased \cap Stale = {}
  BY DEF Stale, Leased
<1>5. ReclaimedTok \in [Ids -> Tokens \cup {NoTok}]
  BY DEF TypeOK, ReclaimedTok
<1>6. \A i \in live : lease[i] > 0 => ReclaimedTok[i] = tok[i]
  BY <1>1 DEF ReclaimedTok, Expired
<1> QED  BY <1>1, <1>2, <1>3, <1>4, <1>5, <1>6

(* The initial state satisfies the inductive invariant.                     *)
LEMMA InitInv == Init => IInv
<1> SUFFICES ASSUME Init PROVE IInv
  OBVIOUS
<1> USE ConstantsAssumption
<1>1. TypeOK
  BY DEF Init, TypeOK, Boots, Ids, Requests
<1>2. OwnRequest /\ NoStaleToken /\ LeaseView
  BY DEF Init, OwnRequest, NoStaleToken, LeaseView, Working, NoReq, ClaimReq,
         SettleOps, Boots
<1>3. SettleBacked /\ NoSilentLoss
  BY DEF Init, SettleBacked, NoSilentLoss, NoReq
<1> QED  BY <1>1, <1>2, <1>3 DEF IInv

(* Enqueue keeps the invariant: eviction only removes rows, reclaim only    *)
(* touches leases that have run out.                                        *)
LEMMA EnqueueInv == IInv /\ Enqueue => IInv'
<1> SUFFICES ASSUME IInv, Enqueue PROVE IInv'
  OBVIOUS
<1> USE ConstantsAssumption, SelectionFacts DEF IInv
<1>0. /\ lastId \in Nat /\ lastId < MaxRows /\ lastId' = lastId + 1
      /\ lastId + 1 \in Ids /\ lastId + 1 \notin live /\ lastId + 1 \notin batch
      /\ live' = (live \ Overflow) \cup {lastId + 1}
  BY DEF Enqueue, TypeOK, Ids
<1>1. TypeOK'
  <2>1. /\ lastId' \in 0..MaxRows
        /\ live' \subseteq 1..lastId' /\ batch' \subseteq 1..lastId'
    <3>1. live \subseteq 1..lastId /\ batch' = batch /\ batch \subseteq 1..lastId
      BY DEF TypeOK, Enqueue, drainer
    <3>2. 1..lastId \subseteq 1..lastId' /\ lastId + 1 \in 1..lastId'
      BY <1>0
    <3>3. lastId' \in 0..MaxRows
      BY <1>0
    <3> QED  BY <1>0, <3>1, <3>2, <3>3
  <2>2. /\ tok' \in [Ids -> Tokens \cup {NoTok}]
        /\ lease' \in [Ids -> 0..LeaseTtl]
        /\ age' \in [Ids -> 0..(MaxAge + 1)]
    BY DEF Enqueue, TypeOK
  <2>3. evicted' \subseteq Ids
    BY DEF Enqueue, TypeOK
  <2> QED  BY <2>1, <2>2, <2>3 DEF Enqueue, TypeOK, drainer, upstream
<1>2. OwnRequest' /\ NoStaleToken'
  BY DEF Enqueue, drainer, OwnRequest, NoStaleToken, Working
<1>3. LeaseView'
  <2> SUFFICES ASSUME Working', left' > 0, NEW i \in batch' \cap live'
               PROVE  tok'[i] = mytok' /\ lease'[i] = left'
    BY DEF LeaseView
  <2>1. Working /\ left > 0 /\ i \in batch /\ mytok' = mytok /\ left' = left
    BY DEF Enqueue, drainer, Working
  <2>2. CASE i \in live
    <3>1. i \in Ids /\ i \notin Overflow
      BY <1>0, <2>2 DEF Enqueue
    <3>2. tok[i] = mytok /\ lease[i] = left
      BY <2>1, <2>2 DEF LeaseView
    <3> QED  BY <2>1, <2>2, <3>1, <3>2 DEF Enqueue
  <2>3. CASE i = lastId + 1
    BY <2>1, <2>3, <1>0
  <2> QED  BY <2>2, <2>3, <1>0
<1>4. SettleBacked'
  BY DEF Enqueue, SettleBacked, upstream
<1>5. NoSilentLoss'
  BY <1>0 DEF Enqueue, NoSilentLoss, upstream, TypeOK
<1> QED  BY <1>1, <1>2, <1>3, <1>4, <1>5

(* Starting a tick only sends the claim.                                    *)
LEMMA StartDrainInv == IInv /\ StartDrain => IInv'
<1> SUFFICES ASSUME IInv, StartDrain PROVE IInv'
  OBVIOUS
<1> USE ConstantsAssumption DEF IInv
<1>1. TypeOK'
  BY DEF StartDrain, TypeOK, db, upstream, fate
<1>2. OwnRequest'
  BY DEF StartDrain, OwnRequest, Working, TypeOK, ClaimReq, NoReq, SettleOps, Boots
<1>3. NoStaleToken' /\ LeaseView'
  BY DEF StartDrain, NoStaleToken, LeaseView, Working
<1>4. SettleBacked' /\ NoSilentLoss'
  BY DEF StartDrain, SettleBacked, NoSilentLoss, ClaimReq, TypeOK, db, upstream, fate
<1> QED  BY <1>1, <1>2, <1>3, <1>4

(* A claim keeps the invariant: it leases only rows that no running lease   *)
(* holds, under a token no request carries.                                 *)
LEMMA ClaimInv ==
    ASSUME NEW b \in Boots, NEW t \in Tokens, NEW answered \in BOOLEAN
    PROVE  IInv /\ Claim(b, t, answered) => IInv'
<1> SUFFICES ASSUME IInv, Claim(b, t, answered) PROVE IInv'
  OBVIOUS
<1> USE ConstantsAssumption, SelectionFacts DEF IInv
<1>0. /\ b = boot => pc = "claiming" /\ ~Working
      /\ t # NoTok /\ mytok # t /\ \A c \in Boots : req[c].tok # t
      /\ req[b] = ClaimReq
  BY DEF Claim, OwnRequest, FreshToken, Working
<1>1. /\ live' = live \ Stale /\ lastId' = lastId /\ boot' = boot
      /\ req' = [req EXCEPT ![b] = NoReq]
      /\ tok' = [i \in Ids |-> IF i \in Leased THEN t ELSE ReclaimedTok[i]]
      /\ lease' = [i \in Ids |-> IF i \in Leased THEN LeaseTtl ELSE lease[i]]
      /\ aged' = aged \cup Stale
      /\ UNCHANGED <<accepted, rejected, evicted>>
  BY DEF Claim, upstream
<1>2. TypeOK'
  <2>1. batch' \subseteq 1..lastId' /\ live' \subseteq 1..lastId'
    BY <1>1 DEF Claim, TypeOK
  <2>2. /\ tok' \in [Ids -> Tokens \cup {NoTok}]
        /\ lease' \in [Ids -> 0..LeaseTtl]
        /\ age' \in [Ids -> 0..(MaxAge + 1)]
        /\ aged' \subseteq Ids
    <3>1. tok' \in [Ids -> Tokens \cup {NoTok}]
      BY <1>1
    <3>2. lease' \in [Ids -> 0..LeaseTtl]
      BY <1>1 DEF TypeOK
    <3>3. age' \in [Ids -> 0..(MaxAge + 1)]
      BY DEF Claim, TypeOK
    <3> QED  BY <1>1, <3>1, <3>2, <3>3 DEF TypeOK
  <2>3. req' \in [Boots -> Requests \cup {NoReq, ClaimReq}]
    BY <1>1 DEF TypeOK
  <2>4. /\ pc' \in {"idle", "claiming", "posting", "settling"}
        /\ mytok' \in Tokens \cup {NoTok} /\ left' \in 0..LeaseTtl
    BY DEF Claim, TypeOK
  <2> QED  BY <1>1, <2>1, <2>2, <2>3, <2>4 DEF Claim, TypeOK, upstream
<1>3. CASE b = boot /\ answered /\ Leased # {}
  <2>1. /\ pc' = "posting" /\ batch' = Leased /\ mytok' = t /\ left' = LeaseTtl
    BY <1>3 DEF Claim
  <2>2. OwnRequest'
    BY <1>0, <1>1, <1>3, <2>1 DEF OwnRequest, Working, TypeOK, NoReq, ClaimReq, SettleOps
  <2>3. NoStaleToken'
    BY <1>0, <1>1, <1>3, <2>1 DEF NoStaleToken, Working, TypeOK, NoReq
  <2>4. LeaseView'
    BY <1>1, <2>1 DEF LeaseView, TypeOK
  <2> QED  BY <1>2, <2>2, <2>3, <2>4, <1>1 DEF SettleBacked, NoSilentLoss, NoReq, TypeOK
<1>4. CASE ~(b = boot /\ answered /\ Leased # {})
  <2>1. /\ pc' = (IF b = boot THEN "idle" ELSE pc)
        /\ UNCHANGED <<batch, mytok, left>>
    BY <1>4 DEF Claim
  <2>2. OwnRequest'
    BY <1>0, <1>1, <2>1 DEF OwnRequest, Working, TypeOK, NoReq, ClaimReq, SettleOps
  <2>3. NoStaleToken'
    BY <1>0, <1>1, <2>1 DEF NoStaleToken, OwnRequest, Working, TypeOK, NoReq
  <2>4. LeaseView'
    <3> SUFFICES ASSUME Working', left' > 0, NEW i \in batch' \cap live'
                 PROVE  tok'[i] = mytok' /\ lease'[i] = left'
      BY DEF LeaseView
    <3>1. Working /\ left > 0 /\ i \in batch \cap live
      BY <1>1, <2>1 DEF Working
    <3>2. tok[i] = mytok /\ lease[i] = left /\ mytok # NoTok
      BY <3>1 DEF LeaseView, OwnRequest
    <3>3. i \notin Leased /\ ReclaimedTok[i] = tok[i] /\ i \in Ids
      BY <3>1, <3>2 DEF Leased
    <3> QED  BY <1>1, <2>1, <3>2, <3>3
  <2> QED  BY <1>2, <2>2, <2>3, <2>4, <1>1 DEF SettleBacked, NoSilentLoss, NoReq, TypeOK
<1> QED  BY <1>3, <1>4

(* Sending a settle request: it carries the drainer's own token and a row   *)
(* of its batch, and an ack or a drop what Hindsight answered.              *)
LEMMA SettleInv ==
    ASSUME IInv, NEW id \in Ids, NEW op \in SettleOps,
           pc = "posting", IsNext(id), Settle(op, id),
           UNCHANGED <<db, boot, fate>>, healthy' \in BOOLEAN,
           accepted \subseteq accepted', accepted' \subseteq Ids,
           rejected \subseteq rejected', rejected' \subseteq Ids,
           op = "ack" => id \in accepted', op = "drop" => id \in rejected'
    PROVE  IInv'
<1> USE ConstantsAssumption DEF IInv
<1> DEFINE r == [op |-> op, tok |-> mytok, id |-> id]
<1>0. /\ Working /\ mytok \in Tokens /\ id \in batch /\ boot \in Boots
      /\ req' = [req EXCEPT ![boot] = r] /\ pc' = "settling"
      /\ UNCHANGED <<batch, mytok, left, boot>>
  BY DEF Settle, OwnRequest, Working, IsNext, TypeOK
<1>1. r \in Requests
  BY <1>0 DEF Requests
<1>2. TypeOK'
  <2>1. req' \in [Boots -> Requests \cup {NoReq, ClaimReq}]
    BY <1>0, <1>1 DEF TypeOK
  <2> QED  BY <1>0, <2>1 DEF TypeOK, db, fate
<1>3. OwnRequest'
  BY <1>0 DEF OwnRequest, Working, TypeOK, NoReq, ClaimReq, Boots, SettleOps
<1>4. NoStaleToken' /\ LeaseView'
  BY <1>0 DEF NoStaleToken, LeaseView, Working, TypeOK, db
<1>5. SettleBacked' /\ NoSilentLoss'
  BY <1>0 DEF SettleBacked, NoSilentLoss, TypeOK, db, fate
<1> QED  BY <1>2, <1>3, <1>4, <1>5

(* Every outcome of a POST keeps the invariant.                             *)
LEMMA PostInv == IInv /\ Post => IInv'
<1> SUFFICES ASSUME IInv, Post PROVE IInv'
  OBVIOUS
<1>1. ASSUME NEW id \in Ids, PostAccepted(id) PROVE IInv'
  BY <1>1, SettleInv DEF PostAccepted, SettleOps, IInv, TypeOK
<1>2. ASSUME NEW id \in Ids, PostRejected(id) PROVE IInv'
  BY <1>2, SettleInv DEF PostRejected, SettleOps, IInv, TypeOK
<1>3. ASSUME NEW id \in Ids, PostTransient(id) PROVE IInv'
  BY <1>3, SettleInv DEF PostTransient, SettleOps, IInv, TypeOK
<1>4. CASE PostDenied
  <2> USE ConstantsAssumption DEF IInv
  <2>1. TypeOK'
    <3>1. healthy' \in BOOLEAN
      BY <1>4, Zenon DEF PostDenied
    <3>2. /\ pc' = "idle" /\ batch' = {} /\ mytok' = NoTok /\ left' = 0
          /\ UNCHANGED <<db, boot, req, upstream, fate>>
      BY <1>4 DEF PostDenied, StopTick
    <3> QED  BY <3>1, <3>2 DEF TypeOK, db, upstream, fate
  <2>2. OwnRequest' /\ NoStaleToken' /\ LeaseView'
    BY <1>4 DEF PostDenied, StopTick, OwnRequest, NoStaleToken, LeaseView, Working
  <2>3. SettleBacked' /\ NoSilentLoss'
    BY <1>4 DEF PostDenied, SettleBacked, NoSilentLoss, TypeOK, db, upstream, fate
  <2> QED  BY <2>1, <2>2, <2>3
<1> QED  BY <1>1, <1>2, <1>3, <1>4 DEF Post

(* The drainer's side of an answered or lost settle request.                *)
LEMMA SettledDrainer ==
    ASSUME IInv, pc = "settling", Settled(req[boot]), boot' = boot,
           lastId' = lastId, req'[boot] = NoReq,
           \A c \in Boots \ {boot} : req'[c] \in {req[c], NoReq}
    PROVE  /\ OwnRequest' /\ NoStaleToken'
           /\ batch' \subseteq batch \ {req[boot].id}
           /\ mytok' \in Tokens \cup {NoTok} /\ left' \in 0..LeaseTtl
           /\ pc' \in {"idle", "posting"}
           /\ Working' => mytok' = mytok /\ left' = left
<1> USE ConstantsAssumption DEF IInv
<1>1. \/ /\ pc' = "idle" /\ batch' = {} /\ mytok' = NoTok /\ left' = 0
      \/ /\ pc' = "posting" /\ batch' = batch \ {req[boot].id} /\ batch' # {}
         /\ mytok' = mytok /\ left' = left
  BY DEF Settled, StopTick
<1>2. OwnRequest'
  BY <1>1 DEF OwnRequest, Working, NoReq, ClaimReq, SettleOps, TypeOK
<1>3. NoStaleToken'
  BY <1>1 DEF NoStaleToken, Working, OwnRequest, NoReq, TypeOK
<1> QED  BY <1>1, <1>2, <1>3 DEF TypeOK, Working

(* The owner's side of an ack or a nack: rows under another token are not   *)
(* touched, and a row leaves only if the request was backed.                *)
LEMMA ApplyFacts ==
    ASSUME IInv, NEW b \in Boots, req[b].op \in SettleOps, Apply(req[b])
    PROVE  /\ lastId' = lastId /\ live' \subseteq live
           /\ tok' \in [Ids -> Tokens \cup {NoTok}]
           /\ lease' \in [Ids -> 0..LeaseTtl]
           /\ age' \in [Ids -> 0..(MaxAge + 1)]
           /\ \A i \in Ids \ {req[b].id} : tok'[i] = tok[i] /\ lease'[i] = lease[i]
           /\ tok[req[b].id] # req[b].tok =>
                 tok'[req[b].id] = tok[req[b].id] /\ lease'[req[b].id] = lease[req[b].id]
           /\ live \ live' \subseteq accepted \cup rejected
<1> USE ConstantsAssumption DEF IInv
<1> DEFINE r == req[b]
<1>1. r \in Requests
  BY DEF TypeOK, NoReq, ClaimReq, SettleOps
<1>2. r.id \in Ids /\ r.op \in SettleOps
  BY <1>1 DEF Requests
<1>3. CASE Holds(r)
  <2>1. /\ tok' = [tok EXCEPT ![r.id] = NoTok]
        /\ lease' = [lease EXCEPT ![r.id] = 0] /\ lastId' = lastId
        /\ tok[r.id] = r.tok
    BY <1>3 DEF Apply, Holds
  <2>2. CASE r.op = "retry"
    BY <1>2, <2>1, <2>2, <1>3 DEF Apply, TypeOK
  <2>3. CASE r.op # "retry"
    <3>1. live' = live \ {r.id} /\ age' = [age EXCEPT ![r.id] = 0]
      BY <1>3, <2>3 DEF Apply
    <3>2. r.id \in accepted \cup rejected
      BY <1>2, <2>3 DEF SettleBacked, SettleOps
    <3> QED  BY <1>2, <2>1, <3>1, <3>2 DEF TypeOK
  <2> QED  BY <2>2, <2>3
<1>4. CASE ~Holds(r)
  BY <1>4 DEF Apply, TypeOK
<1> QED  BY <1>3, <1>4

(* Handling an ack or a nack, of the running drainer or of a dead one.      *)
LEMMA HandleSettleInv ==
    ASSUME NEW b \in Boots PROVE IInv /\ HandleSettle(b) => IInv'
<1> SUFFICES ASSUME IInv, HandleSettle(b) PROVE IInv'
  OBVIOUS
<1> USE ConstantsAssumption DEF IInv
<1>1. /\ req[b].op \in SettleOps /\ Apply(req[b])
      /\ req' = [req EXCEPT ![b] = NoReq]
      /\ UNCHANGED <<boot, healthy, accepted, rejected, evicted, aged>>
  BY DEF HandleSettle, upstream, fate
<1>2. /\ lastId' = lastId /\ live' \subseteq live
      /\ tok' \in [Ids -> Tokens \cup {NoTok}]
      /\ lease' \in [Ids -> 0..LeaseTtl]
      /\ age' \in [Ids -> 0..(MaxAge + 1)]
      /\ live \ live' \subseteq accepted \cup rejected
  BY <1>1, ApplyFacts
<1>3. /\ OwnRequest' /\ NoStaleToken'
      /\ batch' \subseteq batch
      /\ mytok' \in Tokens \cup {NoTok} /\ left' \in 0..LeaseTtl
      /\ pc' \in {"idle", "claiming", "posting", "settling"}
      /\ Working' => Working /\ mytok' = mytok /\ left' = left
      /\ b = boot => pc = "settling" /\ batch' \subseteq batch \ {req[b].id}
  <2>1. CASE b = boot
    <3>1. pc = "settling" /\ Settled(req[boot])
      BY <1>1, <2>1 DEF HandleSettle, OwnRequest
    <3>2. /\ req'[boot] = NoReq
          /\ \A c \in Boots \ {boot} : req'[c] \in {req[c], NoReq}
      BY <1>1, <2>1 DEF TypeOK
    <3>3. boot' = boot /\ lastId' = lastId
      BY <1>1, <1>2
    <3>4. /\ OwnRequest' /\ NoStaleToken'
          /\ batch' \subseteq batch \ {req[boot].id}
          /\ mytok' \in Tokens \cup {NoTok} /\ left' \in 0..LeaseTtl
          /\ pc' \in {"idle", "posting"}
          /\ Working' => mytok' = mytok /\ left' = left
      BY <3>1, <3>2, <3>3, SettledDrainer
    <3> QED  BY <2>1, <3>1, <3>4 DEF Working
  <2>2. CASE b # boot
    <3>1. UNCHANGED <<pc, batch, mytok, left>>
      BY <2>2 DEF HandleSettle, drainer
    <3>2. OwnRequest'
      BY <1>1, <2>2, <3>1 DEF OwnRequest, Working, TypeOK
    <3>3. NoStaleToken'
      BY <1>1, <2>2, <3>1 DEF NoStaleToken, Working, OwnRequest, TypeOK, NoReq
    <3> QED  BY <2>2, <3>1, <3>2, <3>3 DEF TypeOK, Working
  <2> QED  BY <2>1, <2>2
<1>4. TypeOK'
  <2>1. req' \in [Boots -> Requests \cup {NoReq, ClaimReq}]
    BY <1>1 DEF TypeOK
  <2>2. live' \subseteq 1..lastId' /\ batch' \subseteq 1..lastId'
    BY <1>2, <1>3 DEF TypeOK
  <2> QED  BY <1>1, <1>2, <1>3, <2>1, <2>2 DEF TypeOK
<1>5. LeaseView'
  <2> SUFFICES ASSUME Working', left' > 0, NEW i \in batch' \cap live'
               PROVE  tok'[i] = mytok' /\ lease'[i] = left'
    BY DEF LeaseView
  <2>1. tok[i] = mytok /\ lease[i] = left /\ i \in Ids
    BY <1>2, <1>3, SelectionFacts DEF LeaseView
  <2>2. i = req[b].id => b # boot /\ tok[i] # req[b].tok
    BY <1>3, <2>1 DEF NoStaleToken
  <2>3. tok'[i] = tok[i] /\ lease'[i] = lease[i]
    BY <1>1, <2>1, <2>2, ApplyFacts
  <2> QED  BY <1>3, <2>1, <2>3
<1>6. SettleBacked' /\ NoSilentLoss'
  BY <1>1, <1>2 DEF SettleBacked, NoSilentLoss, TypeOK, NoReq
<1> QED  BY <1>3, <1>4, <1>5, <1>6

(* A request that vanishes, with or without an owner restart: the drainer   *)
(* goes on as after an answer, and the rows keep every running lease.       *)
LEMMA GiveUpInv ==
    ASSUME IInv, GiveUp, req'[boot] = NoReq,
           req' \in [Boots -> Requests \cup {NoReq, ClaimReq}],
           \A c \in Boots \ {boot} : req'[c] \in {req[c], NoReq},
           tok' \in {tok, ReclaimedTok},
           UNCHANGED <<lastId, live, lease, age, boot, healthy, upstream, fate>>
    PROVE  IInv'
<1> USE ConstantsAssumption, SelectionFacts DEF IInv
<1>1. /\ OwnRequest' /\ NoStaleToken'
      /\ batch' \subseteq batch
      /\ mytok' \in Tokens \cup {NoTok} /\ left' \in 0..LeaseTtl
      /\ pc' \in {"idle", "claiming", "posting", "settling"}
      /\ Working' => Working /\ mytok' = mytok /\ left' = left
  <2>1. CASE pc = "settling"
    <3>1. Settled(req[boot])
      BY <2>1 DEF GiveUp
    <3>2. /\ OwnRequest' /\ NoStaleToken'
          /\ batch' \subseteq batch \ {req[boot].id}
          /\ mytok' \in Tokens \cup {NoTok} /\ left' \in 0..LeaseTtl
          /\ pc' \in {"idle", "posting"}
          /\ Working' => mytok' = mytok /\ left' = left
      BY <2>1, <3>1, SettledDrainer
    <3> QED  BY <2>1, <3>2 DEF Working
  <2>2. CASE pc # "settling"
    <3>1. /\ pc' = IF pc = "claiming" THEN "idle" ELSE pc
          /\ UNCHANGED <<batch, mytok, left>>
      BY <2>2 DEF GiveUp, drainer
    <3>2. OwnRequest'
      BY <2>2, <3>1 DEF OwnRequest, Working, NoReq, ClaimReq, SettleOps, TypeOK
    <3>3. NoStaleToken'
      BY <2>2, <3>1 DEF NoStaleToken, Working, OwnRequest, NoReq, TypeOK
    <3> QED  BY <2>2, <3>1, <3>2, <3>3 DEF TypeOK, Working
  <2> QED  BY <2>1, <2>2
<1>2. TypeOK'
  <2>2. tok' \in [Ids -> Tokens \cup {NoTok}]
    BY DEF TypeOK
  <2> QED  BY <1>1, <2>2 DEF TypeOK, upstream, fate
<1>3. LeaseView'
  BY <1>1 DEF LeaseView
<1>4. SettleBacked' /\ NoSilentLoss'
  BY DEF SettleBacked, NoSilentLoss, NoReq, upstream, fate
<1> QED  BY <1>1, <1>2, <1>3, <1>4

(* A lost request keeps the invariant.                                      *)
LEMMA LoseInv == ASSUME NEW b \in Boots PROVE IInv /\ Lose(b) => IInv'
<1> SUFFICES ASSUME IInv, Lose(b) PROVE IInv'
  OBVIOUS
<1> USE ConstantsAssumption
<1>1. /\ req' = [req EXCEPT ![b] = NoReq] /\ req \in [Boots -> Requests \cup {NoReq, ClaimReq}]
      /\ UNCHANGED <<lastId, live, tok, lease, age, boot, healthy, upstream, fate>>
  BY DEF Lose, db, IInv, TypeOK
<1>2. CASE b = boot
  BY <1>1, <1>2, GiveUpInv DEF Lose
<1>3. CASE b # boot
  <2> USE DEF IInv
  <2>1. UNCHANGED <<pc, batch, mytok, left>>
    BY <1>3 DEF Lose, drainer
  <2>2. req' \in [Boots -> Requests \cup {NoReq, ClaimReq}]
    BY <1>1
  <2>3. TypeOK'
    BY <1>1, <2>1, <2>2 DEF TypeOK, upstream, fate
  <2>4. OwnRequest'
    BY <1>1, <1>3, <2>1 DEF OwnRequest, Working, TypeOK
  <2>5. NoStaleToken' /\ LeaseView'
    BY <1>1, <1>3, <2>1 DEF NoStaleToken, LeaseView, Working, OwnRequest, NoReq
  <2>6. SettleBacked' /\ NoSilentLoss'
    BY <1>1 DEF SettleBacked, NoSilentLoss, NoReq, upstream, fate
  <2> QED  BY <2>3, <2>4, <2>5, <2>6
<1> QED  BY <1>2, <1>3

(* The death of the owner process loses requests and reclaims only leases   *)
(* that have run out.                                                       *)
LEMMA OwnerRestartInv == IInv /\ OwnerRestart => IInv'
<1> SUFFICES ASSUME IInv, OwnerRestart PROVE IInv'
  OBVIOUS
<1>1. boot \in Boots
  BY DEF IInv, TypeOK
<1> QED  BY <1>1, GiveUpInv DEF OwnerRestart

(* The new incarnation of a crashed bot starts without claim and request.   *)
LEMMA BotCrashInv == IInv /\ BotCrash => IInv'
<1> SUFFICES ASSUME IInv, BotCrash PROVE IInv'
  OBVIOUS
<1> USE ConstantsAssumption DEF IInv
<1>1. /\ boot \in Nat /\ boot' = boot + 1 /\ boot' \in Boots
      /\ pc' = "idle" /\ batch' = {} /\ mytok' = NoTok /\ left' = 0
      /\ UNCHANGED <<db, req, upstream, fate>>
  BY DEF BotCrash, StopTick, TypeOK, Boots
<1>2. healthy' \in BOOLEAN
  BY Zenon DEF BotCrash
<1>3. TypeOK'
  BY <1>1, <1>2 DEF TypeOK, db, upstream, fate
<1>4. OwnRequest'
  BY <1>1 DEF OwnRequest, Working, NoReq, ClaimReq, SettleOps, Boots
<1>5. NoStaleToken' /\ LeaseView'
  BY <1>1 DEF NoStaleToken, LeaseView, Working
<1>6. SettleBacked' /\ NoSilentLoss'
  BY <1>1 DEF SettleBacked, NoSilentLoss, db, upstream, fate
<1> QED  BY <1>3, <1>4, <1>5, <1>6

(* Time runs equally for the rows' leases and the drainer's view of them.   *)
LEMMA TickInv == IInv /\ Tick => IInv'
<1> SUFFICES ASSUME IInv, Tick PROVE IInv'
  OBVIOUS
<1> USE ConstantsAssumption DEF IInv
<1>1. TypeOK'
  <2>1. lease' \in [Ids -> 0..LeaseTtl] /\ left' \in 0..LeaseTtl
    BY DEF Tick, TypeOK
  <2>2. age' \in [Ids -> 0..(MaxAge + 1)]
    BY DEF Tick, TypeOK
  <2> QED  BY <2>1, <2>2 DEF Tick, TypeOK, upstream, fate
<1>2. OwnRequest' /\ NoStaleToken'
  BY DEF Tick, OwnRequest, NoStaleToken, Working
<1>3. LeaseView'
  BY SelectionFacts DEF Tick, LeaseView, Working, TypeOK
<1>4. SettleBacked' /\ NoSilentLoss'
  BY DEF Tick, SettleBacked, NoSilentLoss, upstream, fate
<1> QED  BY <1>1, <1>2, <1>3, <1>4

(* The memory status is not part of the lease protocol.                     *)
LEMMA StatusChangeInv == IInv /\ StatusChange => IInv'
<1> SUFFICES ASSUME IInv, StatusChange PROVE IInv'
  OBVIOUS
<1> USE DEF IInv
<1>1. healthy' \in BOOLEAN
  BY Zenon DEF StatusChange
<1> QED
  BY <1>1 DEF StatusChange, TypeOK, OwnRequest, NoStaleToken, LeaseView, Working,
              SettleBacked, NoSilentLoss, db, drainer, upstream, fate

(* Every step keeps the inductive invariant.                                *)
LEMMA StepInv == IInv /\ [Next]_vars => IInv'
<1> SUFFICES ASSUME IInv, [Next]_vars PROVE IInv'
  OBVIOUS
<1>1. ASSUME NEW b \in Boots, Owner(b) PROVE IInv'
  BY <1>1, ClaimInv, HandleSettleInv, LoseInv DEF Owner
<1>2. CASE UNCHANGED vars
  BY <1>2 DEF vars, db, drainer, upstream, fate, IInv, TypeOK, OwnRequest,
              NoStaleToken, LeaseView, Working, SettleBacked, NoSilentLoss
<1> QED
  BY <1>1, <1>2, EnqueueInv, StartDrainInv, PostInv, BotCrashInv, OwnerRestartInv,
     StatusChangeInv, TickInv DEF Next

(* The inductive invariant holds throughout, for all constants.             *)
THEOREM InductiveInvariant == Spec => []IInv
<1>1. Init => IInv
  BY InitInv
<1>2. IInv /\ [Next]_vars => IInv'
  BY StepInv
<1> QED  BY <1>1, <1>2, PTL DEF Spec

(* Type correctness of the queue, its drainer and their requests.           *)
THEOREM TypeCorrect == Spec => []TypeOK
<1>1. IInv => TypeOK
  BY DEF IInv
<1> QED  BY <1>1, InductiveInvariant, PTL

(* Leases are exclusive until they expire: no late ack or nack of a crashed *)
(* drainer, no enqueue, reclaim or restart takes a claimed row away from    *)
(* the running drainer before its lease ends (retain_queue.rs, claim_batch, *)
(* ack and nack).                                                           *)
THEOREM LeasesAreHonoured == Spec => []LeaseHonoured
<1>1. IInv => LeaseHonoured
  BY DEF IInv, LeaseView, LeaseHonoured, Working
<1> QED  BY <1>1, InductiveInvariant, PTL

(* No queued retain disappears without Hindsight having answered for it or  *)
(* one of the two documented caps having dropped it.                        *)
THEOREM NothingLostSilently == Spec => []NoSilentLoss
<1>1. IInv => NoSilentLoss
  BY DEF IInv
<1> QED  BY <1>1, InductiveInvariant, PTL

-----------------------------------------------------------------------------
(* The cap.  What remains after LIMIT k took its rows starts at a row with k *)
(* rows before it, all of which it took.                                    *)
LEMMA LeastElement ==
    ASSUME NEW T \in SUBSET Nat, T # {}
    PROVE  \E m \in T : \A j \in T : ~(j < m)
<1>1. PICK m \in T : \A j \in T : <<j, m>> \notin OpToRel(<, Nat)
  BY NatLessThanWellFounded, WFMin
<1>2. \A j \in T : j < m => <<j, m>> \in OpToRel(<, Nat)
  BY DEF OpToRel
<1> QED  BY <1>1, <1>2

LEMMA OldestTakes ==
    ASSUME NEW S \in SUBSET Nat, IsFiniteSet(S), NEW k \in Int
    PROVE  \/ S \ Oldest(S, k) = {}
           \/ Cardinality(S \ Oldest(S, k)) <= Cardinality(S) - k
<1> DEFINE R == S \ Oldest(S, k)
<1> SUFFICES ASSUME R # {} PROVE Cardinality(R) <= Cardinality(S) - k
  OBVIOUS
<1>1. PICK m \in R : \A j \in R : ~(j < m)
  BY LeastElement
<1> DEFINE B == {j \in S : j < m}
<1>2. B \in SUBSET S /\ R \in SUBSET S /\ B \cap R = {}
  BY <1>1
<1>3. IsFiniteSet(B) /\ Cardinality(B) \in Int
  BY <1>2, FS_Subset, FS_CardinalityType
<1>4. ~(Cardinality(B) < k)
  BY <1>1 DEF Oldest
<1>5. IsFiniteSet(R) /\ Cardinality(R) \in Int
  BY <1>2, FS_Subset, FS_CardinalityType
<1>6. IsFiniteSet(S \ B) /\ Cardinality(S \ B) \in Int
      /\ Cardinality(S \ B) = Cardinality(S) - Cardinality(B)
  <2>1. S \cap B = B
    BY <1>2
  <2>2. IsFiniteSet(S \ B) /\ Cardinality(S \ B) = Cardinality(S) - Cardinality(S \cap B)
    BY FS_Difference
  <2>3. Cardinality(S \ B) \in Int
    BY <2>2, FS_CardinalityType
  <2> QED  BY <2>1, <2>2, <2>3
<1>7. Cardinality(R) <= Cardinality(S \ B)
  BY <1>2, <1>6, FS_Subset
<1>8. Cardinality(S) \in Int
  BY FS_CardinalityType
<1> QED  BY <1>3, <1>4, <1>5, <1>6, <1>7, <1>8
(* Rows only come from enqueue, which makes room first; every other step     *)
(* takes rows away or leaves them.                                           *)
CapInv == IInv /\ QueueWithinCap

LEMMA LiveFinite == TypeOK => IsFiniteSet(live) /\ live \in SUBSET Nat
<1> SUFFICES ASSUME TypeOK PROVE IsFiniteSet(live) /\ live \in SUBSET Nat
  OBVIOUS
<1>1. lastId \in Nat /\ live \subseteq 1..lastId
  BY ConstantsAssumption DEF TypeOK
<1>2. IsFiniteSet(1..lastId)
  BY <1>1, FS_Interval
<1>3. live \in SUBSET (1..lastId)
  BY <1>1
<1>4. IsFiniteSet(live)
  BY <1>2, <1>3, FS_Subset
<1> QED  BY <1>1, <1>4

(* A step that adds no row keeps the queue within the cap.                   *)
LEMMA FewerRows ==
    ASSUME CapInv, live' \subseteq live
    PROVE  QueueWithinCap'
<1>1. IsFiniteSet(live)
  BY LiveFinite DEF CapInv, IInv
<1>2. Cardinality(live') <= Cardinality(live) /\ IsFiniteSet(live')
  BY <1>1, FS_Subset
<1>3. Cardinality(live) \in Int /\ Cardinality(live') \in Int
  BY <1>1, <1>2, FS_CardinalityType
<1> QED  BY <1>2, <1>3, ConstantsAssumption DEF CapInv, QueueWithinCap

LEMMA EnqueueWithinCap == CapInv /\ Enqueue => QueueWithinCap'
<1> SUFFICES ASSUME CapInv, Enqueue PROVE QueueWithinCap'
  OBVIOUS
<1> DEFINE rest == live \ Overflow
<1>1. IsFiniteSet(live) /\ live \in SUBSET Nat /\ Cardinality(live) \in Int
  BY LiveFinite, FS_CardinalityType DEF CapInv, IInv
<1>2. Cap \in Nat /\ Cap >= 1
  BY ConstantsAssumption
<1>3. IsFiniteSet(rest) /\ Cardinality(rest) \in Int
  BY <1>1, FS_Subset, FS_CardinalityType
<1>4. Cardinality(rest) <= Cap - 1
  <2>1. \/ rest = {}
        \/ Cardinality(rest) <= Cardinality(live) - (Cardinality(live) - (Cap - 1))
    BY <1>1, <1>2, OldestTakes DEF Overflow
  <2>2. CASE rest = {}
    BY <2>2, <1>2, FS_EmptySet
  <2>3. CASE Cardinality(rest) <= Cardinality(live) - (Cardinality(live) - (Cap - 1))
    BY <2>3, <1>1, <1>2, <1>3
  <2> QED  BY <2>1, <2>2, <2>3
<1>5. live' = rest \cup {lastId + 1}
  BY DEF Enqueue
<1>6. Cardinality(live') <= Cardinality(rest) + 1 /\ Cardinality(live') \in Int
  <2>1. /\ IsFiniteSet(rest \cup {lastId + 1})
        /\ Cardinality(rest \cup {lastId + 1}) =
             IF lastId + 1 \in rest THEN Cardinality(rest) ELSE Cardinality(rest) + 1
    BY <1>3, FS_AddElement
  <2> QED  BY <1>3, <1>5, <2>1
<1> QED  BY <1>2, <1>3, <1>4, <1>6 DEF QueueWithinCap

(* The other steps.                                                          *)
LEMMA OtherSteps == CapInv /\ [Next]_vars /\ ~Enqueue => live' \subseteq live
<1> SUFFICES ASSUME CapInv, [Next]_vars, ~Enqueue PROVE live' \subseteq live
  OBVIOUS
<1>1. ASSUME NEW b \in Boots, Owner(b) PROVE live' \subseteq live
  <2>1. ASSUME NEW t \in Tokens, NEW answered \in BOOLEAN, Claim(b, t, answered)
        PROVE  live' \subseteq live
    BY <2>1 DEF Claim
  <2>2. CASE HandleSettle(b)
    BY <2>2 DEF HandleSettle, Apply
  <2>3. CASE Lose(b)
    BY <2>3 DEF Lose, db
  <2> QED  BY <1>1, <2>1, <2>2, <2>3 DEF Owner
<1>2. CASE StartDrain \/ Post \/ BotCrash \/ OwnerRestart \/ StatusChange \/ Tick
  <2>1. ASSUME NEW id \in Ids, PostAccepted(id) \/ PostRejected(id) \/ PostTransient(id)
        PROVE  live' \subseteq live
    BY <2>1 DEF PostAccepted, PostRejected, PostTransient, db
  <2>2. CASE Post
    BY <2>1, <2>2 DEF Post, PostDenied, db
  <2>3. CASE StartDrain \/ BotCrash \/ OwnerRestart \/ StatusChange \/ Tick
    BY <2>3 DEF StartDrain, BotCrash, OwnerRestart, StatusChange, Tick, db
  <2> QED  BY <1>2, <2>2, <2>3
<1>3. CASE UNCHANGED vars
  BY <1>3 DEF vars, db
<1> QED  BY <1>1, <1>2, <1>3 DEF Next

LEMMA CapInitially == Init => CapInv
<1>1. Init => live = {}
  BY DEF Init
<1>2. Cardinality({}) = 0
  BY FS_EmptySet
<1> QED  BY <1>1, <1>2, InitInv, ConstantsAssumption DEF CapInv, QueueWithinCap

LEMMA CapStep == CapInv /\ [Next]_vars => CapInv'
<1> SUFFICES ASSUME CapInv, [Next]_vars PROVE CapInv'
  OBVIOUS
<1>1. IInv'
  BY StepInv DEF CapInv
<1>2. QueueWithinCap'
  BY EnqueueWithinCap, OtherSteps, FewerRows
<1> QED  BY <1>1, <1>2 DEF CapInv

(* The cap holds after every insert, for any cap: the eviction looks at the *)
(* queue, leased rows included, and makes room for exactly the row that     *)
(* follows in the same transaction (enqueue_in_transaction).                *)
THEOREM QueueStaysWithinCap == Spec => []QueueWithinCap
<1>1. Init => CapInv
  BY CapInitially
<1>2. CapInv /\ [Next]_vars => CapInv'
  BY CapStep
<1>3. CapInv => QueueWithinCap
  BY DEF CapInv
<1> QED  BY <1>1, <1>2, <1>3, PTL DEF Spec

-----------------------------------------------------------------------------
(***************************************************************************)
(* RetainQueue implements PendingRows.  A row outside of the table has no  *)
(* age, and Hindsight has only answered for rows that were inserted.       *)
(***************************************************************************)
RowAges == \A i \in Ids : i \notin live => age[i] = 0
AnsweredRows == accepted \cup rejected \subseteq 1..lastId
RowInv == CapInv /\ RowAges /\ AnsweredRows

RowsStep == [Promise!Next]_(Promise!vars)

LEMMA SameTableCardinality ==
    ASSUME NEW S PROVE Promise!Cardinality(S) = Cardinality(S)
  BY Zenon DEF Cardinality, Promise!Cardinality

(* LIMIT k takes the rows that were inserted first.                          *)
LEMMA OldestFirst ==
    ASSUME NEW S \in SUBSET Nat, IsFiniteSet(S), NEW k \in Int,
           NEW i \in Oldest(S, k), NEW j \in S \ Oldest(S, k)
    PROVE  i < j
<1> DEFINE Before(n) == {m \in S : m < n}
<1>1. Cardinality(Before(i)) < k /\ ~(Cardinality(Before(j)) < k)
  BY DEF Oldest
<1>2. i \in Nat /\ j \in Nat /\ i \in S
  BY DEF Oldest
<1> SUFFICES ASSUME ~(i < j) PROVE FALSE
  OBVIOUS
<1>3. Before(j) \subseteq Before(i) /\ Before(i) \subseteq S
  <2>1. ASSUME NEW m \in S, m < j PROVE m < i
    <3>1. m \in Nat /\ j <= i
      BY <1>2
    <3> QED  BY <1>2, <2>1, <3>1
  <2> QED  BY <2>1
<1>4. IsFiniteSet(Before(i)) /\ IsFiniteSet(Before(j))
      /\ Cardinality(Before(j)) <= Cardinality(Before(i))
  BY <1>3, FS_Subset
<1>5. Cardinality(Before(i)) \in Nat /\ Cardinality(Before(j)) \in Nat
  BY <1>4, FS_CardinalityType
<1> QED  BY <1>1, <1>4, <1>5

(* Rows are only evicted from a queue that is full.                          *)
LEMMA EvictsWhenFull ==
    ASSUME TypeOK, Overflow # {}
    PROVE  Cardinality(live) >= Cap
<1>1. IsFiniteSet(live) /\ Cardinality(live) \in Nat
  BY LiveFinite, FS_CardinalityType
<1>2. PICK i \in live : Cardinality({j \in live : j < i}) < Cardinality(live) - (Cap - 1)
  BY DEF Overflow, Oldest
<1>3. Cardinality({j \in live : j < i}) \in Nat
  <2>1. {j \in live : j < i} \subseteq live
    OBVIOUS
  <2> QED  BY <1>1, <2>1, FS_Subset, FS_CardinalityType
<1> QED  BY <1>1, <1>2, <1>3, ConstantsAssumption

LEMMA RowsStutter ==
    ASSUME RowInv, UNCHANGED <<lastId, live, age>>, UNCHANGED <<accepted, rejected>>
    PROVE  RowsStep /\ RowAges' /\ AnsweredRows'
  BY DEF RowInv, RowsStep, Promise!vars, RowAges, AnsweredRows, Ids

LEMMA EnqueueRefines ==
    ASSUME RowInv, Enqueue
    PROVE  RowsStep /\ RowAges' /\ AnsweredRows'
<1>1. /\ TypeOK /\ lastId \in Nat /\ live \subseteq 1..lastId /\ Cap \in Nat /\ MaxAge \in Nat
      /\ IsFiniteSet(live) /\ live \in SUBSET Nat /\ Cardinality(live) \in Int
  BY ConstantsAssumption, LiveFinite, FS_CardinalityType DEF RowInv, CapInv, IInv, TypeOK
<1>2. PICK S \in SUBSET live : S = Overflow
  BY <1>1, SelectionFacts
<1>3. /\ lastId' = lastId + 1 /\ live' = (live \ S) \cup {lastId + 1}
      /\ age' = [i \in Ids |-> IF i \in S THEN 0 ELSE age[i]]
      /\ UNCHANGED <<accepted, rejected>>
  BY <1>2 DEF Enqueue, upstream
<1>4. lastId + 1 \in Ids /\ lastId + 1 \notin live /\ lastId + 1 \notin 1..lastId
      /\ live \subseteq Ids
  BY <1>1, SelectionFacts, ConstantsAssumption DEF Enqueue, Ids
<1>5. S # {} => Promise!Cardinality(live) >= Cap
  BY <1>1, <1>2, EvictsWhenFull, SameTableCardinality
<1>6. \A i \in S, j \in live \ S : i < j
  <2>1. Cardinality(live) - (Cap - 1) \in Int
    BY <1>1
  <2> QED  BY <1>1, <1>2, <2>1, OldestFirst DEF Overflow
<1>7. live' \cap (accepted' \cup rejected') = (live \cap (accepted \cup rejected)) \ S
  BY <1>3, <1>4 DEF RowInv, AnsweredRows
<1>8. age[lastId + 1] = 0
  BY <1>4 DEF RowInv, RowAges
<1>9. {i \in live' : age'[i] > MaxAge} = {i \in live : age[i] > MaxAge} \ S
  <2>1. \A i \in live \ S : age'[i] = age[i]
    BY <1>3, <1>4
  <2>2. ~(age'[lastId + 1] > MaxAge)
    BY <1>1, <1>3, <1>4, <1>8
  <2> QED  BY <1>3, <2>1, <2>2
<1>10. Promise!Cardinality(live') <= Cap
  BY EnqueueWithinCap, SameTableCardinality DEF RowInv, QueueWithinCap
<1>11. Promise!Insert(S)
  BY <1>3, <1>5, <1>6, <1>7, <1>9, <1>10 DEF Promise!Insert
<1>12. RowsStep
  BY <1>11 DEF RowsStep, Promise!Next
<1>13. RowAges' /\ AnsweredRows'
  <2>1. AnsweredRows'
    BY <1>1, <1>3 DEF RowInv, AnsweredRows
  <2>2. RowAges'
    BY <1>3, <1>4 DEF RowInv, RowAges, Ids
  <2> QED  BY <2>1, <2>2
<1> QED  BY <1>12, <1>13

LEMMA ClaimRefines ==
    ASSUME RowInv, NEW b \in Boots, NEW t \in Tokens, NEW answered \in BOOLEAN,
           Claim(b, t, answered)
    PROVE  RowsStep /\ RowAges' /\ AnsweredRows'
<1>1. live \subseteq Ids /\ Stale \subseteq live
  BY SelectionFacts DEF RowInv, CapInv, IInv
<1>2. PICK S \in SUBSET live : S = Stale
  BY <1>1
<1>3. /\ live' = live \ S /\ age' = [i \in Ids |-> IF i \in S THEN 0 ELSE age[i]]
      /\ UNCHANGED <<lastId, accepted, rejected>>
  BY <1>2 DEF Claim, upstream
<1>4. S \subseteq {i \in live : age[i] > MaxAge}
  BY <1>2 DEF Stale
<1>5. {i \in live' : age'[i] > MaxAge} = {i \in live : age[i] > MaxAge} \ S
  BY <1>1, <1>3
<1>6. Promise!Expire(S)
  BY <1>3, <1>4, <1>5 DEF Promise!Expire, Promise!Without
<1>7. RowsStep
  BY <1>6 DEF RowsStep, Promise!Next
<1>8. RowAges' /\ AnsweredRows'
  BY <1>3 DEF RowInv, RowAges, AnsweredRows, Ids
<1> QED  BY <1>7, <1>8

(* Hindsight may take a row that left the table meanwhile.                   *)
LEMMA PostRefines ==
    ASSUME RowInv, NEW id \in Ids,
           PostAccepted(id) \/ PostRejected(id) \/ PostTransient(id)
    PROVE  RowsStep /\ RowAges' /\ AnsweredRows'
<1>1. id \in 1..lastId
  BY DEF PostAccepted, PostRejected, PostTransient, IsNext, RowInv, CapInv, IInv, TypeOK
<1>2. /\ UNCHANGED <<lastId, live, age>>
      /\ \/ accepted' \cup rejected' = accepted \cup rejected
         \/ accepted' \cup rejected' = accepted \cup rejected \cup {id}
  BY DEF PostAccepted, PostRejected, PostTransient, db
<1>3. RowAges' /\ AnsweredRows'
  BY <1>1, <1>2 DEF RowInv, RowAges, AnsweredRows, Ids
<1>4. CASE id \notin live \/ accepted' \cup rejected' = accepted \cup rejected
  <2>1. live' \cap (accepted' \cup rejected') = live \cap (accepted \cup rejected)
    BY <1>2, <1>4
  <2> QED  BY <1>2, <1>3, <2>1 DEF RowsStep, Promise!vars
<1>5. CASE id \in live /\ accepted' \cup rejected' = accepted \cup rejected \cup {id}
  <2>1. Promise!Take(id)
    BY <1>2, <1>5 DEF Promise!Take
  <2> QED  BY <1>3, <1>5, <2>1 DEF RowsStep, Promise!Next
<1> QED  BY <1>2, <1>4, <1>5

LEMMA SettleRefines ==
    ASSUME RowInv, NEW b \in Boots, HandleSettle(b)
    PROVE  RowsStep /\ RowAges' /\ AnsweredRows'
<1>1. UNCHANGED <<lastId, accepted, rejected>>
  BY DEF HandleSettle, Apply, upstream
<1>2. CASE UNCHANGED <<live, age>>
  BY <1>1, <1>2, RowsStutter
<1>3. CASE ~UNCHANGED <<live, age>>
  <2>1. /\ Holds(req[b]) /\ req[b].op \in {"ack", "drop"}
        /\ live' = live \ {req[b].id} /\ age' = [age EXCEPT ![req[b].id] = 0]
    BY <1>3 DEF HandleSettle, Apply, SettleOps
  <2>2. PICK i \in live : i = req[b].id
    BY <2>1 DEF Holds
  <2>3. i \in live \cap (accepted \cup rejected)
    BY <2>1, <2>2 DEF RowInv, CapInv, IInv, SettleBacked
  <2>4. age \in [Ids -> 0..(MaxAge + 1)] /\ live \subseteq Ids
    BY SelectionFacts DEF RowInv, CapInv, IInv, TypeOK
  <2>5. {j \in live' : age'[j] > MaxAge} = {j \in live : age[j] > MaxAge} \ {i}
    BY <2>1, <2>2, <2>4
  <2>6. Promise!Settle(i)
    BY <1>1, <2>1, <2>2, <2>3, <2>5 DEF Promise!Settle, Promise!Without
  <2>7. RowsStep
    BY <2>6 DEF RowsStep, Promise!Next
  <2>8. RowAges' /\ AnsweredRows'
    BY <1>1, <2>1, <2>2, <2>4 DEF RowInv, RowAges, AnsweredRows, Ids
  <2> QED  BY <2>7, <2>8
<1> QED  BY <1>2, <1>3

LEMMA TickRefines ==
    ASSUME RowInv, Tick
    PROVE  RowsStep /\ RowAges' /\ AnsweredRows'
<1>1. UNCHANGED <<lastId, live, accepted, rejected>>
  BY DEF Tick, upstream
<1>2. age \in [Ids -> 0..(MaxAge + 1)] /\ live \subseteq Ids /\ MaxAge \in Nat
  BY SelectionFacts, ConstantsAssumption DEF RowInv, CapInv, IInv, TypeOK
<1>3. \A i \in Ids : /\ i \notin live => age'[i] = age[i]
                     /\ age'[i] = age[i] \/ age'[i] = age[i] + 1
  BY DEF Tick
<1>4. PICK S \in SUBSET live : S = {i \in live : age'[i] > MaxAge}
  OBVIOUS
<1>5. {i \in live' : age'[i] > MaxAge} = {i \in live : age[i] > MaxAge} \cup S
  <2>1. \A i \in live : age[i] > MaxAge => age'[i] > MaxAge
    BY <1>2, <1>3
  <2> QED  BY <1>1, <1>4, <2>1
<1>6. Promise!Age(S)
  BY <1>1, <1>5 DEF Promise!Age
<1>7. RowsStep
  BY <1>6 DEF RowsStep, Promise!Next
<1>8. RowAges' /\ AnsweredRows'
  BY <1>1, <1>3 DEF RowInv, RowAges, AnsweredRows, Ids
<1> QED  BY <1>7, <1>8

LEMMA QueueRefines ==
    ASSUME RowInv, [Next]_vars
    PROVE  RowInv' /\ RowsStep
<1>1. CapInv'
  BY CapStep DEF RowInv
<1> SUFFICES RowsStep /\ RowAges' /\ AnsweredRows'
  BY <1>1 DEF RowInv
<1>2. ASSUME NEW b \in Boots, Owner(b) PROVE RowsStep /\ RowAges' /\ AnsweredRows'
  <2>1. CASE Lose(b)
    BY <2>1, RowsStutter DEF Lose, db, upstream
  <2> QED  BY <1>2, <2>1, ClaimRefines, SettleRefines DEF Owner
<1>3. CASE Post
  <2>1. CASE PostDenied
    BY <2>1, RowsStutter DEF PostDenied, db, upstream
  <2> QED  BY <1>3, <2>1, PostRefines DEF Post
<1>4. CASE StartDrain \/ BotCrash \/ OwnerRestart \/ StatusChange
  BY <1>4, RowsStutter DEF StartDrain, BotCrash, OwnerRestart, StatusChange, db, upstream
<1>5. CASE UNCHANGED vars
  BY <1>5, RowsStutter DEF vars, db, upstream
<1> QED  BY <1>2, <1>3, <1>4, <1>5, EnqueueRefines, TickRefines DEF Next

(* However leases expire, drainers crash and requests are lost or late, the  *)
(* table keeps the promise of PendingRows (enqueue_in_transaction,           *)
(* claim_batch, ack and nack of retain_queue.rs).                            *)
THEOREM QueueKeepsPromise == Spec => KeepsPromise
<1>1. Init => RowInv /\ Promise!Init
  <2> SUFFICES ASSUME Init PROVE RowInv /\ Promise!Init
    OBVIOUS
  <2>1. CapInv
    BY CapInitially
  <2>2. RowAges /\ AnsweredRows
    BY DEF Init, RowAges, AnsweredRows
  <2>3. Promise!Init
    BY DEF Init, Promise!Init
  <2> QED  BY <2>1, <2>2, <2>3 DEF RowInv
<1>2. RowInv /\ [Next]_vars => RowInv' /\ RowsStep
  BY QueueRefines
<1> QED  BY <1>1, <1>2, PTL DEF Spec, KeepsPromise, Promise!Spec, RowsStep

-----------------------------------------------------------------------------
(***************************************************************************)
(* MemoryClient, brought in under the name Client: the two components have *)
(* their own constants and variables, and share none.                      *)
(***************************************************************************)
CONSTANTS Users, Poison, Left, ClientRows, Trip, MaxOpen, AuthOpen,
          RetainRetries, BankRetries, ClientMaxAge, MaxChanges
VARIABLES circuit, until, lastOpen, fails, status, call, queue, rowAge,
          booted, probing, up, raced, took, rows, changes

Client == INSTANCE MemoryClient
            WITH MaxRows <- ClientRows, MaxAge <- ClientMaxAge, age <- rowAge

\* the constants that the source fixes; Client's own assumption
ClientConstants == Client!MemoryClientAssumption

Pcs == {"idle", "sent", "backoff", "clear", "auth", "quota", "read", "write", "return"}

\* a call between two of its steps: it backs off only with an attempt left
GoodCall ==
    {r \in [pc : Pcs, kind : {"recall", "retain", "bank", "drain"}, tries : Nat,
            out : {"ok", "transient", "open", "client"}, closed : BOOLEAN] :
        /\ r.tries <= Client!Retries(r.kind)
        /\ r.pc = "backoff" => r.tries < Client!Retries(r.kind)}

CallsTyped == call \in [Client!Callers -> GoodCall]

\* a retain under way has room for its row
RoomForRetains ==
    /\ IsFiniteSet(Client!Retaining)
    /\ rows \in Nat /\ rows + Cardinality(Client!Retaining) <= ClientRows

\* the row the drain loop posts is still the oldest
DrainHasRow == call["drain"].pc # "idle" => queue # <<>>

\* a status that disagrees with the circuit has a caller on its way to write it
SettlerUnderWay ==
    ~Client!Sticky /\ ~raced /\ (status = "Healthy") # (circuit = "closed")
        => \E c \in Client!Callers : call[c].pc \notin {"idle", "return"}

BreakerTyped ==
    /\ circuit \in {"closed", "open", "half"} /\ until \in 0..AuthOpen
    /\ lastOpen \in 1..AuthOpen /\ fails \in 0..(Trip - 1)
    /\ (until > 0) = (circuit = "open")

StoreTyped ==
    /\ queue \in Seq(Client!Rows) /\ rows \in 0..ClientRows
    /\ rowAge \in [Client!Rows -> 0..(ClientMaxAge + 1)] /\ took \in BOOLEAN

FlagsTyped ==
    status \in Client!Statuses /\ {booted, probing, raced} \subseteq BOOLEAN

ClientInv ==
    /\ BreakerTyped /\ StoreTyped /\ FlagsTyped /\ CallsTyped
    /\ RoomForRetains /\ DrainHasRow /\ SettlerUnderWay

Moved(c, q) == call' = [call EXCEPT ![c] = q]

LEMMA ClientNumbers ==
    ASSUME ClientConstants
    PROVE  /\ Trip \in Nat \ {0} /\ MaxOpen \in Nat \ {0} /\ AuthOpen \in Nat \ {0}
           /\ MaxOpen <= AuthOpen /\ RetainRetries \in Nat /\ BankRetries \in Nat
           /\ BankRetries + 1 < Trip
           /\ ClientRows \in Nat /\ ClientMaxAge \in Nat /\ Left \in 0..ClientRows
           /\ "bank" \notin Users /\ "drain" \notin Users
BY DEF ClientConstants, Client!MemoryClientAssumption

LEMMA RetriesNat ==
    ASSUME ClientConstants, NEW kind
    PROVE  Client!Retries(kind) \in Nat
BY ClientNumbers DEF Client!Retries

LEMMA IdleIsGood == ASSUME ClientConstants PROVE Client!Idle \in GoodCall
BY RetriesNat DEF Client!Idle, GoodCall, Pcs

LEMMA SentIsGood ==
    ASSUME ClientConstants, NEW kind \in {"recall", "retain", "bank", "drain"}
    PROVE  /\ Client!Sent(kind) \in GoodCall
           /\ Client!Sent(kind).pc = "sent" /\ Client!Sent(kind).kind = kind
<1>1. Client!Retries(kind) \in Nat /\ 0 <= Client!Retries(kind)
  BY RetriesNat
<1>2. Client!Idle = [pc |-> "idle", kind |-> "recall", tries |-> 0, out |-> "ok",
                     closed |-> TRUE]
  BY DEF Client!Idle
<1>3. Client!Sent(kind) = [[Client!Idle EXCEPT !.pc = "sent"] EXCEPT !.kind = kind]
  BY Zenon DEF Client!Sent
<1>4. Client!Sent(kind) = [pc |-> "sent", kind |-> kind, tries |-> 0, out |-> "ok",
                           closed |-> TRUE]
  BY <1>2, <1>3
<1> QED BY <1>1, <1>4 DEF GoodCall, Pcs

LEMMA HeardTyped ==
    ASSUME NEW kind, NEW out \in Client!Outcomes \cup {"open"}
    PROVE  Client!Heard(kind, out) \in {"ok", "transient", "open", "client"}
BY DEF Client!Heard, Client!Outcomes

LEMMA ReturnMoves ==
    ASSUME ClientConstants, CallsTyped, NEW c \in Client!Callers, Client!Return(c)
    PROVE  \E q \in GoodCall :
               /\ Moved(c, q) /\ q.pc \in {"idle", "return"}
               /\ q.kind = call[c].kind \/ q.pc = "idle"
<1> DEFINE k == call[c]
           q == IF k.kind = "recall" THEN Client!Idle
                ELSE [Client!Idle EXCEPT !.pc = "return", !.kind = k.kind, !.out = k.out]
<1>1. k \in GoodCall
  BY DEF CallsTyped
<1>2. q \in GoodCall
  <2>1. Client!Retries(k.kind) \in Nat /\ 0 <= Client!Retries(k.kind)
    BY RetriesNat
  <2>2. CASE k.kind = "recall"
    BY <2>2, IdleIsGood
  <2>3. CASE k.kind # "recall"
    BY <1>1, <2>1, <2>3 DEF Client!Idle, GoodCall, Pcs
  <2> QED BY <2>2, <2>3
<1>3. q.pc \in {"idle", "return"} /\ (q.kind = k.kind \/ q.pc = "idle")
  BY DEF Client!Idle
<1>4. Moved(c, q)
  BY DEF Client!Return, Moved
<1> QED BY <1>2, <1>3, <1>4

LEMMA AdmitMoves ==
    ASSUME CallsTyped, NEW c \in Client!Callers, NEW r \in GoodCall, r.pc = "sent",
           Client!Admit(c, r)
    PROVE  \E q \in GoodCall :
               Moved(c, q) /\ q.pc \in {"sent", "read"} /\ q.kind = r.kind
<1> DEFINE q == IF circuit = "open"
                THEN [r EXCEPT !.pc = "read", !.out = Client!Heard(r.kind, "open")]
                ELSE r
<1>1. Client!Heard(r.kind, "open") \in {"ok", "transient", "open", "client"}
  BY HeardTyped
<1>2. q \in GoodCall /\ q.pc \in {"sent", "read"} /\ q.kind = r.kind
  BY <1>1 DEF GoodCall, Pcs
<1>3. Moved(c, q)
  BY DEF Client!Admit, Moved
<1> QED BY <1>2, <1>3

LEMMA ReadMoves ==
    ASSUME CallsTyped, NEW c \in Client!Callers, Client!Read(c)
    PROVE  \E q \in GoodCall :
               Moved(c, q) /\ q.pc = "write" /\ q.kind = call[c].kind
<1> DEFINE q == [call[c] EXCEPT !.pc = "write", !.closed = (circuit = "closed")]
<1>1. call[c] \in GoodCall
  BY DEF CallsTyped
<1>2. q \in GoodCall /\ q.pc = "write" /\ q.kind = call[c].kind
  BY <1>1 DEF GoodCall, Pcs
<1>3. Moved(c, q)
  BY <1>1 DEF Client!Read, Moved, CallsTyped, GoodCall
<1> QED BY <1>2, <1>3

LEMMA AnswerMoves ==
    ASSUME ClientConstants, CallsTyped, NEW c \in Client!Callers,
           NEW out \in Client!Outcomes, Client!Answer(c, out)
    PROVE  \E q \in GoodCall :
               Moved(c, q) /\ q.pc \notin {"idle", "return"} /\ q.kind = call[c].kind
<1> DEFINE q == [call[c] EXCEPT !.out = Client!Heard(call[c].kind, out),
                                !.pc = Client!AfterAnswer(c, out)]
<1>1. call[c] \in GoodCall
  BY DEF CallsTyped
<1>2. Client!Heard(call[c].kind, out) \in {"ok", "transient", "open", "client"}
  BY HeardTyped
<1>3. /\ Client!AfterAnswer(c, out) \in Pcs \ {"idle", "return"}
      /\ Client!AfterAnswer(c, out) = "backoff"
            => call[c].tries < Client!Retries(call[c].kind)
  BY DEF Client!AfterAnswer, Client!Outcomes, Pcs
<1>4. q \in GoodCall /\ q.pc \notin {"idle", "return"} /\ q.kind = call[c].kind
  BY <1>1, <1>2, <1>3 DEF GoodCall
<1>5. Moved(c, q)
  BY <1>1 DEF Client!Answer, Moved, CallsTyped, GoodCall
<1> QED BY <1>4, <1>5

LEMMA BackoffMoves ==
    ASSUME ClientConstants, CallsTyped, NEW c \in Client!Callers, Client!Backoff(c)
    PROVE  \E q \in GoodCall :
               Moved(c, q) /\ q.pc \in {"sent", "read"} /\ q.kind = call[c].kind
<1> DEFINE r == [call[c] EXCEPT !.pc = "sent", !.tries = @ + 1]
<1>1. call[c] \in GoodCall /\ call[c].pc = "backoff"
  BY DEF CallsTyped, Client!Backoff, Client!At
<1>2. r \in GoodCall /\ r.pc = "sent" /\ r.kind = call[c].kind
  <2>1. Client!Retries(call[c].kind) \in Nat
    BY RetriesNat
  <2>2. call[c].tries \in Nat /\ call[c].tries + 1 <= Client!Retries(call[c].kind)
    BY <1>1, <2>1 DEF GoodCall
  <2>3. /\ r.pc = "sent" /\ r.kind = call[c].kind /\ r.tries = call[c].tries + 1
        /\ r.out = call[c].out /\ r.closed = call[c].closed
        /\ r \in [pc : Pcs, kind : {"recall", "retain", "bank", "drain"}, tries : Nat,
                  out : {"ok", "transient", "open", "client"}, closed : BOOLEAN]
    <3>1. call[c] \in [pc : Pcs, kind : {"recall", "retain", "bank", "drain"},
                       tries : Nat, out : {"ok", "transient", "open", "client"},
                       closed : BOOLEAN]
      BY <1>1 DEF GoodCall
    <3>2. r = [[call[c] EXCEPT !.pc = "sent"] EXCEPT !.tries = call[c].tries + 1]
      BY <3>1
    <3>3. call[c].tries + 1 \in Nat /\ "sent" \in Pcs
      BY <2>2 DEF Pcs
    <3> HIDE DEF r
    <3> QED BY <3>1, <3>2, <3>3
  <2> QED BY <2>2, <2>3 DEF GoodCall
<1>3. Client!Admit(c, r)
  BY DEF Client!Backoff
<1> HIDE DEF r
<1>4. PICK q \in GoodCall : Moved(c, q) /\ q.pc \in {"sent", "read"} /\ q.kind = r.kind
  BY <1>2, <1>3, AdmitMoves
<1> QED BY <1>2, <1>4

LEMMA ClientInvTypes == ASSUME ClientInv PROVE Client!TypeOK
<1>1. \A c \in Client!Callers : /\ call[c].pc \in Pcs
                                /\ call[c].tries <= Client!Retries(call[c].kind)
  BY DEF ClientInv, CallsTyped, GoodCall
<1>2. BreakerTyped /\ StoreTyped /\ FlagsTyped
  BY DEF ClientInv
<1> QED BY <1>1, <1>2 DEF Client!TypeOK, BreakerTyped, StoreTyped, FlagsTyped, Pcs

LEMMA MovedCalls ==
    ASSUME CallsTyped, NEW c \in Client!Callers, NEW q \in GoodCall, Moved(c, q)
    PROVE  /\ CallsTyped' /\ call'[c] = q
           /\ \A d \in Client!Callers : d # c => call'[d] = call[d]
BY DEF CallsTyped, Moved

\* A step of a call that is under way keeps it under way or ends it.
LEMMA CallStepMoves ==
    ASSUME ClientConstants, CallsTyped, NEW c \in Client!Callers, Client!CallSteps(c)
    PROVE  \E q \in GoodCall :
               /\ Moved(c, q) /\ call[c].pc \notin {"idle", "return"}
               /\ q.kind = call[c].kind \/ q.pc = "idle"
<1>1. CASE \E out \in Client!Outcomes : Client!Answer(c, out)
  <2>1. PICK out \in Client!Outcomes : Client!Answer(c, out)
    BY <1>1
  <2> QED BY <2>1, AnswerMoves DEF Client!Answer, Client!At
<1>2. CASE Client!Backoff(c)
  BY <1>2, BackoffMoves DEF Client!Backoff, Client!At
<1>3. CASE Client!ClearQuota(c) \/ Client!ReadBreaker(c)
  BY <1>3, ReadMoves DEF Client!ClearQuota, Client!ReadBreaker, Client!At
<1>4. CASE Client!SetAuthFailed(c) \/ Client!SetQuotaExhausted(c) \/ Client!WriteStatus(c)
  BY <1>4, ReturnMoves
     DEF Client!SetAuthFailed, Client!SetQuotaExhausted, Client!WriteStatus, Client!At
<1> QED BY <1>1, <1>2, <1>3, <1>4 DEF Client!CallSteps

LEMMA KeepsRoom ==
    ASSUME ClientConstants, CallsTyped, RoomForRetains, NEW c \in Client!Callers, NEW q \in GoodCall,
           Moved(c, q), rows' = rows,
           q.pc # "idle" /\ q.kind = "retain"
               => call[c].pc # "idle" /\ call[c].kind = "retain"
    PROVE  RoomForRetains'
<1>1. Client!Retaining' \subseteq Client!Retaining
  BY MovedCalls DEF Client!Retaining, Client!At, Client!Callers
<1>2. /\ IsFiniteSet(Client!Retaining')
      /\ Cardinality(Client!Retaining') <= Cardinality(Client!Retaining)
  BY <1>1, FS_Subset DEF RoomForRetains
<1>3. Cardinality(Client!Retaining) \in Nat /\ Cardinality(Client!Retaining') \in Nat
  BY <1>2, FS_CardinalityType DEF RoomForRetains
<1>4. rows \in Nat /\ rows + Cardinality(Client!Retaining) <= ClientRows
  BY DEF RoomForRetains
<1>5. rows' \in Nat /\ rows' + Cardinality(Client!Retaining') <= ClientRows
  BY <1>2, <1>3, <1>4, ClientNumbers
<1> QED BY <1>2, <1>5 DEF RoomForRetains

LEMMA SettlerMoves ==
    ASSUME CallsTyped, NEW c \in Client!Callers, NEW q \in GoodCall, Moved(c, q),
           q.pc \notin {"idle", "return"}
    PROVE  SettlerUnderWay'
<1>1. call'[c].pc \notin {"idle", "return"}
  BY MovedCalls
<1> QED BY <1>1 DEF SettlerUnderWay, Client!Callers

LEMMA SettlerStays ==
    ASSUME CallsTyped, SettlerUnderWay, NEW c \in Client!Callers, NEW q \in GoodCall,
           Moved(c, q), call[c].pc \in {"idle", "return"}, UNCHANGED <<status, raced, circuit>>
    PROVE  SettlerUnderWay'
<1> SUFFICES ASSUME ~Client!Sticky, ~raced, (status = "Healthy") # (circuit = "closed")
             PROVE  \E d \in Client!Callers : call'[d].pc \notin {"idle", "return"}
  BY DEF SettlerUnderWay, Client!Sticky, Client!Callers
<1>1. PICK d \in Client!Callers : call[d].pc \notin {"idle", "return"}
  BY DEF SettlerUnderWay
<1>2. call'[d] = call[d]
  BY <1>1, MovedCalls
<1> QED BY <1>1, <1>2

\* A circuit that opens has time left, whatever it was.
LEMMA OpenTyped ==
    ASSUME ClientConstants, BreakerTyped, NEW ticks \in 1..AuthOpen, Client!Open(ticks)
    PROVE  BreakerTyped'
BY ClientNumbers DEF BreakerTyped, Client!Open

LEMMA RecordTyped ==
    ASSUME ClientConstants, BreakerTyped, NEW out, Client!Record(out)
    PROVE  BreakerTyped'
<1>1. CASE UNCHANGED Client!breaker
  BY <1>1 DEF BreakerTyped, Client!breaker
<1>2. CASE circuit' = "closed" /\ until' = 0 /\ lastOpen' = 1 /\ fails' = 0
  BY <1>2, ClientNumbers DEF BreakerTyped
<1>3. CASE Client!Open(AuthOpen)
  BY <1>3, OpenTyped, ClientNumbers
<1>4. CASE Client!CountFailure
  <2>1. 1 \in 1..AuthOpen /\ Client!Doubled \in 1..AuthOpen
    BY ClientNumbers DEF BreakerTyped, Client!Doubled
  <2>2. CASE circuit = "closed" /\ fails + 1 < Trip
    BY <1>4, <2>2, ClientNumbers DEF BreakerTyped, Client!CountFailure
  <2>3. CASE circuit = "closed" /\ ~(fails + 1 < Trip)
    <3>1. fails + 1 >= Trip
      BY <2>3, ClientNumbers DEF BreakerTyped
    <3>2. Client!Open(1)
      BY <1>4, <2>3, <3>1 DEF Client!CountFailure
    <3> QED BY <2>1, <3>2, OpenTyped
  <2>4. CASE circuit = "half"
    <3>1. Client!Open(Client!Doubled)
      BY <1>4, <2>4 DEF Client!CountFailure
    <3> QED BY <2>1, <3>1, OpenTyped
  <2>5. CASE circuit \notin {"closed", "half"}
    <3>1. UNCHANGED Client!breaker
      BY <1>4, <2>5 DEF Client!CountFailure
    <3> QED BY <1>1, <3>1
  <2> QED BY <2>2, <2>3, <2>4, <2>5
<1> QED BY <1>1, <1>2, <1>3, <1>4 DEF Client!Record

LEMMA ClientInitially == ASSUME ClientConstants, Client!Init PROVE ClientInv
<1>1. BreakerTyped
  BY ClientNumbers DEF Client!Init, BreakerTyped
<1>2. StoreTyped
  <2>1. Left \in Nat /\ 1..Left \subseteq Client!Rows
    BY ClientNumbers DEF Client!Rows
  <2>2. queue \in Seq(Client!Rows)
    BY <2>1 DEF Client!Init
  <2>3. took \in BOOLEAN
    BY DEF Client!Init
  <2>4. rows \in 0..ClientRows /\ rowAge \in [Client!Rows -> 0..(ClientMaxAge + 1)]
    BY ClientNumbers DEF Client!Init
  <2> QED BY <2>2, <2>3, <2>4 DEF StoreTyped
<1>3. FlagsTyped
  BY DEF Client!Init, FlagsTyped, Client!Statuses
<1>4. CallsTyped
  BY IdleIsGood, SentIsGood DEF Client!Init, CallsTyped
<1>5. RoomForRetains
  <2>1. Client!Retaining = {}
    BY ClientNumbers DEF Client!Init, Client!Retaining, Client!At, Client!Idle, Client!Callers
  <2> QED BY <2>1, FS_EmptySet, ClientNumbers DEF RoomForRetains, Client!Init
<1>6. DrainHasRow
  BY ClientNumbers DEF Client!Init, DrainHasRow, Client!Callers, Client!Idle
<1>7. SettlerUnderWay
  BY DEF Client!Init, SettlerUnderWay
<1> QED BY <1>1, <1>2, <1>3, <1>4, <1>5, <1>6, <1>7 DEF ClientInv

LEMMA CallStepKeeps ==
    ASSUME ClientConstants, ClientInv, NEW c \in Client!Callers, Client!CallSteps(c)
    PROVE  ClientInv'
<1>1. PICK q \in GoodCall :
          /\ Moved(c, q) /\ call[c].pc \notin {"idle", "return"}
          /\ q.kind = call[c].kind \/ q.pc = "idle"
  BY CallStepMoves DEF ClientInv
<1>2. UNCHANGED <<queue, rowAge, rows, booted, probing>>
  BY DEF Client!CallSteps, Client!Answer, Client!Backoff, Client!ClearQuota,
         Client!ReadBreaker, Client!SetAuthFailed, Client!SetQuotaExhausted,
         Client!WriteStatus, Client!store, Client!boot
<1>3. BreakerTyped'
  <2>1. CASE \E out \in Client!Outcomes : Client!Answer(c, out)
    BY <2>1, RecordTyped DEF Client!Answer, ClientInv
  <2>2. CASE ~(\E out \in Client!Outcomes : Client!Answer(c, out))
    <3>1. UNCHANGED <<circuit, until, lastOpen, fails>>
      BY <2>2 DEF Client!CallSteps, Client!Backoff, Client!ClearQuota,
           Client!ReadBreaker, Client!SetAuthFailed, Client!SetQuotaExhausted,
           Client!WriteStatus, Client!breaker
    <3> QED BY <3>1 DEF BreakerTyped, ClientInv
  <2> QED BY <2>1, <2>2
<1>4. StoreTyped'
  <2>1. took \in BOOLEAN
    BY DEF ClientInv, StoreTyped
  <2>2. took' \in BOOLEAN
    BY <2>1
       DEF Client!CallSteps, Client!Answer, Client!Backoff, Client!ClearQuota,
           Client!ReadBreaker, Client!SetAuthFailed, Client!SetQuotaExhausted,
           Client!WriteStatus, Client!store
  <2> QED BY <1>2, <2>2 DEF StoreTyped, ClientInv, Client!Rows
<1>5. FlagsTyped'
  <2>1. status \in Client!Statuses /\ raced \in BOOLEAN
    BY DEF ClientInv, FlagsTyped
  <2>2. status' \in Client!Statuses /\ raced' \in BOOLEAN
    BY <2>1
       DEF Client!CallSteps, Client!Answer, Client!Backoff, Client!ClearQuota,
           Client!ReadBreaker, Client!SetAuthFailed, Client!SetQuotaExhausted,
           Client!WriteStatus, Client!Reflected, Client!Statuses
  <2> QED BY <1>2, <2>2 DEF FlagsTyped, ClientInv, Client!Statuses
<1>6. CallsTyped'
  BY <1>1, MovedCalls DEF ClientInv
<1>7. RoomForRetains'
  BY <1>1, <1>2, KeepsRoom DEF ClientInv
<1>8. DrainHasRow'
  BY <1>1, <1>2 DEF DrainHasRow, ClientInv, Moved, CallsTyped
<1>9. SettlerUnderWay'
  <2>1. CASE \E out \in Client!Outcomes : Client!Answer(c, out)
    BY <2>1, AnswerMoves, SettlerMoves DEF ClientInv
  <2>2. CASE Client!Backoff(c)
    <3>1. PICK p \in GoodCall : Moved(c, p) /\ p.pc \in {"sent", "read"}
      BY <2>2, BackoffMoves DEF ClientInv
    <3> QED BY <3>1, SettlerMoves DEF ClientInv
  <2>3. CASE Client!ClearQuota(c) \/ Client!ReadBreaker(c)
    <3>1. PICK p \in GoodCall : Moved(c, p) /\ p.pc = "write"
      BY <2>3, ReadMoves DEF ClientInv, Client!ClearQuota, Client!ReadBreaker
    <3> QED BY <3>1, SettlerMoves DEF ClientInv
  <2>4. CASE Client!SetAuthFailed(c) \/ Client!SetQuotaExhausted(c)
    BY <2>4 DEF Client!SetAuthFailed, Client!SetQuotaExhausted, SettlerUnderWay, Client!Sticky
  <2>5. CASE Client!WriteStatus(c)
    <3>1. call[c].closed \in BOOLEAN
      BY DEF ClientInv, CallsTyped, GoodCall
    <3>2. UNCHANGED circuit
      BY <2>5 DEF Client!WriteStatus, Client!breaker
    <3>3. CASE Client!Sticky
      BY <2>5, <3>3 DEF Client!WriteStatus, Client!Sticky, SettlerUnderWay
    <3>4. CASE ~Client!Sticky
      BY <2>5, <3>1, <3>2, <3>4
         DEF Client!WriteStatus, Client!Reflected, SettlerUnderWay
    <3> QED BY <3>3, <3>4
  <2> QED BY <2>1, <2>2, <2>3, <2>4, <2>5 DEF Client!CallSteps
<1> QED BY <1>3, <1>4, <1>5, <1>6, <1>7, <1>8, <1>9 DEF ClientInv

LEMMA FinishKeeps ==
    ASSUME ClientConstants, ClientInv, NEW u \in Users, Client!Finish(u)
    PROVE  ClientInv'
<1>1. u \in Client!Callers /\ u # "drain"
  BY ClientNumbers DEF Client!Callers
<1>2. Client!Idle \in GoodCall /\ Moved(u, Client!Idle) /\ call[u].pc = "return"
  BY IdleIsGood DEF Client!Finish, Client!Done, Moved, Client!At
<1>3. UNCHANGED <<circuit, until, lastOpen, fails, status, booted, probing, raced, rowAge, took>>
  BY DEF Client!Finish, Client!breaker, Client!boot, Client!store
<1>4. CallsTyped'
  BY <1>1, <1>2, MovedCalls DEF ClientInv
<1>5. BreakerTyped' /\ FlagsTyped'
  BY <1>3 DEF ClientInv, BreakerTyped, FlagsTyped, Client!Statuses
<1>6. SettlerUnderWay'
  BY <1>1, <1>2, <1>3, SettlerStays DEF ClientInv
<1>7. CASE UNCHANGED <<queue, rows>>
  <2>1. StoreTyped'
    BY <1>3, <1>7 DEF StoreTyped, ClientInv, Client!Rows
  <2>2. RoomForRetains'
    BY <1>1, <1>2, <1>7, KeepsRoom DEF ClientInv, Client!Idle
  <2>3. DrainHasRow'
    BY <1>1, <1>2, <1>7 DEF DrainHasRow, ClientInv, Moved, CallsTyped
  <2> QED BY <1>4, <1>5, <1>6, <2>1, <2>2, <2>3 DEF ClientInv
<1>8. CASE /\ Client!Requeued(u)
           /\ rows' = rows + 1 /\ queue' = Append(queue, rows + 1)
  <2>1. u \in Client!Retaining /\ IsFiniteSet(Client!Retaining)
    BY <1>2, <1>8 DEF Client!Requeued, Client!Retaining, Client!At, ClientInv, RoomForRetains
  <2>2. Client!Retaining' = Client!Retaining \ {u}
    BY <1>1, <1>2, MovedCalls
       DEF ClientInv, Client!Retaining, Client!At, Client!Callers, Client!Idle
  <2>3. /\ IsFiniteSet(Client!Retaining')
        /\ Cardinality(Client!Retaining') = Cardinality(Client!Retaining) - 1
        /\ Cardinality(Client!Retaining) \in Nat /\ Cardinality(Client!Retaining') \in Nat
    BY <2>1, <2>2, FS_RemoveElement, FS_CardinalityType
  <2>4. /\ rows \in Nat /\ rows + Cardinality(Client!Retaining) <= ClientRows
    BY DEF ClientInv, RoomForRetains
  <2>5. rows + 1 \in Client!Rows /\ rows' \in 0..ClientRows
    BY <1>8, <2>3, <2>4, ClientNumbers DEF Client!Rows
  <2>6. RoomForRetains'
    BY <1>8, <2>3, <2>4, ClientNumbers DEF RoomForRetains
  <2>7. queue \in Seq(Client!Rows)
    BY DEF ClientInv, StoreTyped
  <2>8. queue' \in Seq(Client!Rows) /\ queue' # <<>>
    BY <1>8, <2>5, <2>7
  <2>9. StoreTyped' /\ DrainHasRow'
    BY <1>3, <2>5, <2>8 DEF StoreTyped, DrainHasRow, ClientInv, Client!Rows
  <2> QED BY <1>4, <1>5, <1>6, <2>6, <2>9 DEF ClientInv
<1> QED BY <1>7, <1>8 DEF Client!Finish, Client!store

\* The two modules take their cardinalities from one definition.
LEMMA SameCardinality ==
    ASSUME NEW S PROVE Client!Cardinality(S) = Cardinality(S)
BY Zenon DEF Cardinality, Client!Cardinality

LEMMA LeaveTyped ==
    ASSUME ClientConstants, StoreTyped, queue # <<>>, Client!Leave
    PROVE  StoreTyped' /\ (Len(queue) > 1 => queue' # <<>>)
<1>1. queue \in Seq(Client!Rows) /\ Head(queue) \in Client!Rows
  BY DEF StoreTyped
<1>2. /\ queue' = Tail(queue) /\ rowAge' = [rowAge EXCEPT ![Head(queue)] = 0]
      /\ took' = FALSE /\ rows' = rows
  BY DEF Client!Leave
<1>3. queue' \in Seq(Client!Rows) /\ (Len(queue) > 1 => queue' # <<>>)
  <2>1. Tail(queue) \in Seq(Client!Rows) /\ Len(Tail(queue)) = Len(queue) - 1
    BY <1>1, HeadTailProperties
  <2>2. Len(queue) \in Nat /\ Len(<<>>) = 0
    BY <1>1
  <2>3. ASSUME Len(queue) > 1, Tail(queue) = <<>> PROVE FALSE
    <3>1. Len(Tail(queue)) = 0
      BY <2>2, <2>3, Zenon
    <3>2. Len(queue) - 1 = 0
      BY <2>1, <3>1, Zenon
    <3> HIDE <2>1
    <3> QED BY <2>2, <2>3, <3>2
  <2> QED BY <1>2, <2>1, <2>3
<1>4. rowAge' \in [Client!Rows -> 0..(ClientMaxAge + 1)]
  <2>1. rowAge \in [Client!Rows -> 0..(ClientMaxAge + 1)] /\ 0 \in 0..(ClientMaxAge + 1)
    BY ClientNumbers DEF StoreTyped
  <2> QED BY <1>1, <1>2, <2>1
<1> QED BY <1>2, <1>3, <1>4 DEF StoreTyped, Client!Rows

LEMMA StartKeeps ==
    ASSUME ClientConstants, ClientInv, NEW u \in Users, NEW kind \in {"recall", "retain"},
           Client!Start(u, kind)
    PROVE  ClientInv'
<1>1. u \in Client!Callers /\ u # "drain" /\ call[u].pc = "idle"
  BY ClientNumbers DEF Client!Callers, Client!Start, Client!At
<1>2. PICK q \in GoodCall : Moved(u, q) /\ q.pc \in {"sent", "read"} /\ q.kind = kind
  <2>1. /\ Client!Sent(kind) \in GoodCall
        /\ Client!Sent(kind).pc = "sent" /\ Client!Sent(kind).kind = kind
    BY SentIsGood
  <2>2. Client!Admit(u, Client!Sent(kind))
    BY DEF Client!Start
  <2> QED BY <1>1, <2>1, <2>2, AdmitMoves DEF ClientInv
<1>3. UNCHANGED <<circuit, until, lastOpen, fails, status, booted, probing, raced,
                  queue, rowAge, rows, took>>
  BY DEF Client!Start, Client!breaker, Client!boot, Client!store
<1>4. CallsTyped' /\ SettlerUnderWay'
  BY <1>1, <1>2, <1>3, MovedCalls, SettlerStays DEF ClientInv
<1>5. BreakerTyped' /\ FlagsTyped' /\ StoreTyped'
  BY <1>3 DEF ClientInv, BreakerTyped, FlagsTyped, StoreTyped, Client!Statuses, Client!Rows
<1>6. DrainHasRow'
  BY <1>1, <1>2, <1>3 DEF DrainHasRow, ClientInv, Moved, CallsTyped
<1>7. CASE kind = "recall"
  <2>1. RoomForRetains'
    BY <1>1, <1>2, <1>3, <1>7, KeepsRoom DEF ClientInv
  <2> QED BY <1>4, <1>5, <1>6, <2>1 DEF ClientInv
<1>8. CASE kind = "retain"
  <2>1. /\ IsFiniteSet(Client!Retaining) /\ rows \in Nat
        /\ rows + Cardinality(Client!Retaining) < ClientRows
    <3>1. rows + Client!Cardinality(Client!Retaining) < ClientRows
      BY <1>8, Zenon DEF Client!Start
    <3>2. Client!Cardinality(Client!Retaining) = Cardinality(Client!Retaining)
      BY SameCardinality
    <3> QED BY <3>1, <3>2 DEF ClientInv, RoomForRetains
  <2>2. Client!Retaining' = Client!Retaining \cup {u} /\ u \notin Client!Retaining
    BY <1>1, <1>2, <1>8, MovedCalls
       DEF ClientInv, Client!Retaining, Client!At, Client!Callers
  <2>3. /\ IsFiniteSet(Client!Retaining')
        /\ Cardinality(Client!Retaining') = Cardinality(Client!Retaining) + 1
        /\ Cardinality(Client!Retaining) \in Nat
    BY <2>1, <2>2, FS_AddElement, FS_CardinalityType
  <2>4. RoomForRetains'
    BY <1>3, <2>1, <2>3, ClientNumbers DEF RoomForRetains
  <2> QED BY <1>4, <1>5, <1>6, <2>4 DEF ClientInv
<1> QED BY <1>7, <1>8

LEMMA BankReturnsKeeps ==
    ASSUME ClientConstants, ClientInv, Client!BankReturns
    PROVE  ClientInv'
<1>1. "bank" \in Client!Callers /\ call["bank"].pc = "return"
  BY DEF Client!Callers, Client!BankReturns, Client!At
<1>2. Client!Idle \in GoodCall /\ Moved("bank", Client!Idle) /\ Client!Idle.pc = "idle"
  BY IdleIsGood DEF Client!BankReturns, Client!Done, Moved, Client!Idle
<1>3. UNCHANGED <<circuit, until, lastOpen, fails, queue, rowAge, rows, took>>
  BY DEF Client!BankReturns, Client!breaker, Client!store
<1>4. CallsTyped'
  BY <1>1, <1>2, MovedCalls DEF ClientInv
<1>5. BreakerTyped' /\ StoreTyped'
  BY <1>3 DEF ClientInv, BreakerTyped, StoreTyped, Client!Rows
<1>6. DrainHasRow'
  BY <1>1, <1>2, <1>3 DEF DrainHasRow, ClientInv, Moved, CallsTyped
<1>7. RoomForRetains'
  BY <1>1, <1>2, <1>3, KeepsRoom DEF ClientInv
<1>8. booted' \in BOOLEAN /\ probing' \in BOOLEAN
  <2>1. booted \in BOOLEAN /\ probing \in BOOLEAN
    BY DEF ClientInv, FlagsTyped
  <2>2. booted' = TRUE
    BY DEF Client!BankReturns
  <2>3. probing' = IF booted THEN probing /\ call["bank"].out # "ok"
                   ELSE call["bank"].out = "transient"
    BY DEF Client!BankReturns
  <2> QED BY <2>1, <2>2, <2>3
<1>9. CASE UNCHANGED <<status, raced>>
  <2>1. FlagsTyped'
    BY <1>8, <1>9 DEF FlagsTyped, ClientInv, Client!Statuses
  <2>2. SettlerUnderWay'
    BY <1>1, <1>2, <1>3, <1>9, SettlerStays DEF ClientInv
  <2> QED BY <1>4, <1>5, <1>6, <1>7, <2>1, <2>2 DEF ClientInv
<1>10. CASE status' = "Healthy" /\ raced' = (circuit # "closed")
  <2>1. FlagsTyped'
    BY <1>8, <1>10 DEF FlagsTyped, Client!Statuses
  <2>2. SettlerUnderWay'
    BY <1>3, <1>10 DEF SettlerUnderWay
  <2> QED BY <1>4, <1>5, <1>6, <1>7, <2>1, <2>2 DEF ClientInv
<1> QED BY <1>9, <1>10 DEF Client!BankReturns

LEMMA ProbeBankKeeps ==
    ASSUME ClientConstants, ClientInv, Client!ProbeBank
    PROVE  ClientInv'
<1>1. "bank" \in Client!Callers /\ call["bank"].pc = "idle"
  BY DEF Client!Callers, Client!ProbeBank, Client!At
<1>2. PICK q \in GoodCall : Moved("bank", q) /\ q.pc \in {"sent", "read"} /\ q.kind = "bank"
  <2>1. /\ Client!Sent("bank") \in GoodCall
        /\ Client!Sent("bank").pc = "sent" /\ Client!Sent("bank").kind = "bank"
    BY SentIsGood
  <2>2. Client!Admit("bank", Client!Sent("bank"))
    BY DEF Client!ProbeBank
  <2> QED BY <1>1, <2>1, <2>2, AdmitMoves DEF ClientInv
<1>3. UNCHANGED <<circuit, until, lastOpen, fails, status, booted, probing, raced,
                  queue, rowAge, rows, took>>
  BY DEF Client!ProbeBank, Client!breaker, Client!boot, Client!store
<1>4. CallsTyped' /\ SettlerUnderWay'
  BY <1>1, <1>2, <1>3, MovedCalls, SettlerStays DEF ClientInv
<1>5. BreakerTyped' /\ FlagsTyped' /\ StoreTyped'
  BY <1>3 DEF ClientInv, BreakerTyped, FlagsTyped, StoreTyped, Client!Statuses, Client!Rows
<1>6. DrainHasRow'
  BY <1>1, <1>2, <1>3 DEF DrainHasRow, ClientInv, Moved, CallsTyped
<1>7. RoomForRetains'
  BY <1>1, <1>2, <1>3, KeepsRoom DEF ClientInv
<1> QED BY <1>4, <1>5, <1>6, <1>7 DEF ClientInv

\* The drain loop moves to q, and the queue is not empty where q is under way.
LEMMA DrainMoves ==
    ASSUME ClientConstants, ClientInv, StoreTyped',
           UNCHANGED <<Client!breaker, status, Client!boot, raced, rows>>,
           call["drain"].pc \in {"idle", "return"},
           NEW q \in GoodCall, Moved("drain", q), q.kind # "retain" \/ q.pc = "idle",
           q.pc = "idle" \/ queue' # <<>>
    PROVE  ClientInv'
<1>1. "drain" \in Client!Callers
  BY DEF Client!Callers
<1>2. UNCHANGED <<circuit, until, lastOpen, fails, status, booted, probing, raced, rows>>
  BY DEF Client!breaker, Client!boot
<1>3. CallsTyped' /\ SettlerUnderWay' /\ call'["drain"] = q
  BY <1>1, <1>2, MovedCalls, SettlerStays DEF ClientInv
<1>4. BreakerTyped' /\ FlagsTyped'
  BY <1>2 DEF ClientInv, BreakerTyped, FlagsTyped, Client!Statuses
<1>5. DrainHasRow'
  BY <1>3 DEF DrainHasRow
<1>6. RoomForRetains'
  BY <1>1, <1>2, KeepsRoom DEF ClientInv
<1> QED BY <1>3, <1>4, <1>5, <1>6 DEF ClientInv

LEMMA DrainAdmitted ==
    ASSUME ClientConstants, ClientInv, Client!Admit("drain", Client!Sent("drain"))
    PROVE  \E q \in GoodCall : Moved("drain", q) /\ q.kind = "drain"
<1>1. "drain" \in Client!Callers
  BY DEF Client!Callers
<1>2. /\ Client!Sent("drain") \in GoodCall
      /\ Client!Sent("drain").pc = "sent" /\ Client!Sent("drain").kind = "drain"
  BY SentIsGood
<1> QED BY <1>1, <1>2, AdmitMoves DEF ClientInv

LEMMA DrainTickKeeps ==
    ASSUME ClientConstants, ClientInv, Client!DrainTick
    PROVE  ClientInv'
<1>1. /\ call["drain"].pc = "idle" /\ queue # <<>>
      /\ UNCHANGED <<Client!breaker, status, Client!boot, raced>>
  BY DEF Client!DrainTick, Client!At
<1>2. CASE Client!Leave /\ UNCHANGED call
  <2>1. StoreTyped' /\ UNCHANGED rows
    BY <1>1, <1>2, LeaveTyped DEF ClientInv, Client!Leave
  <2>2. call["drain"] \in GoodCall /\ Moved("drain", call["drain"])
    BY <1>2 DEF ClientInv, CallsTyped, Client!Callers, Moved
  <2> QED BY <1>1, <2>1, <2>2, DrainMoves
<1>3. CASE Client!Admit("drain", Client!Sent("drain")) /\ UNCHANGED Client!store
  <2>1. UNCHANGED <<queue, rowAge, rows, took>>
    BY <1>3 DEF Client!store
  <2>2. StoreTyped'
    BY <2>1 DEF StoreTyped, ClientInv, Client!Rows
  <2>3. PICK q \in GoodCall : Moved("drain", q) /\ q.kind = "drain"
    BY <1>3, DrainAdmitted
  <2> QED BY <1>1, <2>1, <2>2, <2>3, DrainMoves
<1> QED BY <1>2, <1>3 DEF Client!DrainTick

LEMMA DrainReturnsKeeps ==
    ASSUME ClientConstants, ClientInv, Client!DrainReturns
    PROVE  ClientInv'
<1>1. /\ call["drain"].pc = "return" /\ queue # <<>>
      /\ UNCHANGED <<Client!breaker, status, Client!boot, raced>>
  BY DEF Client!DrainReturns, Client!At, ClientInv, DrainHasRow
<1>2. Client!Idle \in GoodCall /\ Client!Idle.pc = "idle"
  BY IdleIsGood DEF Client!Idle
<1>3. CASE Client!Leave /\ Client!Done("drain")
  <2>1. StoreTyped' /\ UNCHANGED rows
    BY <1>1, <1>3, LeaveTyped DEF ClientInv, Client!Leave
  <2>2. Moved("drain", Client!Idle)
    BY <1>3 DEF Client!Done, Moved
  <2> QED BY <1>1, <1>2, <2>1, <2>2, DrainMoves
<1>4. CASE /\ Client!Leave /\ Len(queue) > 1
           /\ Client!Admit("drain", Client!Sent("drain"))
  <2>1. StoreTyped' /\ UNCHANGED rows /\ queue' # <<>>
    BY <1>1, <1>4, LeaveTyped DEF ClientInv, Client!Leave
  <2>2. PICK q \in GoodCall : Moved("drain", q) /\ q.kind = "drain"
    BY <1>4, DrainAdmitted
  <2> QED BY <1>1, <2>1, <2>2, DrainMoves
<1>5. CASE Client!Done("drain") /\ UNCHANGED Client!store
  <2>1. UNCHANGED <<queue, rowAge, rows, took>>
    BY <1>5 DEF Client!store
  <2>2. StoreTyped'
    BY <2>1 DEF StoreTyped, ClientInv, Client!Rows
  <2>3. Moved("drain", Client!Idle)
    BY <1>5 DEF Client!Done, Moved
  <2> QED BY <1>1, <1>2, <2>1, <2>2, <2>3, DrainMoves
<1> QED BY <1>3, <1>4, <1>5 DEF Client!DrainReturns

LEMMA ClientTickKeeps ==
    ASSUME ClientConstants, ClientInv, Client!Tick
    PROVE  ClientInv'
<1>1. UNCHANGED <<lastOpen, status, call, queue, rows, took, booted, probing, raced>>
  BY DEF Client!Tick, Client!boot
<1>2. BreakerTyped'
  BY <1>1, ClientNumbers DEF ClientInv, BreakerTyped, Client!Tick
<1>3. StoreTyped'
  <2>1. \A r \in Client!Rows : rowAge'[r] \in {rowAge[r], rowAge[r] + 1}
                             /\ (rowAge'[r] # rowAge[r] => rowAge[r] <= ClientMaxAge)
    BY DEF Client!Tick
  <2>2. rowAge' \in [Client!Rows -> 0..(ClientMaxAge + 1)]
    <3>1. \A r \in Client!Rows : rowAge[r] \in 0..(ClientMaxAge + 1)
      BY DEF ClientInv, StoreTyped
    <3>2. \A r \in Client!Rows : rowAge'[r] \in 0..(ClientMaxAge + 1)
      BY <2>1, <3>1, ClientNumbers
    <3> QED BY <3>2 DEF Client!Tick
  <2> QED BY <1>1, <2>2 DEF StoreTyped, ClientInv, Client!Rows
<1>4. FlagsTyped' /\ CallsTyped' /\ DrainHasRow'
  BY <1>1 DEF ClientInv, FlagsTyped, CallsTyped, DrainHasRow, Client!Statuses, Client!Callers
<1>5. Client!Retaining' = Client!Retaining
  BY <1>1 DEF Client!Retaining, Client!At
<1>6. RoomForRetains'
  BY <1>1, <1>5 DEF RoomForRetains, ClientInv
<1>7. (circuit = "closed") = (circuit' = "closed")
  BY DEF Client!Tick
<1>8. SettlerUnderWay'
  BY <1>1, <1>7 DEF ClientInv, SettlerUnderWay, Client!Sticky, Client!Callers
<1> QED BY <1>2, <1>3, <1>4, <1>6, <1>8 DEF ClientInv

LEMMA ClientStutters ==
    ASSUME ClientInv,
           UNCHANGED <<Client!breaker, status, call, Client!store, Client!boot, raced>>
    PROVE  ClientInv'
<1>1. UNCHANGED <<circuit, until, lastOpen, fails, status, call, queue, rowAge, rows, took,
                  booted, probing, raced>>
  BY DEF Client!breaker, Client!store, Client!boot
<1>2. Client!Retaining' = Client!Retaining
  BY <1>1 DEF Client!Retaining, Client!At
<1> QED BY <1>1, <1>2
       DEF ClientInv, BreakerTyped, StoreTyped, FlagsTyped, CallsTyped, RoomForRetains,
           DrainHasRow, SettlerUnderWay, Client!Sticky, Client!Statuses, Client!Rows,
           Client!Callers

\* Every step of MemoryClient preserves the invariant.
LEMMA ClientStep ==
    ASSUME ClientConstants, ClientInv, [Client!Next]_(Client!vars)
    PROVE  ClientInv'
<1>1. CASE UNCHANGED Client!vars
  BY <1>1, ClientStutters DEF Client!vars
<1>2. ASSUME NEW c \in Client!Callers, Client!Proceed(c) PROVE ClientInv'
  BY <1>2, CallStepKeeps, FinishKeeps, BankReturnsKeeps, DrainReturnsKeeps
     DEF Client!Proceed
<1>3. CASE \E u \in Users, kind \in {"recall", "retain"} : Client!Start(u, kind)
  BY <1>3, StartKeeps
<1>4. CASE Client!ProbeBank \/ Client!DrainTick \/ Client!Tick
  BY <1>4, ProbeBankKeeps, DrainTickKeeps, ClientTickKeeps
<1>5. CASE \E u \in Client!Answering : Client!HindsightChanges(u)
  BY <1>5, ClientStutters DEF Client!HindsightChanges
<1> QED BY <1>1, <1>2, <1>3, <1>4, <1>5 DEF Client!Next

\* The inductive invariant of the client holds throughout, whatever Hindsight
\* answers and however calls, ticks and the drain loop interleave.
THEOREM ClientInvariant == ASSUME ClientConstants PROVE Client!Spec => []ClientInv
<1>1. Client!Init => ClientInv
  BY ClientInitially
<1>2. ClientInv /\ [Client!Next]_(Client!vars) => ClientInv'
  BY ClientStep
<1> QED BY <1>1, <1>2, PTL DEF Client!Spec

\* Type correctness of breaker, status, calls and queue; an open circuit, and no
\* other, has time left (Breaker::record and Breaker::refresh of circuit.rs).
THEOREM ClientTypeCorrect == ASSUME ClientConstants PROVE Client!Spec => []Client!TypeOK
<1>1. ClientInv => Client!TypeOK
  BY ClientInvTypes
<1> QED BY <1>1, ClientInvariant, PTL

\* Once no call is under way the status says whether the circuit is closed, but
\* for a last write from an overtaken reading: while they disagree some call has
\* yet to come to refresh_status (resilient.rs, call_with_policy).
THEOREM StatusSettlesOnceIdle ==
    ASSUME ClientConstants PROVE Client!Spec => []Client!StatusSettles
<1>1. ClientInv => Client!StatusSettles
  BY DEF ClientInv, SettlerUnderWay, Client!StatusSettles, Client!At
<1> QED BY <1>1, ClientInvariant, PTL

(***************************************************************************)
(* MemoryClient implements PendingRows.  The queue is in insertion order,  *)
(* so that its head is a row of its own; rows outside of it have no age;   *)
(* and the drain loop calls a row stored exactly when Hindsight took it.   *)
(***************************************************************************)
ClientOrdered ==
    /\ \A i, j \in DOMAIN queue : i < j => queue[i] < queue[j]
    /\ \A i \in DOMAIN queue : queue[i] <= rows

AgesFresh == \A r \in Client!Rows : r \notin Client!Queued => rowAge[r] = 0

DrainKnows ==
    LET d == call["drain"] IN
    /\ d.pc # "idle" => d.kind = "drain"
    /\ took = (d.pc \notin {"idle", "sent", "backoff"} /\ d.out = "ok")

PromiseInv == ClientInv /\ ClientOrdered /\ AgesFresh /\ DrainKnows

LEMMA SamePromiseCardinality ==
    ASSUME NEW S PROVE Client!Promise!Cardinality(S) = Cardinality(S)
BY Zenon DEF Cardinality, Client!Promise!Cardinality

LEMMA QueuedTyped ==
    ASSUME ClientConstants, StoreTyped, ClientOrdered
    PROVE  /\ Client!Queued \subseteq 1..rows /\ 1..rows \subseteq Client!Rows
           /\ rows \in Nat
           /\ queue # <<>> => Head(queue) \in Client!Queued
<1>1. /\ queue \in Seq(Client!Rows) /\ rows \in 0..ClientRows
      /\ DOMAIN queue = 1..Len(queue) /\ Len(queue) \in Nat
  BY DEF StoreTyped
<1>2. rows \in Nat /\ 1..rows \subseteq Client!Rows
  BY <1>1, ClientNumbers DEF Client!Rows
<1>3. ASSUME NEW i \in DOMAIN queue PROVE queue[i] \in 1..rows
  <2>1. queue[i] \in Client!Rows /\ queue[i] <= rows
    BY <1>1, <1>3 DEF ClientOrdered
  <2> QED BY <1>2, <2>1, ClientNumbers DEF Client!Rows
<1>4. ASSUME queue # <<>> PROVE Head(queue) = queue[1] /\ 1 \in DOMAIN queue
  BY <1>1, <1>4
<1> QED BY <1>2, <1>3, <1>4 DEF Client!Queued

LEMMA QueueIndexed ==
    ASSUME ClientConstants, StoreTyped
    PROVE  /\ queue \in Seq(Client!Rows) /\ Len(queue) \in Nat
           /\ DOMAIN queue = 1..Len(queue)
           /\ \A i \in 1..Len(queue) : queue[i] \in Nat
BY ClientNumbers DEF StoreTyped, Client!Rows

\* The row at the head leaves, and only that one.
LEMMA QueueShrinks ==
    ASSUME ClientConstants, StoreTyped, ClientOrdered, queue # <<>>,
           queue' = Tail(queue), rows' = rows
    PROVE  Client!Queued' = Client!Queued \ {Head(queue)} /\ ClientOrdered'
<1> DEFINE n == Len(queue)
           t == Tail(queue)
<1>1. /\ queue \in Seq(Client!Rows) /\ n \in Nat /\ DOMAIN queue = 1..n
      /\ \A i \in 1..n : queue[i] \in Nat
  BY QueueIndexed
<1>2. t \in Seq(Client!Rows) /\ Len(t) = n - 1 /\ \A i \in 1..Len(t) : t[i] = queue[i + 1]
  BY <1>1, HeadTailProperties
<1>3. n # 0 /\ Head(queue) = queue[1] /\ DOMAIN t = 1..(n - 1)
  BY <1>1, <1>2
<1> HIDE DEF n, t
<1>4. ASSUME NEW i \in DOMAIN t
      PROVE  i + 1 \in 1..n /\ t[i] = queue[i + 1] /\ t[i] # Head(queue) /\ t[i] <= rows
  <2>1. i + 1 \in 1..n /\ 1 \in 1..n /\ 1 < i + 1 /\ i \in 1..Len(t)
    BY <1>1, <1>2, <1>3, <1>4
  <2>2. t[i] = queue[i + 1] /\ queue[1] < queue[i + 1] /\ queue[i + 1] <= rows
    BY <1>1, <1>2, <2>1 DEF ClientOrdered
  <2>3. queue[1] \in Nat /\ queue[i + 1] \in Nat
    BY <1>1, <2>1
  <2> QED BY <1>3, <2>1, <2>2, <2>3
<1>5. ASSUME NEW i \in DOMAIN queue, queue[i] # Head(queue)
      PROVE  i - 1 \in DOMAIN t /\ queue[i] = t[i - 1]
  <2>1. i - 1 \in 1..(n - 1) /\ i - 1 + 1 = i
    BY <1>1, <1>3, <1>5
  <2> QED BY <1>2, <1>3, <2>1
<1>6. Client!Queued' = {t[i] : i \in DOMAIN t}
  BY DEF Client!Queued, t
<1>7. {t[i] : i \in DOMAIN t} = Client!Queued \ {Head(queue)}
  BY <1>1, <1>4, <1>5 DEF Client!Queued
<1>8. ASSUME NEW i \in DOMAIN t, NEW j \in DOMAIN t, i < j PROVE t[i] < t[j]
  <2>1. i + 1 < j + 1
    BY <1>3, <1>1, <1>8
  <2> QED BY <1>1, <1>4, <2>1 DEF ClientOrdered
<1>9. ClientOrdered'
  <2>1. queue' = t
    BY DEF t
  <2> QED BY <1>4, <1>8, <2>1 DEF ClientOrdered
<1> QED BY <1>6, <1>7, <1>9

\* A new row goes behind all the others.
LEMMA QueueGrows ==
    ASSUME ClientConstants, StoreTyped, ClientOrdered,
           queue' = Append(queue, rows + 1), rows' = rows + 1
    PROVE  /\ Client!Queued' = Client!Queued \cup {rows + 1} /\ ClientOrdered'
           /\ queue # <<>> => Head(queue') = Head(queue)
<1> DEFINE n == Len(queue)
           a == Append(queue, rows + 1)
<1>1. /\ queue \in Seq(Client!Rows) /\ n \in Nat /\ DOMAIN queue = 1..n
      /\ \A i \in 1..n : queue[i] \in Nat
  BY QueueIndexed
<1>2. rows \in Nat /\ rows + 1 \in Nat
  BY QueuedTyped
<1>3. /\ DOMAIN a = 1..(n + 1) /\ a[n + 1] = rows + 1
      /\ \A i \in 1..n : a[i] = queue[i]
  <2>1. queue \in Seq(Nat)
    BY <1>1
  <2>2. a \in Seq(Nat) /\ Len(a) = n + 1
    BY <1>2, <2>1, AppendProperties
  <2>3. a[n + 1] = rows + 1 /\ \A i \in 1..n : a[i] = queue[i]
    BY <1>2, <2>1, AppendProperties
  <2> QED BY <2>2, <2>3
<1>4. queue # <<>> => Head(queue') = Head(queue)
  <2> SUFFICES ASSUME queue # <<>> PROVE Head(queue') = Head(queue)
    OBVIOUS
  <2>1. 1 \in 1..n
    BY <1>1
  <2>2. Head(queue) = queue[1]
    BY <1>1
  <2>3. Head(a) = a[1]
    BY <1>1, <1>2
  <2> QED BY <1>3, <2>1, <2>2, <2>3
<1>5. queue' = a
  OBVIOUS
<1> HIDE DEF n, a
<1>6. Client!Queued' = {a[i] : i \in DOMAIN a}
  BY <1>5 DEF Client!Queued
<1>7. ASSUME NEW i \in 1..(n + 1) PROVE i \in 1..n \/ i = n + 1
  BY <1>1
<1>8. 1..n \subseteq 1..(n + 1) /\ n + 1 \in 1..(n + 1)
  BY <1>1
<1>9. {a[i] : i \in DOMAIN a} = Client!Queued \cup {rows + 1}
  BY <1>1, <1>3, <1>7, <1>8 DEF Client!Queued
<1>10. ASSUME NEW i \in DOMAIN a, NEW j \in DOMAIN a, i < j PROVE a[i] < a[j]
  <2>1. i \in 1..n
    BY <1>1, <1>3, <1>10
  <2>2. CASE j \in 1..n
    BY <1>1, <1>3, <1>10, <2>1, <2>2 DEF ClientOrdered
  <2>3. CASE j = n + 1
    <3>1. a[i] = queue[i] /\ queue[i] <= rows /\ queue[i] \in Nat /\ a[j] = rows + 1
      BY <1>1, <1>3, <2>1, <2>3 DEF ClientOrdered
    <3> QED BY <1>2, <3>1
  <2> QED BY <1>3, <1>7, <2>2, <2>3
<1>11. ASSUME NEW i \in DOMAIN a PROVE a[i] <= rows + 1
  <2>1. CASE i \in 1..n
    BY <1>1, <1>2, <1>3, <2>1 DEF ClientOrdered
  <2>2. CASE i = n + 1
    BY <1>2, <1>3, <2>2
  <2> QED BY <1>3, <1>7, <1>11, <2>1, <2>2
<1>12. ClientOrdered'
  BY <1>5, <1>10, <1>11 DEF ClientOrdered
<1> QED BY <1>4, <1>6, <1>9, <1>12

PromiseStep == [Client!Promise!Next]_(Client!Promise!vars)

LEMMA PromiseStutters ==
    ASSUME UNCHANGED <<queue, rowAge, rows, took>>, ClientOrdered, AgesFresh
    PROVE  PromiseStep /\ ClientOrdered' /\ AgesFresh'
<1>1. Client!Queued' = Client!Queued
  BY DEF Client!Queued
<1>2. UNCHANGED Client!Promise!vars
  BY <1>1 DEF Client!Promise!vars
<1>3. ClientOrdered' /\ AgesFresh'
  BY <1>1 DEF ClientOrdered, AgesFresh, Client!Rows
<1> QED BY <1>2, <1>3 DEF PromiseStep

LEMMA DrainCall ==
    ASSUME ClientConstants, PromiseInv
    PROVE  /\ "drain" \in Client!Callers /\ call["drain"] \in GoodCall
           /\ call["drain"].pc # "backoff"
           /\ took => queue # <<>>
<1>1. "drain" \in Client!Callers /\ call["drain"] \in GoodCall
  BY DEF PromiseInv, ClientInv, CallsTyped, Client!Callers
<1>2. Client!Retries("drain") = 0
  BY DEF Client!Retries
<1>3. call["drain"].pc # "backoff"
  BY <1>1, <1>2 DEF PromiseInv, DrainKnows, GoodCall
<1>4. took => queue # <<>>
  BY DEF PromiseInv, ClientInv, DrainKnows, DrainHasRow
<1> QED BY <1>1, <1>3, <1>4

\* What an answer means to the drain loop: taken, or to be tried again.
LEMMA DrainHears ==
    ASSUME NEW out \in Client!Outcomes \cup {"open"}
    PROVE  (Client!Heard("drain", out) = "ok") = (out \in {"ok", "client"})
BY DEF Client!Heard, Client!Outcomes

\* The drain loop gets the answer for the row at the head.
LEMMA DrainAnswer ==
    ASSUME ClientConstants, PromiseInv, NEW out \in Client!Outcomes,
           Client!Answer("drain", out)
    PROVE  PromiseStep /\ ClientOrdered' /\ AgesFresh' /\ DrainKnows'
<1> DEFINE d == call["drain"]
<1>1. /\ d \in GoodCall /\ "drain" \in Client!Callers
      /\ d.pc = "sent" /\ d.kind = "drain" /\ took = FALSE
  BY DrainCall DEF PromiseInv, DrainKnows, Client!Answer, Client!At
<1>2. took' = (out \in {"ok", "client"}) /\ UNCHANGED <<queue, rowAge, rows>>
  BY <1>1 DEF Client!Answer
<1>3. Client!AfterAnswer("drain", out) \in {"clear", "auth", "quota", "read"}
  <2>1. ~(d.tries < Client!Retries("drain"))
    BY <1>1 DEF GoodCall, Client!Retries
  <2> QED BY <1>1, <2>1 DEF Client!AfterAnswer, Client!Outcomes
<1>4. call' = [call EXCEPT !["drain"].out = Client!Heard(d.kind, out),
                           !["drain"].pc = Client!AfterAnswer("drain", out)]
  BY DEF Client!Answer
<1>5. /\ call'["drain"].kind = d.kind
      /\ call'["drain"].out = Client!Heard(d.kind, out)
      /\ call'["drain"].pc = Client!AfterAnswer("drain", out)
  <2>1. call \in [Client!Callers -> GoodCall]
    BY DEF PromiseInv, ClientInv, CallsTyped
  <2> DEFINE h == Client!Heard(d.kind, out)
             a == Client!AfterAnswer("drain", out)
             q == [d EXCEPT !.out = h, !.pc = a]
  <2>2. call'["drain"] = q
    BY <1>1, <1>4, <2>1 DEF GoodCall
  <2> HIDE DEF d, h, a
  <2>3. q.kind = d.kind /\ q.out = h /\ q.pc = a
    BY <1>1 DEF GoodCall
  <2> QED BY <2>2, <2>3 DEF h, a
<1>6. DrainKnows'
  BY <1>1, <1>2, <1>3, <1>5, DrainHears DEF DrainKnows
<1>7. CASE out \notin {"ok", "client"}
  <2>1. took' = took
    <3>1. (out \in {"ok", "client"}) = FALSE
      BY <1>7
    <3>2. took' = FALSE
      BY <1>2, <3>1, Zenon
    <3> QED BY <1>1, <3>2, Zenon
  <2> QED BY <1>2, <1>6, <2>1, PromiseStutters DEF PromiseInv
<1>8. CASE out \in {"ok", "client"}
  <2>1. queue # <<>> /\ Client!Queued' = Client!Queued
    BY <1>1, <1>2 DEF PromiseInv, ClientInv, DrainHasRow, Client!Queued
  <2>2. Head(queue) \in Client!Queued
    BY <2>1, QueuedTyped DEF PromiseInv, ClientInv
  <2>3. Client!Promise!Take(Head(queue))
    BY <1>1, <1>2, <1>8, <2>1 DEF Client!Promise!Take
  <2>4. PromiseStep
    BY <2>2, <2>3 DEF PromiseStep, Client!Promise!Next
  <2>5. ClientOrdered' /\ AgesFresh'
    BY <1>2, <2>1 DEF PromiseInv, ClientOrdered, AgesFresh, Client!Rows
  <2> QED BY <1>6, <2>4, <2>5
<1> QED BY <1>7, <1>8

LEMMA PromiseCallStep ==
    ASSUME ClientConstants, PromiseInv, NEW c \in Client!Callers, Client!CallSteps(c)
    PROVE  PromiseStep /\ ClientOrdered' /\ AgesFresh' /\ DrainKnows'
<1>1. CASE \E out \in Client!Outcomes : Client!Answer(c, out)
  <2>1. PICK out \in Client!Outcomes : Client!Answer(c, out)
    BY <1>1
  <2>2. CASE c = "drain"
    BY <2>1, <2>2, DrainAnswer
  <2>3. CASE c # "drain"
    <3>1. UNCHANGED <<queue, rowAge, rows, took>>
      BY <2>1, <2>3 DEF Client!Answer, PromiseInv, ClientInv, StoreTyped
    <3>2. call'["drain"] = call["drain"]
      BY <2>1, <2>3, AnswerMoves, MovedCalls, DrainCall DEF PromiseInv, ClientInv
    <3>3. DrainKnows'
      BY <3>1, <3>2 DEF PromiseInv, DrainKnows
    <3> QED BY <3>1, <3>3, PromiseStutters DEF PromiseInv
  <2> QED BY <2>2, <2>3
<1>2. CASE ~(\E out \in Client!Outcomes : Client!Answer(c, out))
  <2>1. UNCHANGED <<queue, rowAge, rows, took>>
    BY <1>2 DEF Client!CallSteps, Client!Backoff, Client!ClearQuota, Client!ReadBreaker,
         Client!SetAuthFailed, Client!SetQuotaExhausted, Client!WriteStatus, Client!store
  <2>2. DrainKnows'
    <3>1. CASE c # "drain"
      <4>1. call'["drain"] = call["drain"]
        BY <3>1, CallStepMoves, MovedCalls, DrainCall DEF PromiseInv, ClientInv
      <4> QED BY <2>1, <4>1 DEF PromiseInv, DrainKnows
    <3>2. CASE c = "drain"
      <4>1. /\ call["drain"] \in GoodCall /\ "drain" \in Client!Callers
            /\ call["drain"].pc # "backoff" /\ call \in [Client!Callers -> GoodCall]
        BY DrainCall DEF PromiseInv, ClientInv, CallsTyped
      <4>2. CASE Client!ClearQuota("drain") \/ Client!ReadBreaker("drain")
        <5>1. /\ call["drain"].pc \in {"clear", "read"}
              /\ call' = [call EXCEPT !["drain"].pc = "write",
                                      !["drain"].closed = (circuit = "closed")]
          BY <4>2 DEF Client!ClearQuota, Client!ReadBreaker, Client!Read, Client!At
        <5>2. /\ call'["drain"].pc = "write" /\ call'["drain"].kind = call["drain"].kind
              /\ call'["drain"].out = call["drain"].out
          BY <4>1, <5>1 DEF GoodCall
        <5> QED BY <2>1, <5>1, <5>2 DEF PromiseInv, DrainKnows
      <4>3. CASE \/ Client!SetAuthFailed("drain") \/ Client!SetQuotaExhausted("drain")
                 \/ Client!WriteStatus("drain")
        <5>1. call["drain"].pc \in {"auth", "quota", "write"} /\ Client!Return("drain")
          BY <4>3 DEF Client!SetAuthFailed, Client!SetQuotaExhausted, Client!WriteStatus,
               Client!At
        <5>2. call["drain"].kind = "drain"
          BY <5>1 DEF PromiseInv, DrainKnows
        <5>3. /\ call'["drain"].pc = "return" /\ call'["drain"].kind = "drain"
              /\ call'["drain"].out = call["drain"].out
          BY <4>1, <5>1, <5>2 DEF Client!Return, Client!Idle
        <5> QED BY <2>1, <5>1, <5>3 DEF PromiseInv, DrainKnows
      <4>4. ~Client!Backoff("drain")
        BY <4>1 DEF Client!Backoff, Client!At
      <4> QED BY <1>2, <3>2, <4>2, <4>3, <4>4 DEF Client!CallSteps
    <3> QED BY <3>1, <3>2
  <2> QED BY <2>1, <2>2, PromiseStutters DEF PromiseInv
<1> QED BY <1>1, <1>2

\* The row at the head leaves the queue, what is known of it included.
LEMMA LeaveSteps ==
    ASSUME ClientConstants, PromiseInv, queue # <<>>, Client!Leave
    PROVE  /\ Client!Promise!Without({Head(queue)})
           /\ ClientOrdered' /\ AgesFresh' /\ took' = FALSE
<1> DEFINE h == Head(queue)
<1>1. /\ queue' = Tail(queue) /\ rowAge' = [rowAge EXCEPT ![h] = 0]
      /\ took' = FALSE /\ rows' = rows
  BY DEF Client!Leave
<1>2. Client!Queued' = Client!Queued \ {h} /\ ClientOrdered'
  BY <1>1, QueueShrinks DEF PromiseInv, ClientInv
<1>3. Client!Queued \subseteq Client!Rows /\ h \in Client!Rows
  BY QueuedTyped DEF PromiseInv, ClientInv
<1>4. rowAge \in [Client!Rows -> 0..(ClientMaxAge + 1)]
  BY DEF PromiseInv, ClientInv, StoreTyped
<1> HIDE DEF h
<1>5. \A r \in Client!Rows : rowAge'[r] = IF r = h THEN 0 ELSE rowAge[r]
  BY <1>1, <1>4
<1>6. AgesFresh'
  BY <1>2, <1>5 DEF PromiseInv, AgesFresh, Client!Rows
<1>7. Client!Promise!Without({h})
  <2>1. {r \in Client!Queued' : rowAge'[r] > ClientMaxAge}
            = {r \in Client!Queued : rowAge[r] > ClientMaxAge} \ {h}
    BY <1>2, <1>3, <1>5
  <2>2. (IF took' THEN {Head(queue')} ELSE {}) = (IF took THEN {h} ELSE {}) \ {h}
    BY <1>1
  <2> QED BY <1>1, <1>2, <2>1, <2>2 DEF Client!Promise!Without, h
<1> QED BY <1>1, <1>2, <1>6, <1>7 DEF h

LEMMA PromiseFinish ==
    ASSUME ClientConstants, PromiseInv, NEW u \in Users, Client!Finish(u)
    PROVE  PromiseStep /\ ClientOrdered' /\ AgesFresh' /\ DrainKnows'
<1>1. u \in Client!Callers /\ u # "drain" /\ Client!Idle \in GoodCall
      /\ Moved(u, Client!Idle)
  BY ClientNumbers, IdleIsGood DEF Client!Callers, Client!Finish, Client!Done, Moved
<1>2. UNCHANGED <<took, rowAge>> /\ call'["drain"] = call["drain"]
  <2>1. UNCHANGED <<took, rowAge>>
    BY DEF Client!Finish, Client!store
  <2> QED BY <1>1, <2>1, MovedCalls, DrainCall DEF PromiseInv, ClientInv
<1>3. DrainKnows'
  BY <1>2 DEF PromiseInv, DrainKnows
<1>4. CASE UNCHANGED <<queue, rows>>
  BY <1>2, <1>3, <1>4, PromiseStutters DEF PromiseInv
<1>5. CASE rows' = rows + 1 /\ queue' = Append(queue, rows + 1)
  <2>1. /\ Client!Queued' = Client!Queued \cup {rows + 1} /\ ClientOrdered'
        /\ queue # <<>> => Head(queue') = Head(queue)
    BY <1>5, QueueGrows DEF PromiseInv, ClientInv
  <2>2. /\ rows \in Nat /\ rows + 1 \in Client!Rows /\ rows + 1 \notin Client!Queued
        /\ Client!Queued' \subseteq 1..ClientRows
    <3>1. ClientInv'
      BY FinishKeeps DEF PromiseInv
    <3>2. rows \in Nat /\ rows + 1 \in 0..ClientRows /\ Client!Queued \subseteq 1..rows
      BY <1>5, <3>1, QueuedTyped DEF PromiseInv, ClientInv, StoreTyped
    <3>3. rows + 1 \in 1..ClientRows /\ rows + 1 \notin 1..rows
          /\ 1..rows \subseteq 1..ClientRows
      BY <3>2, ClientNumbers
    <3> QED BY <2>1, <3>2, <3>3 DEF Client!Rows
  <2>3. Cardinality(Client!Queued') <= ClientRows
    <3>1. IsFiniteSet(1..ClientRows) /\ Cardinality(1..ClientRows) = ClientRows
      <4>1. ClientRows \in Nat /\ 1 \in Int /\ ClientRows \in Int
        BY ClientNumbers
      <4>2. /\ IsFiniteSet(1..ClientRows)
            /\ Cardinality(1..ClientRows) = IF 1 > ClientRows THEN 0 ELSE ClientRows - 1 + 1
        BY <4>1, FS_Interval
      <4> QED BY <4>1, <4>2
    <3> QED BY <2>2, <3>1, FS_Subset
  <2>4. (IF took' THEN {Head(queue')} ELSE {}) = (IF took THEN {Head(queue)} ELSE {})
    BY <1>2, <2>1, DrainCall
  <2>5. {r \in Client!Queued' : rowAge'[r] > ClientMaxAge}
            = {r \in Client!Queued : rowAge[r] > ClientMaxAge}
    <3>1. ~(rowAge[rows + 1] > ClientMaxAge)
      BY <2>2, ClientNumbers DEF PromiseInv, AgesFresh
    <3> QED BY <1>2, <2>1, <3>1
  <2>6. Client!Promise!Insert({})
    <3>1. Client!Promise!Cardinality(Client!Queued') <= ClientRows
      BY <2>3, SamePromiseCardinality
    <3> QED BY <1>5, <2>1, <2>4, <2>5, <3>1 DEF Client!Promise!Insert
  <2>7. PromiseStep
    BY <2>6 DEF PromiseStep, Client!Promise!Next
  <2>8. AgesFresh'
    BY <1>2, <2>1 DEF PromiseInv, AgesFresh, Client!Rows
  <2> QED BY <1>3, <2>1, <2>7, <2>8
<1> QED BY <1>4, <1>5 DEF Client!Finish, Client!store

\* The drain loop posts a row: it is not taken yet.
LEMMA DrainPosts ==
    ASSUME ClientConstants, PromiseInv, took' = FALSE,
           Client!Admit("drain", Client!Sent("drain"))
    PROVE  DrainKnows'
<1>1. /\ Client!Sent("drain") \in GoodCall
      /\ Client!Sent("drain").pc = "sent" /\ Client!Sent("drain").kind = "drain"
  BY SentIsGood
<1>2. "drain" \in Client!Callers /\ call \in [Client!Callers -> GoodCall]
  BY DrainCall DEF PromiseInv, ClientInv, CallsTyped
<1>3. call'["drain"] = IF circuit = "open"
                       THEN [Client!Sent("drain") EXCEPT !.pc = "read",
                                !.out = Client!Heard(Client!Sent("drain").kind, "open")]
                       ELSE Client!Sent("drain")
  BY <1>2 DEF Client!Admit
<1>4. Client!Heard("drain", "open") # "ok"
  BY DrainHears
<1>5. CASE circuit = "open"
  <2>1. /\ call'["drain"].pc = "read" /\ call'["drain"].kind = "drain"
        /\ call'["drain"].out = Client!Heard("drain", "open")
    BY <1>1, <1>3, <1>5 DEF GoodCall
  <2> QED BY <1>4, <2>1 DEF DrainKnows
<1>6. CASE circuit # "open"
  BY <1>1, <1>3, <1>6 DEF DrainKnows
<1> QED BY <1>5, <1>6

\* The drain loop is done with its batch.
LEMMA DrainStops ==
    ASSUME ClientConstants, PromiseInv, took' = FALSE, Client!Done("drain")
    PROVE  DrainKnows'
<1>1. call'["drain"] = Client!Idle
  BY DrainCall DEF PromiseInv, ClientInv, CallsTyped, Client!Done
<1>2. Client!Idle.pc = "idle"
  BY DEF Client!Idle
<1> QED BY <1>1, <1>2 DEF DrainKnows

LEMMA PromiseDrainTick ==
    ASSUME ClientConstants, PromiseInv, Client!DrainTick
    PROVE  PromiseStep /\ ClientOrdered' /\ AgesFresh' /\ DrainKnows'
<1>1. call["drain"].pc = "idle" /\ queue # <<>> /\ took = FALSE
  BY DEF Client!DrainTick, Client!At, PromiseInv, DrainKnows
<1>2. CASE rowAge[Head(queue)] > ClientMaxAge /\ Client!Leave /\ UNCHANGED call
  <2>1. /\ Client!Promise!Without({Head(queue)})
        /\ ClientOrdered' /\ AgesFresh' /\ took' = FALSE
    BY <1>1, <1>2, LeaveSteps
  <2>2. Head(queue) \in Client!Queued
    BY <1>1, QueuedTyped DEF PromiseInv, ClientInv
  <2>3. PICK S \in SUBSET Client!Queued : S = {Head(queue)}
    BY <2>2
  <2>4. Client!Promise!Expire(S)
    BY <1>2, <2>1, <2>2, <2>3 DEF Client!Promise!Expire, Client!Promise!Without
  <2>5. PromiseStep
    BY <2>4 DEF PromiseStep, Client!Promise!Next
  <2>6. DrainKnows'
    BY <1>1, <1>2, <2>1 DEF DrainKnows
  <2> QED BY <2>1, <2>5, <2>6
<1>3. CASE Client!Admit("drain", Client!Sent("drain")) /\ UNCHANGED Client!store
  <2>1. UNCHANGED <<queue, rowAge, rows, took>>
    BY <1>3 DEF Client!store
  <2> QED BY <1>1, <1>3, <2>1, DrainPosts, PromiseStutters DEF PromiseInv
<1> QED BY <1>2, <1>3 DEF Client!DrainTick

LEMMA PromiseDrainReturns ==
    ASSUME ClientConstants, PromiseInv, Client!DrainReturns
    PROVE  PromiseStep /\ ClientOrdered' /\ AgesFresh' /\ DrainKnows'
<1>1. /\ call["drain"].pc = "return" /\ queue # <<>>
      /\ took = (call["drain"].out = "ok")
  BY DEF Client!DrainReturns, Client!At, PromiseInv, ClientInv, DrainHasRow, DrainKnows
<1>2. CASE call["drain"].out = "ok" /\ Client!Leave
  <2>1. /\ Client!Promise!Without({Head(queue)})
        /\ ClientOrdered' /\ AgesFresh' /\ took' = FALSE
    BY <1>1, <1>2, LeaveSteps
  <2>2. Head(queue) \in Client!Queued
    BY <1>1, QueuedTyped DEF PromiseInv, ClientInv
  <2>3. PICK i \in Client!Queued : i = Head(queue)
    BY <2>2
  <2>4. Client!Promise!Settle(i)
    BY <1>1, <1>2, <2>1, <2>3 DEF Client!Promise!Settle, Client!Promise!Without
  <2>5. PromiseStep
    BY <2>4 DEF PromiseStep, Client!Promise!Next
  <2>6. DrainKnows'
    BY <2>1, DrainPosts, DrainStops, <1>2 DEF Client!DrainReturns
  <2> QED BY <2>1, <2>5, <2>6
<1>3. CASE /\ call["drain"].out # "ok" /\ Client!Done("drain")
           /\ UNCHANGED Client!store
  <2>1. UNCHANGED <<queue, rowAge, rows, took>>
    BY <1>3 DEF Client!store
  <2>2. took' = FALSE
    BY <1>1, <1>3, <2>1
  <2> QED BY <1>3, <2>1, <2>2, DrainStops, PromiseStutters DEF PromiseInv
<1> QED BY <1>2, <1>3 DEF Client!DrainReturns

\* Rows only get older, those that are not queued excepted.
LEMMA PromiseTick ==
    ASSUME ClientConstants, PromiseInv, Client!Tick
    PROVE  PromiseStep /\ ClientOrdered' /\ AgesFresh' /\ DrainKnows'
<1>1. UNCHANGED <<queue, rows, took, call>>
  BY DEF Client!Tick
<1>2. Client!Queued' = Client!Queued /\ Client!Queued \subseteq Client!Rows
  BY <1>1, QueuedTyped DEF Client!Queued, PromiseInv, ClientInv
<1>3. \A r \in Client!Rows :
          /\ rowAge[r] \in 0..(ClientMaxAge + 1)
          /\ r \notin Client!Queued => rowAge'[r] = rowAge[r]
          /\ rowAge'[r] = rowAge[r] \/ rowAge'[r] = rowAge[r] + 1
  <2>1. \A r \in Client!Rows : rowAge[r] \in 0..(ClientMaxAge + 1)
    BY DEF PromiseInv, ClientInv, StoreTyped
  <2>2. rowAge' = [r \in Client!Rows |->
                       IF rowAge[r] <= ClientMaxAge /\ r \in Client!Queued
                       THEN rowAge[r] + 1 ELSE rowAge[r]]
    BY DEF Client!Tick
  <2> QED BY <2>1, <2>2
<1> PICK S \in SUBSET Client!Queued :
        S = {r \in Client!Queued : rowAge'[r] > ClientMaxAge}
  OBVIOUS
<1>4. {r \in Client!Queued' : rowAge'[r] > ClientMaxAge}
          = {r \in Client!Queued : rowAge[r] > ClientMaxAge} \cup S
  <2>1. \A r \in Client!Queued : rowAge[r] > ClientMaxAge => rowAge'[r] > ClientMaxAge
    BY <1>2, <1>3, ClientNumbers
  <2> QED BY <1>2, <2>1
<1>5. Client!Promise!Age(S)
  BY <1>1, <1>2, <1>4 DEF Client!Promise!Age
<1>6. PromiseStep
  BY <1>5 DEF PromiseStep, Client!Promise!Next
<1>7. ClientOrdered' /\ AgesFresh' /\ DrainKnows'
  BY <1>1, <1>2, <1>3 DEF PromiseInv, ClientOrdered, AgesFresh, DrainKnows, Client!Rows
<1> QED BY <1>6, <1>7

LEMMA PromiseOtherStep ==
    ASSUME ClientConstants, PromiseInv, call'["drain"] = call["drain"],
           UNCHANGED <<queue, rowAge, rows, took>>
    PROVE  PromiseStep /\ ClientOrdered' /\ AgesFresh' /\ DrainKnows'
<1>1. DrainKnows'
  BY DEF PromiseInv, DrainKnows
<1> QED BY <1>1, PromiseStutters DEF PromiseInv

\* Every step of MemoryClient is one of PendingRows or leaves its state alone.
LEMMA ClientRefines ==
    ASSUME ClientConstants, PromiseInv, [Client!Next]_(Client!vars)
    PROVE  PromiseInv' /\ PromiseStep
<1>1. ClientInv'
  BY ClientStep DEF PromiseInv
<1> SUFFICES PromiseStep /\ ClientOrdered' /\ AgesFresh' /\ DrainKnows'
  BY <1>1 DEF PromiseInv
<1>2. CASE UNCHANGED Client!vars
  BY <1>2, PromiseOtherStep DEF Client!vars, Client!store
<1>3. ASSUME NEW c \in Client!Callers, Client!Proceed(c)
      PROVE  PromiseStep /\ ClientOrdered' /\ AgesFresh' /\ DrainKnows'
  <2>1. CASE c = "bank" /\ Client!BankReturns
    <3>1. UNCHANGED <<queue, rowAge, rows, took>> /\ Client!Done("bank")
      BY <2>1 DEF Client!BankReturns, Client!store
    <3>2. call'["drain"] = call["drain"]
      BY <3>1, DrainCall DEF Client!Done, PromiseInv, ClientInv, CallsTyped
    <3> QED BY <3>1, <3>2, PromiseOtherStep
  <2> QED BY <1>3, <2>1, PromiseCallStep, PromiseFinish, PromiseDrainReturns
         DEF Client!Proceed
<1>4. ASSUME NEW u \in Users, NEW kind \in {"recall", "retain"}, Client!Start(u, kind)
      PROVE  PromiseStep /\ ClientOrdered' /\ AgesFresh' /\ DrainKnows'
  <2>1. UNCHANGED <<queue, rowAge, rows, took>> /\ u # "drain"
    BY <1>4, ClientNumbers DEF Client!Start, Client!store
  <2>2. call'["drain"] = call["drain"]
    BY <1>4, <2>1, DrainCall DEF Client!Start, Client!Admit, PromiseInv, ClientInv, CallsTyped
  <2> QED BY <2>1, <2>2, PromiseOtherStep
<1>5. CASE Client!ProbeBank
  <2>1. UNCHANGED <<queue, rowAge, rows, took>>
    BY <1>5 DEF Client!ProbeBank, Client!store
  <2>2. call'["drain"] = call["drain"]
    BY <1>5, DrainCall DEF Client!ProbeBank, Client!Admit, PromiseInv, ClientInv, CallsTyped
  <2> QED BY <2>1, <2>2, PromiseOtherStep
<1>6. CASE Client!DrainTick \/ Client!Tick
  BY <1>6, PromiseDrainTick, PromiseTick
<1>7. CASE \E u \in Client!Answering : Client!HindsightChanges(u)
  BY <1>7, PromiseOtherStep DEF Client!HindsightChanges, Client!store
<1> QED BY <1>2, <1>3, <1>4, <1>5, <1>6, <1>7 DEF Client!Next

LEMMA PromiseInitially ==
    ASSUME ClientConstants, Client!Init
    PROVE  PromiseInv /\ Client!Promise!Init
<1>1. ClientInv
  BY ClientInitially
<1>2. Left \in Nat /\ 1..Left \subseteq Client!Rows /\ rows = Left /\ took = FALSE
  BY ClientNumbers DEF Client!Init, Client!Rows
<1>3. DOMAIN queue = 1..Left /\ \A i \in 1..Left : queue[i] = i
  BY <1>2 DEF Client!Init
<1>4. Client!Queued = 1..Left
  BY <1>3 DEF Client!Queued
<1>5. ClientOrdered
  BY <1>2, <1>3 DEF ClientOrdered
<1>6. \A r \in Client!Rows : rowAge[r] = 0
  BY DEF Client!Init
<1>7. call["drain"] = Client!Idle
  BY ClientNumbers DEF Client!Init, Client!Callers
<1>8. AgesFresh /\ DrainKnows
  <2>1. call["drain"].pc = "idle"
    BY <1>7 DEF Client!Idle
  <2> QED BY <1>2, <1>6, <2>1 DEF AgesFresh, DrainKnows
<1>9. {r \in Client!Queued : rowAge[r] > ClientMaxAge} = {}
  BY <1>2, <1>4, <1>6, ClientNumbers
<1> QED BY <1>1, <1>2, <1>4, <1>5, <1>8, <1>9 DEF PromiseInv, Client!Promise!Init

\* Behind the circuit breaker the queue keeps the promise of PendingRows: outages,
\* refused attempts, a status that flips and retains that arrive while the drain
\* loop waits never lose a row (drain_retain_item, call_with_policy).
THEOREM ClientKeepsPromise ==
    ASSUME ClientConstants PROVE Client!Spec => Client!KeepsPromise
<1>1. Client!Init => PromiseInv /\ Client!Promise!Init
  BY PromiseInitially
<1>2. PromiseInv /\ [Client!Next]_(Client!vars) => PromiseInv' /\ PromiseStep
  BY ClientRefines
<1> QED BY <1>1, <1>2, PTL
       DEF Client!Spec, Client!KeepsPromise, Client!Promise!Spec, PromiseStep
=============================================================================
