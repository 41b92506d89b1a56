---------------------------- MODULE McpTokensProofs ----------------------------
(***************************************************************************)
(* Proofs about McpTokens for any requests, operations and bounds, with or *)
(* without rotation of refresh tokens: type correctness, stale refreshes   *)
(* are discarded, the last mutation is shown, an OAuth server keeps its    *)
(* timer.                                                                  *)
(*                                                                         *)
(* The invariant has two layers.  PartsInv holds whoever overtook whom: it *)
(* ties the lock, the channel, the entry and the refreshes to the requests *)
(* they belong to.  Credentials holds as long as no set-token overlapped   *)
(* another mutation and the reconnect task heeded its cancellation: then   *)
(* everything on its way to the row and to the backend is of the grant of  *)
(* the last mutation, a request that the scheduler has answered finds it   *)
(* empty (Calm), and a grant that was not given up has a refresh ahead.    *)
(* Routed, InFlight, Calm, Reconnects and Scheduled need each other, so    *)
(* the step of each assumes the others before the step.                    *)
(***************************************************************************)
EXTENDS McpTokens, FiniteSetTheorems, SequenceTheorems, TLAPS

-----------------------------------------------------------------------------
(* Types.                                                                    *)

Waits == {"cancel", "lock", "held", "stored", "probe"}
Holding == {"held", "stored", "probe", "connect"}

\* The shape of a request by its progress.
LEMMA BusyIs ==
    ASSUME TypeOK, NEW q \in Reqs, hs[q].pc \in Waits
    PROVE  hs[q] \in BusyType
  BY DEF TypeOK, RequestType, ConnectType, BusyType, Waits

LEMMA ConnectIs ==
    ASSUME TypeOK, NEW q \in Reqs, hs[q].pc = "connect"
    PROVE  hs[q] \in ConnectType
  BY DEF TypeOK, RequestType, ConnectType, BusyType

\* Backends and grants are counted by the requests that made them.
LEMMA CountedBelow ==
    ASSUME NEW S \in SUBSET Reqs
    PROVE  /\ Cardinality(S) \in 0 .. Cardinality(Reqs) /\ Cardinality(Reqs) \in Nat
           /\ \A q \in Reqs \ S : /\ Cardinality(S \cup {q}) = Cardinality(S) + 1
                                  /\ Cardinality(S) + 1 <= Cardinality(Reqs)
<1>1. IsFiniteSet(Reqs)
  BY McpTokensAssumption
<1>2. IsFiniteSet(S) /\ Cardinality(S) <= Cardinality(Reqs)
  BY <1>1, FS_Subset
<1>3. Cardinality(S) \in Nat /\ Cardinality(Reqs) \in Nat
  BY <1>1, <1>2, FS_CardinalityType
<1>4. ASSUME NEW q \in Reqs \ S
      PROVE  /\ Cardinality(S \cup {q}) = Cardinality(S) + 1
             /\ Cardinality(S) + 1 <= Cardinality(Reqs)
  <2>1. IsFiniteSet(S \cup {q}) /\ Cardinality(S \cup {q}) = Cardinality(S) + 1
    BY <1>2, <1>4, FS_AddElement
  <2>2. S \cup {q} \subseteq Reqs
    BY <1>4
  <2>3. Cardinality(S \cup {q}) <= Cardinality(Reqs)
    BY <1>1, <2>2, FS_Subset
  <2> QED
    BY <2>1, <2>3
<1> QED
  BY <1>2, <1>3, <1>4

\* There is a backend and a grant left for every request that may create one.
LEMMA BackendNumbers ==
    /\ 1 \in Backends /\ 0 \in Grants /\ Cardinality(Reqs) \in Nat
    /\ 1 + Made \in Backends
    /\ \A q \in Reqs : hs[q].pc # "done" => NewBackend \in Backends
<1> DEFINE S == {q \in Reqs : hs[q].pc = "done" /\ hs[q].made}
<1>1. /\ Cardinality(S) \in 0 .. Cardinality(Reqs) /\ Cardinality(Reqs) \in Nat
      /\ \A q \in Reqs \ S : Cardinality(S) + 1 <= Cardinality(Reqs)
  <2>1. S \in SUBSET Reqs
    OBVIOUS
  <2> HIDE DEF S
  <2> QED
    BY <2>1, CountedBelow
<1>2. Made = Cardinality(S)
  BY DEF Made
<1>3. \A q \in Reqs : hs[q].pc # "done" => q \in Reqs \ S
  OBVIOUS
<1> HIDE DEF S
<1> QED
  BY <1>1, <1>2, <1>3 DEF Backends, Grants, NewBackend

LEMMA TypeInit == Init => TypeOK
<1> SUFFICES ASSUME Init PROVE TypeOK
  OBVIOUS
<1>1. row \in RowType \cup {NoRow} /\ tok \in [Backends -> Creds] /\ prov \in ProviderType
  <2>1. 0 \in 0 .. MaxRefreshes /\ 0 \in Grants
    BY BackendNumbers, McpTokensAssumption
  <2>2. [g |-> 0, k |-> 0] \in Creds /\ None \in Creds
    BY <2>1 DEF Creds, Tokens
  <2>3. OauthRow([g |-> 0, k |-> 0], [g |-> 0, k |-> 0]) \in RowType
    BY <2>2 DEF RowType, OauthRow
  <2>4. prov \in ProviderType
    BY <2>1 DEF Init, ProviderType
  <2>5. row \in RowType \cup {NoRow}
    BY <2>3 DEF Init
  <2> QED
    BY <2>2, <2>4, <2>5 DEF Init
<1>2. last \in MutationType /\ hs \in [Reqs -> RequestType]
  BY BackendNumbers DEF Init, MutationType, RequestType
<1>3. up \in BOOLEAN /\ timer \in BOOLEAN /\ raced \in BOOLEAN /\ late \in BOOLEAN
  BY Zenon DEF Init
<1>4. /\ gen \in Nat /\ proxies \in Backends \cup {0} /\ lock \in Reqs \cup {Free}
      /\ chan \in Seq(MessageType) /\ sched \in SchedType \cup {Idle}
      /\ ent \in EntryType \cup {NoEnt} /\ tasks \subseteq TaskType
      /\ rec \in ReconnectType \cup {Off} /\ lost = {}
  BY DEF Init
<1>5. budget \in [fail : 0 .. MaxFailures, restart : 0 .. MaxRestarts]
  BY McpTokensAssumption DEF Init
<1> QED
  BY <1>1, <1>2, <1>3, <1>4, <1>5 DEF TypeOK

-----------------------------------------------------------------------------
(* What the parts of a step do to the types.                                 *)

\* The channel carries messages.
LEMMA Pushed ==
    ASSUME TypeOK, NEW m \in MessageType, Push(m)
    PROVE  chan' \in Seq(MessageType)
  BY AppendProperties DEF TypeOK, Push

LEMMA Popped ==
    ASSUME TypeOK, chan # <<>>
    PROVE  /\ Head(chan) \in MessageType /\ Tail(chan) \in Seq(MessageType)
           /\ Head(chan).do = "remove" => Head(chan).q \in Reqs
           /\ Head(chan).do = "new" => Head(chan).b \in Backends /\ Head(chan).ref \in Tokens
<1>1. Head(chan) \in MessageType /\ Tail(chan) \in Seq(MessageType)
  BY HeadTailProperties DEF TypeOK
<1> QED
  BY <1>1 DEF MessageType

\* A cancellation changes one flag.
LEMMA RecCancelled ==
    ASSUME TypeOK
    PROVE  CancelRec(rec) \in ReconnectType \cup {Off}
  BY DEF TypeOK, CancelRec, ReconnectType

LEMMA TasksCancelled ==
    ASSUME TypeOK
    PROVE  /\ Cancelled(tasks) \subseteq TaskType
           /\ \A t \in Cancelled(tasks) :
                 \E u \in tasks : /\ t.gen = u.gen /\ t.ref = u.ref /\ t.st = u.st
                                  /\ u.st = "ok" => t.acc = u.acc
<1>1. ASSUME NEW u \in tasks
      PROVE  /\ [u EXCEPT !.cancelled = TRUE] \in TaskType
             /\ [u EXCEPT !.cancelled = TRUE].gen = u.gen
             /\ [u EXCEPT !.cancelled = TRUE].ref = u.ref
             /\ [u EXCEPT !.cancelled = TRUE].st = u.st
             /\ u.st = "ok" => [u EXCEPT !.cancelled = TRUE].acc = u.acc
  <2>1. u \in TaskType
    BY DEF TypeOK
  <2>2. CASE u \in [gen : 0 .. gen, ref : Tokens, cancelled : BOOLEAN, st : {"ok"}, acc : Tokens]
    BY <2>2 DEF TaskType
  <2>3. CASE u \in [gen : 0 .. gen, ref : Tokens, cancelled : BOOLEAN, st : {"run", "perm", "trans"}]
    BY <2>3 DEF TaskType
  <2> QED
    BY <2>1, <2>2, <2>3 DEF TaskType
<1> QED
  BY <1>1 DEF Cancelled

\* The writers of the row.
LEMMA DbTypes ==
    ASSUME NEW r \in RowType \cup {NoRow}, NEW acc \in Creds, NEW ref \in Creds
    PROVE  /\ DbSetOauth(r, acc, ref) \in RowType \cup {NoRow}
           /\ DbUpdateToken(r, acc, ref) \in RowType \cup {NoRow}
           /\ OauthRow(acc, ref) \in RowType
           /\ r # NoRow => /\ DbUpdateToken(r, acc, ref) # NoRow
                           /\ DbUpdateToken(r, acc, ref).kind = r.kind
                           /\ DbUpdateToken(r, acc, ref).ep = r.ep
                           /\ DbUpdateToken(r, acc, ref).acc = acc
                           /\ DbUpdateToken(r, acc, ref).ref = ref
<1>1. OauthRow(acc, ref) \in RowType
  BY DEF OauthRow, RowType
<1>2. DbSetOauth(r, acc, ref) \in RowType \cup {NoRow}
  BY <1>1 DEF DbSetOauth
<1>3. CASE r = NoRow
  BY <1>1, <1>2, <1>3 DEF DbUpdateToken
<1>4. CASE r # NoRow
  <2>1. DbUpdateToken(r, acc, ref) = [r EXCEPT !.acc = acc, !.ref = ref] /\ r \in RowType
    BY <1>4 DEF DbUpdateToken
  <2>2. /\ [r EXCEPT !.acc = acc, !.ref = ref] \in RowType
        /\ [r EXCEPT !.acc = acc, !.ref = ref].kind = r.kind
        /\ [r EXCEPT !.acc = acc, !.ref = ref].ep = r.ep
        /\ [r EXCEPT !.acc = acc, !.ref = ref].acc = acc
        /\ [r EXCEPT !.acc = acc, !.ref = ref].ref = ref
    BY <2>1 DEF RowType
  <2>3. \A x \in RowType : x # NoRow
    BY DEF RowType, NoRow
  <2> QED
    BY <1>1, <1>2, <2>1, <2>2, <2>3
<1> QED
  BY <1>3, <1>4

LEMMA BareTypes ==
    /\ \A k \in {"plain", "oauth", "headers"} : BareRow(k) \in RowType /\ ~BareRow(k).ep
    /\ \A r \in RowType : r # NoRow
    /\ None \in Creds /\ \A x \in Tokens : x \in Creds
  BY DEF BareRow, RowType, Creds, NoRow

\* A request that moves on, or ends, is a request.
LEMMA RequestMoves ==
    ASSUME TypeOK, NEW q \in Reqs
    PROVE  /\ \A l \in Waits : hs[q].pc \in Waits => [hs EXCEPT ![q].pc = l] \in [Reqs -> RequestType]
           /\ \A x \in RequestType : [hs EXCEPT ![q] = x] \in [Reqs -> RequestType]
           /\ \A m \in BOOLEAN : Done(q, m) => hs' \in [Reqs -> RequestType]
<1>1. hs \in [Reqs -> RequestType]
  BY DEF TypeOK
<1>2. \A x \in RequestType : [hs EXCEPT ![q] = x] \in [Reqs -> RequestType]
  BY <1>1
<1>3. ASSUME NEW l \in Waits, hs[q].pc \in Waits
      PROVE  [hs EXCEPT ![q].pc = l] \in [Reqs -> RequestType]
  <2>1. [hs[q] EXCEPT !.pc = l] \in BusyType
    BY <1>3, BusyIs DEF BusyType, Waits
  <2>2. [hs[q] EXCEPT !.pc = l] \in RequestType
    BY <2>1 DEF RequestType
  <2> QED
    BY <1>1, <2>2
<1>4. \A m \in BOOLEAN : [pc |-> "done", made |-> m] \in RequestType
  BY DEF RequestType
<1> QED
  BY <1>2, <1>3, <1>4 DEF Done

\* A token request adds a token of its grant, and may replace the refresh token.
Answering == prov.iss \in [Grants -> 0 .. prov.n] /\ prov.cur \in [Grants -> 0 .. prov.n]

LEMMA Answered ==
    ASSUME TypeOK, Answering, NEW ref \in Tokens, Answers(ref), Charge(ref)
    PROVE  /\ prov' \in ProviderType /\ Answering' /\ prov'.grants = prov.grants
           /\ Live(ref) => /\ Issued(ref) \in Tokens /\ Issued(ref).g = ref.g
                           /\ NextRef(ref) \in Tokens /\ NextRef(ref).g = ref.g
<1>0. prov \in ProviderType /\ ref.g \in Grants /\ ref.k \in 0 .. MaxRefreshes /\ MaxRefreshes \in Nat
  BY McpTokensAssumption DEF TypeOK, Tokens
<1>1. CASE ~Live(ref)
  BY <1>0, <1>1 DEF Charge, Answering
<1>2. CASE Live(ref)
  <2> DEFINE n == prov.n + 1
             iss == [g \in Grants |-> IF g = ref.g THEN prov.iss[g] + 1 ELSE prov.iss[g]]
             cur == [g \in Grants |-> IF g = ref.g THEN NextRef(ref).k ELSE prov.cur[g]]
  <2>1. n \in 0 .. MaxRefreshes /\ prov.n \in 0 .. MaxRefreshes
    BY <1>0, <1>2 DEF Answers, ProviderType
  <2>2. ref.k = prov.cur[ref.g] /\ ref.k <= prov.n
    BY <1>0, <1>2 DEF Live, Answering
  <2>3. /\ NextRef(ref) \in Tokens /\ NextRef(ref).g = ref.g /\ NextRef(ref).k \in 0 .. n
    BY <1>0, <2>1, <2>2 DEF NextRef, Tokens
  <2>4. Issued(ref) \in Tokens /\ Issued(ref).g = ref.g
    BY <1>0, <2>1 DEF Issued, Tokens, Answering
  <2>5. iss \in [Grants -> 0 .. n] /\ cur \in [Grants -> 0 .. n]
    BY <1>0, <2>1, <2>3 DEF Answering
  <2>6. prov' = [prov EXCEPT !.n = n, !.iss = iss, !.cur = cur]
    BY <1>2 DEF Charge
  <2> HIDE DEF n, iss, cur
  <2>7. prov'.n = n /\ prov'.iss = iss /\ prov'.cur = cur /\ prov'.grants = prov.grants
    BY <1>0, <2>6 DEF ProviderType
  <2>8. iss \in [Grants -> 0 .. MaxRefreshes] /\ cur \in [Grants -> 0 .. MaxRefreshes]
    <3>1. 0 .. n \subseteq 0 .. MaxRefreshes
      BY <1>0, <2>1
    <3> QED
      BY <2>5, <3>1
  <2>9. prov' \in ProviderType
    BY <1>0, <2>1, <2>6, <2>8 DEF ProviderType
  <2> QED
    BY <2>3, <2>4, <2>5, <2>7, <2>9 DEF Answering
<1> QED
  BY <1>1, <1>2

-----------------------------------------------------------------------------
(* The invariant of the parts, whoever overtook whom.                        *)

Messages == 1 .. Len(chan)

\* The holder of the mutation lock is the one request that is past it.
Locked == \A q \in Reqs : hs[q].pc \in Holding <=> lock = q

\* While the Aggregator is down there is the row and nothing else.
Down ==
    ~up => /\ lock = Free /\ chan = <<>> /\ sched = Idle /\ ent = NoEnt /\ ~timer /\ tasks = {}
           /\ rec = Off /\ Active = {} /\ proxies = 0

\* A request waits for each removal in the channel.
Removals ==
    /\ \A i \in Messages : chan[i].do = "remove" => hs[chan[i].q].pc = "cancel"
    /\ \A i, j \in Messages :
          chan[i].do = "remove" /\ chan[j].do = "remove" /\ chan[i].q = chan[j].q => i = j

\* A set-token has a backend, and has stored a row once it is past the store; a
\* row with endpoint data has a refresh token.
Endowed(r) == r # NoRow /\ r.ep => r.ref \in Tokens
SetTokens ==
    /\ Endowed(row)
    /\ \A q \in Reqs :
          /\ hs[q].pc \in {"stored", "probe"} => hs[q].op = "token"
          /\ hs[q].pc = "stored" => row # NoRow /\ row.ref \in Tokens
          /\ hs[q].pc \in Waits /\ hs[q].op = "token" => hs[q].b # 0
          /\ hs[q].pc = "connect" => Endowed(hs[q].prev)

\* Each grant is the work of a request of its own.
Granters == {q \in Reqs : hs[q].pc \in {"stored", "probe", "done"}}
Granted == prov.grants <= Cardinality(Granters)

\* A refresh that is current is one of the entry, and was not cancelled.
Tracked ==
    /\ ent # NoEnt => ent.ref.g = ent.g
    /\ sched.do = "entry" => timer
    /\ sched.do = "token" => timer /\ ent # NoEnt
    /\ \A t \in tasks :
          /\ t.st = "ok" => t.acc.g = t.ref.g
          /\ Current(t) => t.ref.g = ent.g /\ ~t.cancelled

PartsInv == Locked /\ Down /\ Removals /\ SetTokens /\ Granted /\ Answering /\ Tracked
IInv == TypeOK /\ PartsInv

\* Every step keeps the types.
LEMMA TypeOfHandlers ==
    ASSUME TypeOK, SetTokens, Granted, NEW q \in Reqs, Handle(q)
    PROVE  TypeOK'
<1> USE DEF TypeOK
<1>0. 0 \in 0 .. MaxRefreshes
  BY McpTokensAssumption
<1>1. ASSUME NEW op \in Ops, Begin(q, op) PROVE TypeOK'
  <2>1. [pc |-> "cancel", op |-> op, b |-> proxies, over |-> FALSE] \in RequestType
    BY DEF RequestType, BusyType
  <2>2. hs' \in [Reqs -> RequestType]
    BY <1>1, <2>1, RequestMoves DEF Begin
  <2>3. chan' \in Seq(MessageType)
    BY <1>1, Pushed DEF Begin, MessageType
  <2>4. rec' \in ReconnectType \cup {Off}
    BY <1>1, RecCancelled DEF Begin
  <2>5. UNCHANGED <<row, up, proxies, tok, lock, sVars, prov, budget, hVars>>
    BY <1>1 DEF Begin
  <2> QED
    BY <2>2, <2>3, <2>4, <2>5 DEF sVars, hVars, TaskType
<1>2. CASE TakeLock(q)
  <2>1. hs' \in [Reqs -> RequestType]
    BY <1>2, RequestMoves DEF TakeLock, Waits
  <2>2. raced' \in BOOLEAN
    BY <1>2 DEF TakeLock
  <2>3. lock' \in Reqs \cup {Free} /\ UNCHANGED <<row, up, proxies, tok, chan, sVars, rec, prov,
            budget, last, late, lost>>
    BY <1>2 DEF TakeLock
  <2> QED
    BY <2>1, <2>2, <2>3 DEF sVars, TaskType
<1>3. CASE SetTokenStore(q)
  <2> DEFINE g == prov.grants + 1
             t == [g |-> g, k |-> 0]
  <2>1. hs[q].pc = "held" /\ hs[q].op = "token"
    BY <1>3 DEF SetTokenStore, Holds
  <2>2. g \in Grants
    <3>1. Granters \in SUBSET Reqs /\ q \in Reqs \ Granters
      BY <2>1 DEF Granters
    <3>2. Cardinality(Granters) + 1 <= Cardinality(Reqs)
      BY <3>1, CountedBelow
    <3>3. prov.grants \in Nat /\ Cardinality(Granters) \in Nat /\ Cardinality(Reqs) \in Nat
      BY <3>1, CountedBelow DEF ProviderType, Grants
    <3> QED
      BY <3>2, <3>3 DEF Granted, Grants
  <2>3. t \in Tokens /\ t \in Creds
    BY <1>0, <2>2 DEF Tokens, Creds
  <2>4. hs[q].b \in Backends
    BY <2>1, BusyIs DEF SetTokens, BusyType, Waits
  <2>5. /\ prov' = [prov EXCEPT !.grants = g] /\ tok' = [tok EXCEPT ![hs[q].b] = t]
        /\ row' = DbSetOauth(row, t, t)
    BY <1>3 DEF SetTokenStore
  <2>6. last' \in MutationType
    <3>1. "token" \in Ops
      BY <2>1, BusyIs DEF BusyType, Waits
    <3>2. last' = last \/ last' = [op |-> "token", g |-> g]
      BY <1>3 DEF SetTokenStore
    <3> QED
      BY <2>2, <3>1, <3>2 DEF MutationType
  <2>7. hs' \in [Reqs -> RequestType] /\ lock' \in Reqs \cup {Free}
    BY <1>3, <2>1, RequestMoves DEF SetTokenStore, Waits
  <2>8. raced' \in BOOLEAN
    BY <1>3 DEF SetTokenStore
  <2>9. UNCHANGED <<up, proxies, chan, sVars, rec, budget, late, lost>>
    BY <1>3 DEF SetTokenStore
  <2> HIDE DEF g, t
  <2>10. row' \in RowType \cup {NoRow}
    BY <2>3, <2>5, DbTypes
  <2>11. prov' \in ProviderType
    BY <2>2, <2>5 DEF ProviderType
  <2>12. tok' \in [Backends -> Creds]
    BY <2>3, <2>4, <2>5
  <2> QED
    BY <2>6, <2>7, <2>8, <2>9, <2>10, <2>11, <2>12 DEF sVars, TaskType
<1>4. CASE SetTokenNotify(q)
  <2>1. hs[q].pc = "stored" /\ hs[q].op = "token" /\ hs[q].b \in Backends /\ row.ref \in Tokens
    BY <1>4, BusyIs DEF SetTokenNotify, SetTokens, BusyType, Waits
  <2>2. chan' \in Seq(MessageType)
    <3>1. EntryMsg(hs[q].b, row.ref) \in MessageType
      BY <2>1 DEF EntryMsg, MessageType
    <3> QED
      BY <1>4, <3>1, Pushed DEF SetTokenNotify
  <2>3. hs' \in [Reqs -> RequestType]
    <3>1. [hs[q] EXCEPT !.pc = "probe"] \in RequestType
      BY <2>1, BusyIs DEF BusyType, RequestType, Waits
    <3>2. ASSUME NEW p \in Waiting PROVE [hs[p] EXCEPT !.over = TRUE] \in RequestType
      BY BusyIs DEF BusyType, RequestType, Waiting, Waits
    <3> QED
      BY <1>4, <3>1, <3>2 DEF SetTokenNotify
  <2>4. rec' \in ReconnectType \cup {Off}
    BY <1>4, RecCancelled DEF SetTokenNotify
  <2>5. UNCHANGED <<row, up, proxies, tok, lock, sVars, prov, budget, hVars>>
    BY <1>4 DEF SetTokenNotify
  <2> QED
    BY <2>2, <2>3, <2>4, <2>5 DEF sVars, hVars, TaskType
<1>5. CASE SetTokenProbe(q)
  <2>1. hs' \in [Reqs -> RequestType]
    BY <1>5, RequestMoves DEF SetTokenProbe
  <2>2. /\ lock' = Free
        /\ UNCHANGED <<row, up, proxies, tok, chan, sVars, rec, prov, budget, hVars>>
    BY <1>5 DEF SetTokenProbe
  <2> QED
    BY <2>1, <2>2 DEF sVars, hVars, TaskType
<1>7. ASSUME hs[q].pc # "done"
      PROVE  /\ NewBackend \in Backends
             /\ [tok EXCEPT ![NewBackend] = None] \in [Backends -> Creds]
  BY <1>7, BackendNumbers, BareTypes
<1>8. CASE AddOauth(q)
  <2>1. hs[q].pc = "held" /\ hs[q].op = "addOauth" /\ hs[q].op \in Ops
    BY <1>8, BusyIs DEF AddOauth, Holds, BusyType, Waits
  <2>2. /\ row' = BareRow("oauth") /\ last' = [op |-> "addOauth", g |-> 0]
        /\ proxies' = NewBackend /\ tok' = [tok EXCEPT ![NewBackend] = None]
        /\ lock' = Free /\ rec' = CancelRec(rec) /\ Done(q, TRUE)
        /\ UNCHANGED <<up, chan, sVars, prov, budget, raced, late, lost>>
    BY <1>8 DEF AddOauth
  <2>3. last' \in MutationType
    BY <2>1, <2>2, BackendNumbers DEF MutationType
  <2>4. hs' \in [Reqs -> RequestType] /\ rec' \in ReconnectType \cup {Off}
    BY <2>2, RequestMoves, RecCancelled
  <2> QED
    BY <1>7, <2>1, <2>2, <2>3, <2>4, BareTypes DEF sVars, TaskType
<1>9. CASE AddReplace(q)
  <2>1. hs[q].pc = "held" /\ hs[q].op = "addPlain" /\ hs[q].op \in Ops
    BY <1>9, BusyIs DEF AddReplace, Holds, BusyType, Waits
  <2>2. /\ row' = BareRow("plain") /\ last' = [op |-> "addPlain", g |-> 0]
        /\ rec' = CancelRec(rec)
        /\ UNCHANGED <<up, proxies, tok, lock, chan, sVars, prov, budget, raced, late, lost>>
    BY <1>9 DEF AddReplace
  <2>3. last' \in MutationType
    BY <2>1, <2>2, BackendNumbers DEF MutationType
  <2>4. [pc |-> "connect", op |-> "addPlain", prev |-> row, prevLast |-> last] \in RequestType
    BY DEF RequestType, ConnectType
  <2>5. hs' \in [Reqs -> RequestType] /\ rec' \in ReconnectType \cup {Off}
    BY <1>9, <2>2, <2>4, RequestMoves, RecCancelled DEF AddReplace
  <2> QED
    BY <2>2, <2>3, <2>5, BareTypes DEF sVars, TaskType
<1>10. CASE AddPublish(q)
  <2>1. hs' \in [Reqs -> RequestType]
    BY <1>10, RequestMoves DEF AddPublish
  <2>2. /\ lock' = Free /\ proxies' = NewBackend /\ tok' = [tok EXCEPT ![NewBackend] = None]
        /\ hs[q].pc = "connect"
        /\ UNCHANGED <<row, up, chan, sVars, rec, prov, budget, hVars>>
    BY <1>10 DEF AddPublish
  <2> QED
    BY <1>7, <2>1, <2>2 DEF sVars, hVars, TaskType
<1>11. CASE AddRollback(q)
  <2>1. hs' \in [Reqs -> RequestType]
    BY <1>11, RequestMoves DEF AddRollback
  <2>2. row' \in RowType \cup {NoRow} /\ last' \in MutationType
    BY <1>11, ConnectIs DEF AddRollback, ConnectType
  <2>3. /\ lock' = Free /\ lost' = lost \cup {"rollback"}
        /\ UNCHANGED <<up, proxies, tok, chan, sVars, rec, prov, budget, raced, late>>
    BY <1>11 DEF AddRollback
  <2> QED
    BY <2>1, <2>2, <2>3 DEF sVars, TaskType
<1>12. CASE Remove(q)
  <2>1. hs[q].op = "remove" /\ hs[q].op \in Ops
    BY <1>12, BusyIs DEF Remove, Holds, BusyType, Waits
  <2>2. /\ proxies' = 0 /\ row' = NoRow /\ last' = [op |-> "remove", g |-> 0] /\ lock' = Free
        /\ UNCHANGED <<up, tok, chan, sVars, rec, prov, budget, raced, late, lost>>
    BY <1>12 DEF Remove
  <2>3. last' \in MutationType
    BY <2>1, <2>2, BackendNumbers DEF MutationType
  <2>4. hs' \in [Reqs -> RequestType]
    BY <1>12, RequestMoves DEF Remove
  <2> QED
    BY <2>2, <2>3, <2>4 DEF sVars, TaskType
<1>13. CASE SetHeaders(q)
  <2>1. hs[q].pc = "held" /\ hs[q].op = "headers" /\ hs[q].op \in Ops
    BY <1>13, BusyIs DEF SetHeaders, Holds, BusyType, Waits
  <2>2. /\ lock' = Free
        /\ UNCHANGED <<up, chan, sVars, rec, prov, budget, raced, late, lost>>
        /\ \/ UNCHANGED <<row, last, proxies, tok>>
           \/ /\ row' = BareRow("headers") /\ last' = [op |-> "headers", g |-> 0]
              /\ proxies' = NewBackend /\ tok' = [tok EXCEPT ![NewBackend] = None]
    BY <1>13 DEF SetHeaders
  <2>3. [op |-> "headers", g |-> 0] \in MutationType
    BY <2>1, BackendNumbers DEF MutationType
  <2>4. hs' \in [Reqs -> RequestType]
    BY <1>13, RequestMoves DEF SetHeaders
  <2> QED
    BY <1>7, <2>1, <2>2, <2>3, <2>4, BareTypes DEF sVars, TaskType
<1> QED
  BY <1>1, <1>2, <1>3, <1>4, <1>5, <1>8, <1>9, <1>10, <1>11, <1>12, <1>13 DEF Handle

LEMMA TypeOfScheduler ==
    ASSUME TypeOK, SetTokens, Scheduler
    PROVE  TypeOK'
<1> USE DEF TypeOK
<1>0. Idle.do = "idle"
  BY DEF Idle
<1>1. CASE ForgetServer
  <2>1. chan # <<>> /\ Head(chan).do = "remove" /\ chan' = Tail(chan)
    BY <1>1 DEF ForgetServer
  <2>2. hs' \in [Reqs -> RequestType]
    BY <1>1, <2>1, Popped, RequestMoves DEF ForgetServer, Waits
  <2>3. /\ ent' = NoEnt /\ timer' = FALSE /\ tasks' = Cancelled(tasks) /\ lost' = {}
        /\ UNCHANGED <<row, up, proxies, tok, lock, sched, gen, rec, prov, budget, last,
                       raced, late>>
    BY <1>1 DEF ForgetServer
  <2>4. tasks' \subseteq TaskType'
    BY <2>3, TasksCancelled DEF TaskType
  <2> QED
    BY <2>1, <2>2, <2>3, <2>4, Popped
<1>2. CASE TakeEntry
  <2>1. /\ chan # <<>> /\ Head(chan).do = "new" /\ chan' = Tail(chan) /\ timer' = TRUE
        /\ sched' = [do |-> "entry", b |-> Head(chan).b, ref |-> Head(chan).ref,
                     acc |-> tok[Head(chan).b]]
        /\ UNCHANGED <<row, up, proxies, tok, lock, ent, gen, tasks, rec, hs, prov, budget,
                       hVars>>
    BY <1>2 DEF TakeEntry
  <2>2. sched' \in SchedType
    BY <2>1, Popped DEF SchedType
  <2> QED
    BY <2>1, <2>2, Popped DEF hVars, TaskType
<1>3. CASE StoreEntry
  <2>1. /\ row' = DbSetOauth(row, sched.acc, sched.ref) /\ gen' = gen + 1
        /\ ent' = [g |-> sched.ref.g, b |-> sched.b, ref |-> sched.ref]
        /\ tasks' = Cancelled(tasks) /\ sched' = Idle /\ lost' = {} /\ sched.do = "entry"
        /\ UNCHANGED <<up, proxies, tok, lock, chan, timer, rec, hs, prov, budget, last, raced,
                       late>>
    BY <1>3 DEF StoreEntry
  <2>2. sched.acc \in Creds /\ sched.ref \in Tokens /\ sched.b \in Backends /\ sched.ref.g \in Grants
    BY <1>0, <2>1 DEF SchedType, Tokens
  <2>3. row' \in RowType \cup {NoRow}
    BY <2>1, <2>2, DbTypes, BareTypes
  <2>4. ent' \in EntryType
    BY <2>1, <2>2 DEF EntryType
  <2>5. tasks' \subseteq TaskType'
    <3>1. 0 .. gen \subseteq 0 .. gen + 1
      OBVIOUS
    <3>2. TaskType \subseteq TaskType'
      BY <2>1, <3>1 DEF TaskType
    <3> QED
      BY <2>1, <3>2, TasksCancelled
  <2> QED
    BY <2>1, <2>3, <2>4, <2>5
<1>4. CASE TimerFires
  <2>1. /\ timer' = FALSE
        /\ UNCHANGED <<row, up, proxies, tok, lock, chan, sched, ent, gen, rec, hs, prov, budget,
                       hVars>>
    BY <1>4 DEF TimerFires
  <2>2. tasks' \subseteq TaskType
    <3>1. CASE ent = NoEnt
      BY <1>4, <3>1 DEF TimerFires
    <3>2. CASE ent # NoEnt
      <4>1. /\ ent.ref \in Tokens
            /\ tasks' = tasks \cup {[gen |-> gen, ref |-> ent.ref, cancelled |-> FALSE,
                                     st |-> "run"]}
        BY <1>4, <3>2 DEF TimerFires, EntryType
      <4>2. gen \in 0 .. gen /\ FALSE \in BOOLEAN
        OBVIOUS
      <4>3. [gen |-> gen, ref |-> ent.ref, cancelled |-> FALSE, st |-> "run"] \in TaskType
        BY <4>1, <4>2 DEF TaskType
      <4> QED
        BY <4>1, <4>3
    <3> QED
      BY <3>1, <3>2
  <2> QED
    BY <2>1, <2>2 DEF hVars, TaskType
<1>5. CASE StoreRefreshed
  <2>1. /\ row' = DbUpdateToken(row, sched.acc, sched.ref) /\ sched.do = "token" /\ sched' = Idle
        /\ UNCHANGED <<up, proxies, tok, lock, chan, ent, timer, gen, tasks, rec, hs, prov,
                       budget, hVars>>
    BY <1>5 DEF StoreRefreshed
  <2>2. sched.acc \in Tokens /\ sched.ref \in Tokens
    BY <1>0, <2>1 DEF SchedType
  <2>3. row' \in RowType \cup {NoRow}
    BY <2>1, <2>2, DbTypes, BareTypes
  <2> QED
    BY <2>1, <2>3 DEF hVars, TaskType
<1>6. ASSUME NEW t \in tasks, JoinDiscard(t) \/ JoinOk(t) \/ JoinFailed(t)
      PROVE  TypeOK'
  <2>1. CASE JoinDiscard(t)
    BY <2>1 DEF JoinDiscard, hVars, TaskType
  <2>2. CASE JoinOk(t)
    <3>1. t.acc \in Tokens /\ t.ref \in Tokens /\ ent.b \in Backends
      BY <2>2 DEF JoinOk, Current, TaskType, EntryType
    <3>2. /\ tasks' = tasks \ {t} /\ tok' = [tok EXCEPT ![ent.b] = t.acc] /\ timer' = TRUE
          /\ sched' = [do |-> "token", acc |-> t.acc, ref |-> t.ref]
          /\ UNCHANGED <<row, up, proxies, lock, chan, ent, gen, rec, hs, prov, budget, hVars>>
      BY <2>2 DEF JoinOk
    <3>3. sched' \in SchedType /\ tok' \in [Backends -> Creds]
      BY <3>1, <3>2, BareTypes DEF SchedType
    <3> QED
      BY <3>2, <3>3 DEF hVars, TaskType
  <2>3. CASE JoinFailed(t)
    <3>1. /\ tasks' = tasks \ {t} /\ timer' \in BOOLEAN
          /\ lost' = lost \/ lost' = lost \cup {"permanent"}
          /\ UNCHANGED <<row, up, proxies, tok, lock, chan, sched, ent, gen, rec, hs, prov,
                         budget, last, raced, late>>
      BY <2>3 DEF JoinFailed
    <3> QED
      BY <3>1 DEF TaskType
  <2> QED
    BY <1>6, <2>1, <2>2, <2>3
<1> QED
  BY <1>1, <1>2, <1>3, <1>4, <1>5, <1>6 DEF Scheduler

LEMMA TypeOfRest ==
    ASSUME TypeOK, SetTokens, Answering,
           \/ \E due \in BOOLEAN : AssembleRuntime(due)
           \/ Restart \/ Reconnect
           \/ \E t \in tasks : Refresh(t)
           \/ \E g \in Grants : Revoke(g)
    PROVE  TypeOK'
<1> USE DEF TypeOK
<1>1. ASSUME NEW due \in BOOLEAN, AssembleRuntime(due) PROVE TypeOK'
  <2>1. /\ up' = TRUE /\ proxies' \in {0, 1 + Made}
        /\ tok' = IF row = NoRow THEN tok ELSE [tok EXCEPT ![1 + Made] = row.acc]
        /\ UNCHANGED <<row, lock, sVars, hs, prov, budget, hVars>>
    BY <1>1 DEF AssembleRuntime
  <2>2. 1 + Made \in Backends
    BY BackendNumbers
  <2>3. tok' \in [Backends -> Creds]
    <3>1. CASE row = NoRow
      BY <2>1, <3>1
    <3>2. CASE row # NoRow
      <4>1. row.acc \in Creds
        BY <3>2 DEF RowType
      <4> QED
        BY <2>1, <2>2, <4>1
    <3> QED
      BY <3>1, <3>2
  <2>4. CASE row = NoRow \/ ~row.ep \/ row.kind # "oauth"
    <3>1. chan' = <<>> /\ rec' = Off
      BY <1>1, <2>4 DEF AssembleRuntime
    <3> QED
      BY <2>1, <2>2, <2>3, <3>1 DEF sVars, hVars, TaskType
  <2>5. CASE row # NoRow /\ row.ep /\ row.kind = "oauth"
    <3>1. row.ref \in Tokens /\ None \in Creds
      BY <2>5, BareTypes DEF SetTokens, Endowed
    <3>2. EntryMsg(1 + Made, row.ref) \in MessageType
      BY <2>2, <3>1 DEF EntryMsg, MessageType
    <3>3. /\ chan' = <<>> \/ chan' = <<EntryMsg(1 + Made, row.ref)>>
          /\ \/ rec' = Off
             \/ rec' = [st |-> "run", cancelled |-> FALSE, b |-> 1 + Made, ref |-> row.ref,
                        acc |-> None]
      BY <1>1, <2>5 DEF AssembleRuntime
    <3>4. rec' \in ReconnectType \cup {Off}
      <4>1. [st |-> "run", cancelled |-> FALSE, b |-> 1 + Made, ref |-> row.ref, acc |-> None]
               \in ReconnectType
        BY <2>2, <3>1 DEF ReconnectType
      <4> QED
        BY <3>3, <4>1
    <3>5. chan' \in Seq(MessageType)
      <4> DEFINE m == EntryMsg(1 + Made, row.ref)
      <4>1. m \in MessageType /\ (chan' = <<>> \/ chan' = <<m>>)
        BY <3>2, <3>3
      <4> HIDE DEF m
      <4>2. <<m>> \in Seq(MessageType)
        BY <4>1
      <4>3. <<>> \in Seq(MessageType)
        OBVIOUS
      <4>4. CASE chan' = <<>>
        BY ONLY <4>3, <4>4
      <4>5. CASE chan' = <<m>>
        BY ONLY <4>2, <4>5
      <4> QED
        BY <4>1, <4>4, <4>5
    <3> QED
      BY <2>1, <2>2, <2>3, <3>4, <3>5 DEF sVars, hVars, TaskType
  <2> QED
    BY <2>4, <2>5
<1>2. CASE Restart
  <2>1. /\ up' = FALSE /\ proxies' = 0 /\ lock' = Free /\ chan' = <<>>
        /\ tok' = [b \in Backends |-> None] /\ sched' = Idle /\ ent' = NoEnt /\ timer' = FALSE
        /\ gen' = 0 /\ tasks' = {} /\ rec' = Off /\ lost' = {}
        /\ UNCHANGED <<row, prov, last, raced, late>>
    BY <1>2 DEF Restart
  <2>2. hs' \in [Reqs -> RequestType]
    BY <1>2 DEF Restart, RequestType
  <2>3. budget' \in [fail : 0 .. MaxFailures, restart : 0 .. MaxRestarts]
    BY <1>2, McpTokensAssumption DEF Restart
  <2>4. tok' \in [Backends -> Creds]
    BY <2>1, BareTypes
  <2>5. up' \in BOOLEAN /\ timer' \in BOOLEAN
    BY <2>1
  <2>6. tasks' \subseteq TaskType' /\ lost' \subseteq {} /\ chan' \in Seq(MessageType)
    BY <2>1
  <2> QED
    BY <2>1, <2>2, <2>3, <2>4, <2>5, <2>6
<1>3. CASE Reconnect
  <2>1. CASE RecAnswered
    <3>1. rec \in ReconnectType /\ rec.ref \in Tokens
      BY <2>1 DEF RecAnswered, ReconnectType, Off
    <3>2. prov' \in ProviderType
      BY <2>1, <3>1, Answered DEF RecAnswered
    <3>3. rec' \in ReconnectType \cup {Off}
      <4>1. CASE ~Live(rec.ref)
        BY <2>1, <4>1 DEF RecAnswered
      <4>2. CASE Live(rec.ref)
        <5>1. Issued(rec.ref) \in Creds /\ NextRef(rec.ref) \in Tokens
          BY <2>1, <3>1, <4>2, Answered, BareTypes DEF RecAnswered
        <5>2. rec' = [rec EXCEPT !.st = "got", !.ref = NextRef(rec.ref), !.acc = Issued(rec.ref)]
          BY <2>1, <4>2 DEF RecAnswered
        <5> QED
          BY <3>1, <5>1, <5>2 DEF ReconnectType
      <4> QED
        BY <4>1, <4>2
    <3>4. /\ lost' = lost \/ lost' = lost \cup {"permanent"}
          /\ UNCHANGED <<row, up, proxies, tok, lock, chan, sVars, hs, budget, last, raced, late>>
      BY <2>1 DEF RecAnswered
    <3> QED
      BY <3>2, <3>3, <3>4 DEF sVars, TaskType
  <2>2. CASE RecFails
    <3>1. budget' \in [fail : 0 .. MaxFailures, restart : 0 .. MaxRestarts]
      BY <2>2, McpTokensAssumption DEF RecFails
    <3>2. /\ rec' = Off /\ lost' = lost \cup {"startup"}
          /\ UNCHANGED <<row, up, proxies, tok, lock, chan, sVars, hs, prov, last, raced, late>>
      BY <2>2 DEF RecFails
    <3> QED
      BY <3>1, <3>2 DEF sVars, TaskType
  <2>3. CASE RecWriteToken \/ RecStore \/ RecNotify
    <3>1. rec \in ReconnectType /\ rec.acc \in Creds /\ rec.ref \in Tokens /\ rec.b \in Backends
      BY <2>3 DEF RecWriteToken, RecStore, RecNotify, ReconnectType, Off
    <3>2. late' \in BOOLEAN
      BY <2>3 DEF RecWriteToken, RecStore, RecNotify, Trespass
    <3>3. CASE RecWriteToken
      <4>1. rec' \in ReconnectType /\ tok' \in [Backends -> Creds]
        BY <3>1, <3>3 DEF RecWriteToken, ReconnectType
      <4>2. UNCHANGED <<row, up, proxies, lock, chan, sVars, hs, prov, budget, last, raced, lost>>
        BY <3>3 DEF RecWriteToken
      <4> QED
        BY <3>2, <4>1, <4>2 DEF sVars, TaskType
    <3>4. CASE RecStore
      <4>1. rec' \in ReconnectType \cup {Off}
        BY <3>1, <3>4 DEF RecStore, ReconnectType
      <4>2. row' \in RowType \cup {NoRow}
        BY <3>1, <3>4, DbTypes, BareTypes DEF RecStore
      <4>3. UNCHANGED <<up, proxies, tok, lock, chan, sVars, hs, prov, budget, last, raced, lost>>
        BY <3>4 DEF RecStore
      <4> QED
        BY <3>2, <4>1, <4>2, <4>3 DEF sVars, TaskType
    <3>5. CASE RecNotify
      <4>1. EntryMsg(rec.b, rec.ref) \in MessageType
        BY <3>1 DEF EntryMsg, MessageType
      <4>2. chan' \in Seq(MessageType)
        BY <3>5, <4>1, Pushed DEF RecNotify
      <4>3. /\ rec' = Off
            /\ UNCHANGED <<row, up, proxies, tok, lock, sVars, hs, prov, budget, last, raced, lost>>
        BY <3>5 DEF RecNotify
      <4> QED
        BY <3>2, <4>2, <4>3 DEF sVars, TaskType
    <3> QED
      BY <2>3, <3>3, <3>4, <3>5
  <2> QED
    BY <1>3, <2>1, <2>2, <2>3 DEF Reconnect
<1>4. ASSUME NEW t \in tasks, Refresh(t) PROVE TypeOK'
  <2>0. t \in TaskType /\ t.ref \in Tokens
    BY DEF TaskType
  <2>1. CASE RefreshAnswered(t)
    <3>0. t.st = "run"
      BY <2>1 DEF RefreshAnswered
    <3>1. prov' \in ProviderType
      BY <2>0, <2>1, Answered DEF RefreshAnswered
    <3>2. ASSUME Live(t.ref)
          PROVE  [gen |-> t.gen, ref |-> NextRef(t.ref), cancelled |-> t.cancelled, st |-> "ok",
                  acc |-> Issued(t.ref)] \in TaskType
      <4>1. NextRef(t.ref) \in Tokens /\ Issued(t.ref) \in Tokens
        BY <2>0, <2>1, <3>2, Answered DEF RefreshAnswered
      <4> QED
        BY <2>0, <4>1 DEF TaskType
    <3>3. [t EXCEPT !.st = "perm"] \in TaskType
      BY <2>0, <3>0 DEF TaskType
    <3>4. UNCHANGED <<row, up, proxies, tok, lock, chan, sched, ent, timer, gen, rec, hs, budget,
                      hVars>>
      BY <2>1 DEF RefreshAnswered
    <3>5. tasks' \subseteq TaskType
      BY <2>1, <3>2, <3>3 DEF RefreshAnswered
    <3> QED
      BY <3>1, <3>4, <3>5 DEF hVars, TaskType
  <2>2. CASE RefreshFails(t)
    <3>1. [t EXCEPT !.st = "trans"] \in TaskType
      BY <2>0, <2>2 DEF TaskType, RefreshFails
    <3>2. budget' \in [fail : 0 .. MaxFailures, restart : 0 .. MaxRestarts]
      BY <2>2, McpTokensAssumption DEF RefreshFails
    <3>3. /\ tasks' \subseteq TaskType
          /\ UNCHANGED <<row, up, proxies, tok, lock, chan, sched, ent, timer, gen, rec, hs, prov,
                         hVars>>
      BY <2>2, <3>1 DEF RefreshFails
    <3> QED
      BY <3>2, <3>3 DEF hVars, TaskType
  <2>3. CASE RefreshCancelled(t)
    BY <2>3 DEF RefreshCancelled, hVars, TaskType
  <2> QED
    BY <1>4, <2>1, <2>2, <2>3 DEF Refresh
<1>5. ASSUME NEW g \in Grants, Revoke(g) PROVE TypeOK'
  <2>1. budget' \in [fail : 0 .. MaxFailures, restart : 0 .. MaxRestarts]
    <3>1. budget.fail > 0 /\ budget' = [budget EXCEPT !.fail = @ - 1]
      BY <1>5 DEF Revoke
    <3> QED
      BY <3>1, McpTokensAssumption
  <2>2. prov' \in ProviderType
    BY <1>5 DEF Revoke, ProviderType
  <2>3. UNCHANGED <<row, up, proxies, tok, lock, chan, sVars, rec, hs, hVars>>
    BY <1>5 DEF Revoke
  <2> QED
    BY <2>1, <2>2, <2>3 DEF sVars, hVars, TaskType
<1> QED
  BY <1>1, <1>2, <1>3, <1>4, <1>5

-----------------------------------------------------------------------------
(* What the handlers do to the requests.                                     *)

Others(q) == \A p \in Reqs \ {q} : hs'[p] = hs[p]
Stays(q) == hs'[q].op = hs[q].op /\ hs'[q].b = hs[q].b
Goes(q, l) == hs'[q].pc = l /\ Others(q)
\* A set-token's notification overtakes the requests that have not the lock.
Overtakes(q) ==
    \A p \in Reqs \ {q} :
        /\ hs'[p].pc = hs[p].pc
        /\ hs[p].pc \in {"cancel", "lock"} => Stays(p) /\ hs'[p].over
        /\ hs[p].pc \notin {"cancel", "lock"} => hs'[p] = hs[p]

\* A request moves on alone.
LEMMA Moves ==
    ASSUME TypeOK, NEW q \in Reqs
    PROVE  /\ \A l \in Waits : hs[q].pc \in Waits /\ hs' = [hs EXCEPT ![q].pc = l] =>
                  Goes(q, l) /\ Stays(q) /\ hs'[q].over = hs[q].over
           /\ \A m : Done(q, m) => Goes(q, "done")
<1>1. hs \in [Reqs -> RequestType]
  BY DEF TypeOK
<1>2. ASSUME NEW l \in Waits, hs[q].pc \in Waits, hs' = [hs EXCEPT ![q].pc = l]
      PROVE  Goes(q, l) /\ Stays(q) /\ hs'[q].over = hs[q].over
  <2>1. hs'[q] = [hs[q] EXCEPT !.pc = l] /\ Others(q)
    BY <1>1, <1>2 DEF Others
  <2>2. hs[q] \in BusyType
    BY <1>2, BusyIs
  <2> QED
    BY <2>1, <2>2 DEF BusyType, Goes, Stays
<1>3. ASSUME NEW m, Done(q, m) PROVE Goes(q, "done")
  BY <1>1, <1>3 DEF Done, Goes, Others
<1> QED
  BY <1>2, <1>3

LEMMA BeginMoves ==
    ASSUME TypeOK, NEW q \in Reqs, NEW op \in Ops, Begin(q, op)
    PROVE  /\ up /\ hs[q].pc = "new" /\ Goes(q, "cancel")
           /\ hs'[q].op = op /\ hs'[q].b = proxies /\ ~hs'[q].over
           /\ op = "token" => proxies # 0
<1>1. hs \in [Reqs -> RequestType]
  BY DEF TypeOK
<1>2. hs' = [hs EXCEPT ![q] = [pc |-> "cancel", op |-> op, b |-> proxies, over |-> FALSE]]
  BY DEF Begin
<1>3. hs'[q] = [pc |-> "cancel", op |-> op, b |-> proxies, over |-> FALSE] /\ Others(q)
  BY <1>1, <1>2 DEF Others
<1> QED
  BY <1>3 DEF Begin, Goes

LEMMA StoreMoves ==
    ASSUME TypeOK, NEW q \in Reqs, SetTokenStore(q)
    PROVE  /\ up /\ lock = q /\ hs[q].pc = "held" /\ hs[q].op = "token"
           /\ \/ row = NoRow /\ Goes(q, "done") /\ lock' = Free /\ UNCHANGED last
              \/ row # NoRow /\ Goes(q, "stored") /\ Stays(q) /\ hs'[q].over = hs[q].over
                 /\ UNCHANGED lock
  BY Moves DEF SetTokenStore, Holds, Waits

LEMMA NotifyMoves ==
    ASSUME TypeOK, NEW q \in Reqs, SetTokenNotify(q)
    PROVE  /\ up /\ lock = q /\ hs[q].pc = "stored" /\ hs'[q].pc = "probe" /\ Stays(q)
           /\ Overtakes(q)
<1>1. hs \in [Reqs -> RequestType] /\ hs[q].pc = "stored"
  BY DEF TypeOK, SetTokenNotify
<1>2. hs'[q] = [hs[q] EXCEPT !.pc = "probe"]
  BY <1>1 DEF SetTokenNotify, Waiting
<1>3. hs'[q].pc = "probe" /\ Stays(q)
  BY <1>1, <1>2, BusyIs DEF Stays, BusyType, Waits
<1>4. ASSUME NEW p \in Reqs \ {q}, hs[p].pc \in {"cancel", "lock"}
      PROVE  hs'[p].pc = hs[p].pc /\ Stays(p) /\ hs'[p].over
  <2>1. hs'[p] = [hs[p] EXCEPT !.over = TRUE]
    BY <1>1, <1>4 DEF SetTokenNotify, Waiting
  <2> QED
    BY <1>4, <2>1, BusyIs DEF Stays, BusyType, Waits
<1>5. ASSUME NEW p \in Reqs \ {q}, hs[p].pc \notin {"cancel", "lock"}
      PROVE  hs'[p] = hs[p]
  BY <1>1, <1>5 DEF SetTokenNotify, Waiting
<1> QED
  BY <1>3, <1>4, <1>5 DEF Overtakes, SetTokenNotify

LEMMA HandlerMoves ==
    ASSUME TypeOK, NEW q \in Reqs
    PROVE  /\ TakeLock(q) => /\ up /\ lock = Free /\ lock' = q /\ hs[q].pc = "lock"
                             /\ Goes(q, "held") /\ Stays(q) /\ hs'[q].over = hs[q].over
                             /\ raced' = (raced \/ hs[q].over)
           /\ SetTokenProbe(q) => /\ up /\ lock = q /\ hs[q].pc = "probe" /\ lock' = Free
                                  /\ Goes(q, "done")
           /\ AddOauth(q) => /\ up /\ lock = q /\ hs[q].pc = "held" /\ hs[q].op = "addOauth"
                             /\ lock' = Free /\ Goes(q, "done")
           /\ AddReplace(q) => /\ up /\ lock = q /\ hs[q].pc = "held" /\ hs[q].op = "addPlain"
                               /\ UNCHANGED lock /\ Goes(q, "connect")
                               /\ hs'[q].prev = row /\ hs'[q].prevLast = last
           /\ AddPublish(q) => /\ up /\ lock = q /\ hs[q].pc = "connect" /\ lock' = Free
                               /\ Goes(q, "done")
           /\ AddRollback(q) => /\ up /\ lock = q /\ hs[q].pc = "connect" /\ lock' = Free
                                /\ Goes(q, "done")
           /\ Remove(q) => /\ up /\ lock = q /\ hs[q].pc = "held" /\ hs[q].op = "remove"
                           /\ lock' = Free /\ Goes(q, "done")
           /\ SetHeaders(q) => /\ up /\ lock = q /\ hs[q].pc = "held" /\ hs[q].op = "headers"
                               /\ lock' = Free /\ Goes(q, "done")
<1>1. hs \in [Reqs -> RequestType]
  BY DEF TypeOK
<1>2. ASSUME TakeLock(q)
      PROVE  /\ up /\ lock = Free /\ lock' = q /\ hs[q].pc = "lock"
             /\ Goes(q, "held") /\ Stays(q) /\ hs'[q].over = hs[q].over
             /\ raced' = (raced \/ hs[q].over)
  BY <1>2, Moves DEF TakeLock, Waits
<1>3. ASSUME AddReplace(q)
      PROVE  /\ up /\ lock = q /\ hs[q].pc = "held" /\ hs[q].op = "addPlain"
             /\ UNCHANGED lock /\ Goes(q, "connect")
             /\ hs'[q].prev = row /\ hs'[q].prevLast = last
  <2>1. hs' = [hs EXCEPT ![q] = [pc |-> "connect", op |-> "addPlain", prev |-> row,
                                 prevLast |-> last]]
    BY <1>3 DEF AddReplace
  <2>2. hs'[q] = [pc |-> "connect", op |-> "addPlain", prev |-> row, prevLast |-> last]
        /\ Others(q)
    BY <1>1, <2>1 DEF Others
  <2> QED
    BY <1>3, <2>2 DEF AddReplace, Goes, Holds
<1>4. SetTokenProbe(q) => /\ up /\ lock = q /\ hs[q].pc = "probe" /\ lock' = Free
                          /\ Goes(q, "done")
  BY Moves DEF SetTokenProbe
<1>5. AddOauth(q) => /\ up /\ lock = q /\ hs[q].pc = "held" /\ hs[q].op = "addOauth"
                     /\ lock' = Free /\ Goes(q, "done")
  BY Moves DEF AddOauth, Holds
<1>6. AddPublish(q) => /\ up /\ lock = q /\ hs[q].pc = "connect" /\ lock' = Free
                       /\ Goes(q, "done")
  BY Moves DEF AddPublish
<1>7. AddRollback(q) => /\ up /\ lock = q /\ hs[q].pc = "connect" /\ lock' = Free
                        /\ Goes(q, "done")
  BY Moves DEF AddRollback
<1>8. Remove(q) => /\ up /\ lock = q /\ hs[q].pc = "held" /\ hs[q].op = "remove"
                   /\ lock' = Free /\ Goes(q, "done")
  BY Moves DEF Remove, Holds
<1>9. SetHeaders(q) => /\ up /\ lock = q /\ hs[q].pc = "held" /\ hs[q].op = "headers"
                       /\ lock' = Free /\ Goes(q, "done")
  BY Moves DEF SetHeaders, Holds
<1> QED
  BY <1>2, <1>3, <1>4, <1>5, <1>6, <1>7, <1>8, <1>9

\* The handlers aside, the scheduler alone moves a request, which waited for it.
LEMMA ForgetMoves ==
    ASSUME TypeOK, Removals, ForgetServer
    PROVE  LET q == Head(chan).q
           IN /\ q \in Reqs /\ hs[q].pc = "cancel" /\ Goes(q, "lock") /\ Stays(q)
              /\ hs'[q].over = hs[q].over
<1>1. chan # <<>> /\ Head(chan).do = "remove" /\ chan \in Seq(MessageType)
  BY DEF ForgetServer, TypeOK
<1>2. Head(chan).q \in Reqs /\ Head(chan) = chan[1] /\ 1 \in Messages
  <2>1. Len(chan) \in Nat /\ Len(chan) # 0
    BY <1>1, EmptySeq, LenProperties
  <2> QED
    BY <1>1, <2>1, Popped DEF Messages
<1>3. hs[Head(chan).q].pc = "cancel"
  BY <1>1, <1>2 DEF Removals
<1> DEFINE q == Head(chan).q
<1>4. hs' = [hs EXCEPT ![q].pc = "lock"]
  BY <1>3 DEF ForgetServer
<1>5. q \in Reqs /\ hs[q].pc = "cancel"
  BY <1>2, <1>3
<1> HIDE DEF q
<1>6. Goes(q, "lock") /\ Stays(q) /\ hs'[q].over = hs[q].over
  BY <1>4, <1>5, Moves DEF Waits
<1> QED
  BY <1>5, <1>6 DEF q

LEMMA RestartMoves ==
    ASSUME TypeOK, Restart
    PROVE  /\ \A p \in Reqs : hs'[p].pc \in {"new", "done"}
           /\ \A p \in Reqs : hs[p].pc = "done" => hs'[p].pc = "done"
<1>1. hs \in [Reqs -> RequestType]
  BY DEF TypeOK
<1>2. ASSUME NEW p \in Reqs
      PROVE  hs'[p].pc \in {"new", "done"} /\ (hs[p].pc = "done" => hs'[p].pc = "done")
  BY DEF Restart, Active
<1> QED
  BY <1>2

-----------------------------------------------------------------------------
(* The parts of the invariant, each step by step.                            *)

\* Every step is one of these.
LEMMA StepCases ==
    ASSUME Next
    PROVE  \/ \E q \in Reqs : Handle(q)
           \/ \E due \in BOOLEAN : AssembleRuntime(due)
           \/ Restart \/ ForgetServer \/ TakeEntry \/ StoreEntry \/ TimerFires \/ StoreRefreshed
           \/ \E t \in tasks : JoinDiscard(t) \/ JoinOk(t) \/ JoinFailed(t) \/ Refresh(t)
           \/ RecAnswered \/ RecFails \/ RecWriteToken \/ RecStore \/ RecNotify
           \/ \E g \in Grants : Revoke(g)
  BY DEF Next, Scheduler, Reconnect

\* Each part of the invariant is kept by every step.
LEMMA LockedStep == TypeOK /\ Locked /\ Down /\ Removals /\ Next => Locked'
<1> SUFFICES ASSUME TypeOK, Locked, Down, Removals, Next PROVE Locked'
  OBVIOUS
<1>0. Free \notin Reqs
  BY McpTokensAssumption DEF Free
<1>1. ASSUME NEW q \in Reqs, NEW l, Goes(q, l),
             \/ lock = Free /\ lock' = q /\ l \in Holding
             \/ lock = q /\ lock' = q /\ l \in Holding
             \/ lock = q /\ lock' = Free /\ l \notin Holding
             \/ hs[q].pc \notin Holding /\ lock' = lock /\ l \notin Holding
      PROVE  Locked'
  BY <1>0, <1>1 DEF Locked, Goes, Others
<1>2. CASE UNCHANGED <<hs, lock>>
  BY <1>2 DEF Locked
<1>3. ASSUME NEW q \in Reqs, Handle(q) PROVE Locked'
  <2> USE <1>1 DEF Holding
  <2>1. CASE \E op \in Ops : Begin(q, op)
    <3>1. hs[q].pc = "new" /\ Goes(q, "cancel") /\ UNCHANGED lock
      BY <2>1, BeginMoves DEF Begin
    <3> QED
      BY <3>1, <1>1
  <2>2. CASE TakeLock(q)
    BY <2>2, HandlerMoves
  <2>3. CASE SetTokenStore(q)
    BY <2>3, StoreMoves
  <2>4. CASE SetTokenNotify(q)
    <3>1. lock = q /\ hs'[q].pc = "probe" /\ Overtakes(q) /\ UNCHANGED lock
      BY <2>4, NotifyMoves DEF SetTokenNotify
    <3> QED
      BY <3>1 DEF Locked, Overtakes
  <2>5. CASE SetTokenProbe(q) \/ AddOauth(q) \/ AddPublish(q) \/ AddRollback(q) \/ Remove(q)
             \/ SetHeaders(q)
    <3>1. lock = q /\ lock' = Free /\ Goes(q, "done")
      BY <2>5, HandlerMoves
    <3> QED
      BY <3>1
  <2>6. CASE AddReplace(q)
    BY <2>6, HandlerMoves
  <2> QED
    BY <1>3, <2>1, <2>2, <2>3, <2>4, <2>5, <2>6 DEF Handle
<1>4. CASE Restart
  <2>1. lock' = Free
    BY <1>4 DEF Restart
  <2> QED
    BY <1>0, <1>4, <2>1, RestartMoves DEF Locked, Holding
<1>5. CASE ForgetServer
  <2>1. /\ Head(chan).q \in Reqs /\ hs[Head(chan).q].pc = "cancel" /\ Goes(Head(chan).q, "lock")
        /\ UNCHANGED lock
    BY <1>5, ForgetMoves DEF ForgetServer
  <2> QED
    BY <1>1, <2>1 DEF Holding
<1>6. CASE \E due \in BOOLEAN : AssembleRuntime(due)
  BY <1>2, <1>6 DEF AssembleRuntime
<1>7. CASE TakeEntry \/ StoreEntry \/ TimerFires \/ StoreRefreshed
  BY <1>2, <1>7 DEF TakeEntry, StoreEntry, TimerFires, StoreRefreshed
<1>8. CASE \E t \in tasks : JoinDiscard(t) \/ JoinOk(t) \/ JoinFailed(t) \/ Refresh(t)
  BY <1>2, <1>8 DEF JoinDiscard, JoinOk, JoinFailed, Refresh, RefreshAnswered, RefreshFails,
     RefreshCancelled
<1>9. CASE \/ RecAnswered \/ RecFails \/ RecWriteToken \/ RecStore \/ RecNotify
           \/ \E g \in Grants : Revoke(g)
  BY <1>2, <1>9 DEF RecAnswered, RecFails, RecWriteToken, RecStore, RecNotify, Revoke
<1> QED
  BY <1>3, <1>4, <1>5, <1>6, <1>7, <1>8, <1>9, StepCases

\* Steps need the Aggregator, a withdrawn grant aside; a restart ends everything.
LEMMA DownStep == TypeOK /\ Down /\ Next => Down'
<1> SUFFICES ASSUME TypeOK, Down, Next PROVE Down'
  OBVIOUS
<1>1. CASE up /\ UNCHANGED up
  BY <1>1 DEF Down
<1>2. ASSUME NEW q \in Reqs, Handle(q) PROVE up /\ UNCHANGED up
  BY <1>2 DEF Handle, Begin, TakeLock, SetTokenStore, SetTokenNotify, SetTokenProbe, AddOauth,
     AddReplace, AddPublish, AddRollback, Remove, SetHeaders, Holds
<1>3. CASE \E due \in BOOLEAN : AssembleRuntime(due)
  BY <1>3 DEF AssembleRuntime, Down
<1>4. CASE Restart
  <2>1. Active' = {}
    BY <1>4, RestartMoves DEF Active
  <2> QED
    BY <1>4, <2>1 DEF Down, Restart
<1>5. CASE ForgetServer \/ TakeEntry \/ StoreEntry \/ TimerFires \/ StoreRefreshed
  BY <1>1, <1>5 DEF ForgetServer, TakeEntry, StoreEntry, TimerFires, StoreRefreshed
<1>6. CASE \E t \in tasks : JoinDiscard(t) \/ JoinOk(t) \/ JoinFailed(t) \/ Refresh(t)
  BY <1>1, <1>6 DEF JoinDiscard, JoinOk, JoinFailed, Refresh, RefreshAnswered, RefreshFails,
     RefreshCancelled
<1>7. CASE RecAnswered \/ RecFails \/ RecWriteToken \/ RecStore \/ RecNotify
  BY <1>1, <1>7 DEF RecAnswered, RecFails, RecWriteToken, RecStore, RecNotify
<1>8. CASE \E g \in Grants : Revoke(g)
  BY <1>8 DEF Revoke, Down, sVars, Active
<1> QED
  BY <1>1, <1>2, <1>3, <1>4, <1>5, <1>6, <1>7, <1>8, StepCases

\* The channel after a message was sent or taken.
LEMMA ChanPushed ==
    ASSUME TypeOK, NEW m, Push(m)
    PROVE  /\ Len(chan) \in Nat /\ Len(chan') = Len(chan) + 1 /\ chan'[Len(chan) + 1] = m
           /\ \A i \in 1 .. Len(chan) : chan'[i] = chan[i]
  BY DEF TypeOK, Push

LEMMA ChanPopped ==
    ASSUME TypeOK, chan # <<>>, chan' = Tail(chan)
    PROVE  /\ Len(chan) \in Nat /\ Len(chan') = Len(chan) - 1 /\ Len(chan) >= 1
           /\ Head(chan) = chan[1]
           /\ \A i \in 1 .. Len(chan) - 1 : chan'[i] = chan[i + 1]
  BY DEF TypeOK

LEMMA RemovalsStep == TypeOK /\ Removals /\ Next => Removals'
<1> SUFFICES ASSUME TypeOK, Removals, Next PROVE Removals'
  OBVIOUS
<1>0. \A i \in Messages : /\ chan[i] \in MessageType
                          /\ chan[i].do = "remove" => chan[i].q \in Reqs
  BY DEF TypeOK, MessageType, Messages
<1>1. ASSUME UNCHANGED chan, \A p \in Reqs : hs[p].pc = "cancel" => hs'[p].pc = "cancel"
      PROVE  Removals'
  BY <1>0, <1>1 DEF Removals, Messages
<1>2. ASSUME NEW m, Push(m), m.do = "new", \A p \in Reqs : hs[p].pc = "cancel" => hs'[p].pc = "cancel"
      PROVE  Removals'
  BY <1>0, <1>2, ChanPushed DEF Removals, Messages
<1>3. ASSUME NEW q \in Reqs, Handle(q) PROVE Removals'
  <2>1. ASSUME NEW op \in Ops, Begin(q, op) PROVE Removals'
    <3>1. /\ hs[q].pc = "new" /\ hs'[q].pc = "cancel" /\ \A p \in Reqs \ {q} : hs'[p] = hs[p]
          /\ Push([do |-> "remove", q |-> q])
      BY <2>1, BeginMoves DEF Begin, Goes, Others
    <3> DEFINE n == Len(chan) + 1
    <3>2. /\ n \in Nat /\ Len(chan') = n /\ chan'[n].do = "remove" /\ chan'[n].q = q
          /\ \A i \in 1 .. Len(chan) : chan'[i] = chan[i]
      BY <3>1, ChanPushed
    <3>3. \A i \in Messages : chan[i].do = "remove" => chan[i].q # q /\ hs'[chan[i].q].pc = "cancel"
      BY <1>0, <3>1 DEF Removals
    <3>4. \A i \in 1 .. n : i = n \/ i \in Messages
      BY <3>2 DEF Messages
    <3>5. \A i \in Messages : chan'[i] = chan[i]
      BY <3>2 DEF Messages
    <3> HIDE DEF n
    <3>6. ASSUME NEW i \in 1 .. n, chan'[i].do = "remove" PROVE hs'[chan'[i].q].pc = "cancel"
      BY <3>1, <3>2, <3>3, <3>4, <3>5, <3>6
    <3>7. ASSUME NEW i \in 1 .. n, NEW j \in 1 .. n, chan'[i].do = "remove", chan'[j].do = "remove",
                 chan'[i].q = chan'[j].q
          PROVE  i = j
      BY <3>2, <3>3, <3>4, <3>5, <3>7 DEF Removals
    <3> QED
      BY <3>2, <3>6, <3>7 DEF Removals, Messages
  <2>2. CASE SetTokenNotify(q)
    <3>1. \A p \in Reqs : hs[p].pc = "cancel" => hs'[p].pc = "cancel"
      BY <2>2, NotifyMoves DEF Overtakes
    <3>2. Push(EntryMsg(hs[q].b, row.ref)) /\ EntryMsg(hs[q].b, row.ref).do = "new"
      BY <2>2 DEF SetTokenNotify, EntryMsg
    <3> QED
      BY <1>2, <3>1, <3>2
  <2>3. ASSUME NEW l, Goes(q, l), hs[q].pc # "cancel", UNCHANGED chan PROVE Removals'
    BY <1>1, <2>3 DEF Goes, Others
  <2>4. CASE TakeLock(q) \/ SetTokenStore(q) \/ SetTokenProbe(q) \/ AddOauth(q) \/ AddReplace(q)
             \/ AddPublish(q) \/ AddRollback(q) \/ Remove(q) \/ SetHeaders(q)
    <3>1. UNCHANGED chan
      BY <2>4 DEF TakeLock, SetTokenStore, SetTokenProbe, AddOauth, AddReplace, AddPublish,
         AddRollback, Remove, SetHeaders
    <3>2. CASE SetTokenStore(q)
      BY <2>3, <3>1, <3>2, StoreMoves
    <3>3. CASE ~SetTokenStore(q)
      BY <2>3, <2>4, <3>1, <3>3, HandlerMoves
    <3> QED
      BY <3>2, <3>3
  <2> QED
    BY <1>3, <2>1, <2>2, <2>4 DEF Handle
<1>4. CASE Restart \/ \E due \in BOOLEAN : AssembleRuntime(due)
  <2>1. CASE Restart
    BY <2>1 DEF Restart, Removals, Messages
  <2>2. ASSUME NEW due \in BOOLEAN, AssembleRuntime(due) PROVE Removals'
    <3>1. chan' = <<>> \/ chan' = <<EntryMsg(1 + Made, row.ref)>>
      BY <2>2 DEF AssembleRuntime
    <3>2. EntryMsg(1 + Made, row.ref).do = "new"
      BY DEF EntryMsg
    <3>3. \A i \in Messages' : chan'[i].do = "new"
      BY <3>1, <3>2 DEF Messages
    <3> QED
      BY <3>3 DEF Removals
  <2> QED
    BY <1>4, <2>1, <2>2
<1>5. CASE ForgetServer \/ TakeEntry
  <2>1. chan # <<>> /\ chan' = Tail(chan)
    BY <1>5 DEF ForgetServer, TakeEntry
  <2>2. /\ Len(chan) \in Nat /\ Len(chan') = Len(chan) - 1 /\ Len(chan) >= 1 /\ Head(chan) = chan[1]
        /\ \A i \in 1 .. Len(chan) - 1 : chan'[i] = chan[i + 1]
    BY <2>1, ChanPopped
  <2>3. \A i \in 2 .. Len(chan) : chan[i].do = "remove" => hs'[chan[i].q].pc = "cancel"
    <3>1. CASE TakeEntry
      BY <3>1 DEF TakeEntry, Removals, Messages
    <3>2. CASE ForgetServer
      <4>1. Goes(chan[1].q, "lock") /\ chan[1].do = "remove"
        BY <2>2, <3>2, ForgetMoves DEF ForgetServer
      <4>2. \A i \in 2 .. Len(chan) : chan[i].do = "remove" =>
               chan[i].q \in Reqs /\ chan[i].q # chan[1].q /\ hs[chan[i].q].pc = "cancel"
        BY <1>0, <2>2, <4>1 DEF Removals, Messages
      <4> QED
        BY <4>1, <4>2 DEF Goes, Others
    <3> QED
      BY <1>5, <3>1, <3>2
  <2>4. \A i \in 1 .. Len(chan) - 1 : i + 1 \in Messages /\ i + 1 \in 2 .. Len(chan)
    BY <2>2 DEF Messages
  <2>5. Messages' = 1 .. Len(chan) - 1
    BY <2>2 DEF Messages
  <2>6. ASSUME NEW i \in Messages', NEW j \in Messages', chan'[i].do = "remove",
               chan'[j].do = "remove", chan'[i].q = chan'[j].q
        PROVE  i = j
    <3>1. i + 1 = j + 1
      BY <2>2, <2>4, <2>5, <2>6 DEF Removals
    <3> QED
      BY <2>5, <3>1
  <2>7. \A i \in Messages' : chan'[i].do = "remove" => hs'[chan'[i].q].pc = "cancel"
    BY <2>2, <2>3, <2>4, <2>5
  <2> QED
    BY <2>6, <2>7 DEF Removals
<1>6. CASE RecNotify
  <2>1. Push(EntryMsg(rec.b, rec.ref)) /\ EntryMsg(rec.b, rec.ref).do = "new" /\ UNCHANGED hs
    BY <1>6 DEF RecNotify, EntryMsg
  <2> QED
    BY <1>2, <2>1
<1>7. CASE UNCHANGED <<hs, chan>>
  BY <1>1, <1>7
<1>8. CASE StoreEntry \/ TimerFires \/ StoreRefreshed
  BY <1>7, <1>8 DEF StoreEntry, TimerFires, StoreRefreshed
<1>9. CASE \E t \in tasks : JoinDiscard(t) \/ JoinOk(t) \/ JoinFailed(t) \/ Refresh(t)
  BY <1>7, <1>9 DEF JoinDiscard, JoinOk, JoinFailed, Refresh, RefreshAnswered, RefreshFails,
     RefreshCancelled
<1>10. CASE RecAnswered \/ RecFails \/ RecWriteToken \/ RecStore \/ \E g \in Grants : Revoke(g)
  BY <1>7, <1>10 DEF RecAnswered, RecFails, RecWriteToken, RecStore, Revoke
<1> QED
  BY <1>3, <1>4, <1>5, <1>6, <1>8, <1>9, <1>10, StepCases

\* The rows that the scheduler and the reconnect task write, with the lock free.
LEMMA RowStored ==
    ASSUME TypeOK, StoreEntry \/ StoreRefreshed \/ RecStore
    PROVE  Endowed(row') /\ lock = Free /\ UNCHANGED hs
<1> USE DEF TypeOK
<1>1. CASE StoreEntry
  <2>1. sched.ref \in Tokens
    BY <1>1 DEF StoreEntry, SchedType, Idle
  <2> QED
    BY <1>1, <2>1 DEF StoreEntry, DbSetOauth, OauthRow, Endowed
<1>2. CASE StoreRefreshed \/ RecStore
  <2>1. ASSUME NEW ref \in Tokens, NEW acc \in Creds, row' = DbUpdateToken(row, acc, ref)
        PROVE  Endowed(row')
    <3>1. ref \in Creds
      BY BareTypes
    <3>2. CASE row = NoRow
      BY <2>1, <3>2 DEF Endowed, DbUpdateToken
    <3>3. CASE row # NoRow
      <4>1. row \in RowType \cup {NoRow}
        OBVIOUS
      <4>2. DbUpdateToken(row, acc, ref).ref = ref
        BY <3>1, <3>3, <4>1, DbTypes
      <4> QED
        BY <2>1, <4>2 DEF Endowed
    <3> QED
      BY <3>2, <3>3
  <2>2. CASE StoreRefreshed
    <3>1. sched.ref \in Tokens /\ sched.acc \in Creds
      BY <2>2, BareTypes DEF StoreRefreshed, SchedType, Idle
    <3> QED
      BY <2>1, <2>2, <3>1 DEF StoreRefreshed
  <2>3. CASE RecStore
    <3>1. rec.ref \in Tokens /\ rec.acc \in Creds
      BY <2>3 DEF RecStore, ReconnectType, Off
    <3> QED
      BY <2>1, <2>3, <3>1 DEF RecStore
  <2> QED
    BY <1>2, <2>2, <2>3
<1> QED
  BY <1>1, <1>2

\* The steps outside the handlers leave the row, or write it with the lock free;
\* they leave the requests, a removal and a restart aside.
LEMMA OutsideHandlers ==
    ASSUME TypeOK, Removals, Next
    PROVE  \/ \E q \in Reqs : Handle(q)
           \/ Restart /\ UNCHANGED <<row, prov>>
           \/ ForgetServer /\ UNCHANGED <<row, prov, lock>>
           \/ UNCHANGED <<hs, row, lock>>
           \/ UNCHANGED <<hs, lock, prov>> /\ lock = Free /\ Endowed(row')
<1>1. CASE ForgetServer \/ Restart
  BY <1>1 DEF ForgetServer, Restart
<1>2. CASE StoreEntry \/ StoreRefreshed \/ RecStore
  BY <1>2, RowStored DEF StoreEntry, StoreRefreshed, RecStore
<1>3. CASE \/ TakeEntry \/ TimerFires \/ RecAnswered \/ RecFails \/ RecWriteToken \/ RecNotify
           \/ \E due \in BOOLEAN : AssembleRuntime(due)
           \/ \E g \in Grants : Revoke(g)
  BY <1>3 DEF TakeEntry, TimerFires, RecAnswered, RecFails, RecWriteToken, RecNotify,
     AssembleRuntime, Revoke
<1>4. CASE \E t \in tasks : JoinDiscard(t) \/ JoinOk(t) \/ JoinFailed(t) \/ Refresh(t)
  BY <1>4 DEF JoinDiscard, JoinOk, JoinFailed, Refresh, RefreshAnswered, RefreshFails,
     RefreshCancelled
<1> QED
  BY <1>1, <1>2, <1>3, <1>4, StepCases

SetToken(q) ==
    /\ hs[q].pc \in {"stored", "probe"} => hs[q].op = "token"
    /\ hs[q].pc = "stored" => row # NoRow /\ row.ref \in Tokens
    /\ hs[q].pc \in Waits /\ hs[q].op = "token" => hs[q].b # 0
    /\ hs[q].pc = "connect" => Endowed(hs[q].prev)

LEMMA SetTokensStep ==
    ASSUME TypeOK, TypeOK', Locked, Removals, SetTokens, Next
    PROVE  SetTokens'
<1>0. /\ Free \notin Reqs /\ Endowed(row) /\ \A q \in Reqs : SetToken(q)
      /\ (Endowed(row') /\ \A q \in Reqs : SetToken(q)') => SetTokens'
  BY McpTokensAssumption DEF Free, SetTokens, SetToken
<1> USE DEF Waits
<1>1. CASE \/ UNCHANGED <<hs, row>>
           \/ UNCHANGED hs /\ lock = Free /\ Endowed(row')
  BY <1>0, <1>1 DEF SetToken, Locked, Holding
<1>2. CASE Restart
  BY <1>0, <1>2, RestartMoves DEF Restart, SetToken
<1>3. CASE ForgetServer
  <2>1. PICK q \in Reqs : hs[q].pc = "cancel" /\ Goes(q, "lock") /\ Stays(q)
    BY <1>3, ForgetMoves
  <2>2. UNCHANGED row
    BY <1>3 DEF ForgetServer
  <2> QED
    BY <1>0, <2>1, <2>2 DEF SetToken, Goes, Others, Stays
<1>4. ASSUME NEW q \in Reqs, Handle(q) PROVE SetTokens'
  <2>1. ASSUME \A p \in Reqs \ {q} : SetToken(p)', SetToken(q)', Endowed(row') PROVE SetTokens'
    BY <1>0, <2>1
  <2>2. ASSUME UNCHANGED row, Others(q) PROVE \A p \in Reqs \ {q} : SetToken(p)'
    BY <1>0, <2>2 DEF SetToken, Others
  <2>3. ASSUME lock = q, Others(q) PROVE \A p \in Reqs \ {q} : SetToken(p)'
    <3>1. \A p \in Reqs \ {q} : hs[p].pc \notin Holding
      BY <2>3 DEF Locked
    <3> QED
      BY <1>0, <2>3, <3>1 DEF SetToken, Others, Holding
  <2>4. ASSUME hs'[q].pc = "done" PROVE SetToken(q)'
    BY <2>4 DEF SetToken
  <2>5. \A k \in {"plain", "oauth", "headers"} : Endowed(BareRow(k))
    BY BareTypes DEF Endowed
  <2>6. ASSUME NEW op \in Ops, Begin(q, op) PROVE SetTokens'
    <3>1. /\ UNCHANGED row /\ hs'[q].pc = "cancel" /\ Others(q)
          /\ hs'[q].op = "token" => hs'[q].b # 0
      BY <2>6, BeginMoves DEF Begin, Goes
    <3> QED
      BY <1>0, <2>1, <2>2, <3>1 DEF SetToken
  <2>7. CASE TakeLock(q)
    <3>1. UNCHANGED row /\ hs[q].pc = "lock" /\ hs'[q].pc = "held" /\ Others(q) /\ Stays(q)
      BY <2>7, HandlerMoves DEF TakeLock, Goes
    <3>2. SetToken(q)'
      BY <1>0, <3>1 DEF SetToken, Stays
    <3> QED
      BY <1>0, <2>1, <2>2, <3>1, <3>2
  <2>8. CASE SetTokenStore(q)
    <3> DEFINE t == [g |-> prov.grants + 1, k |-> 0]
    <3>1. row' = DbSetOauth(row, t, t) /\ lock = q
      BY <2>8 DEF SetTokenStore, Holds
    <3>2. CASE row = NoRow /\ Goes(q, "done")
      BY <1>0, <2>1, <2>3, <2>4, <3>1, <3>2 DEF DbSetOauth, Goes
    <3>3. CASE row # NoRow /\ Goes(q, "stored") /\ Stays(q)
      <4>1. row' = OauthRow(t, t)
        BY <3>1, <3>3 DEF DbSetOauth
      <4>2. t \in Tokens
        <5>1. prov' = [prov EXCEPT !.grants = prov.grants + 1]
          BY <2>8 DEF SetTokenStore
        <5>2. prov'.grants = prov.grants + 1 /\ prov'.grants \in Grants
          BY <5>1 DEF TypeOK, ProviderType
        <5>3. 0 \in 0 .. MaxRefreshes
          BY McpTokensAssumption
        <5> QED
          BY <5>2, <5>3 DEF Tokens
      <4> HIDE DEF t
      <4>3. row' # NoRow /\ row'.ref = t
        BY <4>1 DEF OauthRow, NoRow
      <4>4. SetToken(q)'
        BY <1>0, <2>8, <3>3, <4>2, <4>3, StoreMoves DEF SetToken, Goes, Stays
      <4> QED
        BY <2>1, <2>3, <3>1, <3>3, <4>2, <4>3, <4>4 DEF Goes, Endowed
    <3> QED
      BY <2>8, <3>2, <3>3, StoreMoves
  <2>9. CASE SetTokenNotify(q)
    <3>1. /\ UNCHANGED row /\ hs[q].pc = "stored" /\ hs'[q].pc = "probe" /\ Stays(q)
          /\ Overtakes(q)
      BY <2>9, NotifyMoves DEF SetTokenNotify
    <3>2. SetToken(q)'
      BY <1>0, <3>1 DEF SetToken, Stays
    <3>3. ASSUME NEW p \in Reqs \ {q} PROVE SetToken(p)'
      <4>1. CASE hs[p].pc \in {"cancel", "lock"}
        BY <1>0, <3>1, <4>1 DEF SetToken, Overtakes, Stays
      <4>2. CASE hs[p].pc \notin {"cancel", "lock"}
        BY <1>0, <3>1, <4>2 DEF SetToken, Overtakes
      <4> QED
        BY <4>1, <4>2
    <3> QED
      BY <1>0, <2>1, <3>1, <3>2, <3>3
  <2>10. CASE SetTokenProbe(q) \/ AddPublish(q)
    <3>1. UNCHANGED row /\ Goes(q, "done")
      BY <2>10, HandlerMoves DEF SetTokenProbe, AddPublish
    <3> QED
      BY <1>0, <2>1, <2>2, <2>4, <3>1 DEF Goes
  <2>11. CASE AddOauth(q) \/ Remove(q) \/ SetHeaders(q) \/ AddRollback(q)
    <3>1. lock = q /\ Goes(q, "done")
      BY <2>11, HandlerMoves
    <3>2. Endowed(row')
      <4>1. CASE AddOauth(q) \/ Remove(q) \/ SetHeaders(q)
        <5>1. row' = row \/ row' = NoRow \/ \E k \in {"plain", "oauth", "headers"} : row' = BareRow(k)
          BY <4>1 DEF AddOauth, Remove, SetHeaders
        <5>2. Endowed(NoRow)
          BY DEF Endowed
        <5> QED
          BY <1>0, <2>5, <5>1, <5>2
      <4>2. CASE AddRollback(q)
        BY <1>0, <4>2 DEF AddRollback, SetToken
      <4> QED
        BY <2>11, <4>1, <4>2
    <3> QED
      BY <2>1, <2>3, <2>4, <3>1, <3>2 DEF Goes
  <2>12. CASE AddReplace(q)
    <3>1. lock = q /\ Goes(q, "connect") /\ hs'[q].prev = row /\ row' = BareRow("plain")
      BY <2>12, HandlerMoves DEF AddReplace
    <3>2. SetToken(q)'
      BY <1>0, <3>1 DEF SetToken, Goes
    <3> QED
      BY <2>1, <2>3, <2>5, <3>1, <3>2 DEF Goes
  <2> QED
    BY <1>4, <2>6, <2>7, <2>8, <2>9, <2>10, <2>11, <2>12 DEF Handle
<1> QED
  BY <1>1, <1>2, <1>3, <1>4, OutsideHandlers

LEMMA GrantedStep ==
    ASSUME TypeOK, TypeOK', Removals, Granted, Next
    PROVE  Granted'
<1>0. /\ \A S \in SUBSET Reqs, T \in SUBSET Reqs :
            S \subseteq T => Cardinality(S) <= Cardinality(T)
      /\ \A S \in SUBSET Reqs : Cardinality(S) \in Nat
  BY McpTokensAssumption, FS_Subset, FS_CardinalityType
<1>1. /\ prov.grants \in Nat /\ prov'.grants \in Nat
      /\ Granters \in SUBSET Reqs /\ Granters' \in SUBSET Reqs
  BY DEF TypeOK, ProviderType, Grants, Granters
<1>2. ASSUME prov'.grants = prov.grants, Granters \subseteq Granters' PROVE Granted'
  BY <1>0, <1>1, <1>2 DEF Granted
<1>3. ASSUME NEW q \in Reqs, NEW l, Goes(q, l), q \in Granters => l \in {"stored", "probe", "done"}
      PROVE  Granters \subseteq Granters'
  BY <1>3 DEF Granters, Goes, Others
<1>4. ASSUME NEW q \in Reqs, Handle(q) PROVE Granted'
  <2>1. CASE SetTokenStore(q)
    <3>1. hs[q].pc = "held" /\ \E l \in {"done", "stored"} : Goes(q, l)
      BY <2>1, StoreMoves
    <3>2. q \in Reqs \ Granters /\ Granters \cup {q} = Granters'
      BY <3>1 DEF Granters, Goes, Others
    <3>3. Cardinality(Granters') = Cardinality(Granters) + 1
      BY <1>1, <3>2, CountedBelow
    <3>4. prov'.grants = prov.grants + 1
      BY <2>1 DEF SetTokenStore, TypeOK, ProviderType
    <3> QED
      BY <1>0, <1>1, <3>3, <3>4 DEF Granted
  <2>2. CASE SetTokenNotify(q)
    <3>1. hs'[q].pc = "probe" /\ \A p \in Reqs \ {q} : hs'[p].pc = hs[p].pc
      BY <2>2, NotifyMoves DEF Overtakes
    <3> QED
      BY <1>2, <2>2, <3>1 DEF Granters, SetTokenNotify
  <2>3. CASE \E op \in Ops : Begin(q, op)
    <3>1. hs[q].pc = "new" /\ Goes(q, "cancel") /\ UNCHANGED prov
      BY <2>3, BeginMoves DEF Begin
    <3> QED
      BY <1>2, <1>3, <3>1 DEF Granters
  <2>4. CASE TakeLock(q) \/ SetTokenProbe(q) \/ AddOauth(q) \/ AddReplace(q)
             \/ AddPublish(q) \/ AddRollback(q) \/ Remove(q) \/ SetHeaders(q)
    <3>1. UNCHANGED prov
      BY <2>4 DEF TakeLock, SetTokenProbe, AddOauth, AddReplace, AddPublish, AddRollback, Remove,
         SetHeaders
    <3>2. \E l \in {"held", "connect", "done"} :
             Goes(q, l) /\ (q \in Granters => l = "done")
      BY <2>4, HandlerMoves DEF Granters
    <3> QED
      BY <1>2, <1>3, <3>1, <3>2
  <2> QED
    BY <1>4, <2>1, <2>2, <2>3, <2>4 DEF Handle
<1>5. CASE Restart
  BY <1>2, <1>5, RestartMoves DEF Restart, Granters, Active
<1>6. CASE ForgetServer
  BY <1>2, <1>3, <1>6, ForgetMoves DEF ForgetServer, Granters
<1>7. CASE UNCHANGED hs /\ prov'.grants = prov.grants
  BY <1>2, <1>7 DEF Granters
<1>8. CASE TakeEntry \/ StoreEntry \/ TimerFires \/ StoreRefreshed \/ RecFails \/ RecWriteToken
           \/ RecStore \/ RecNotify \/ \E due \in BOOLEAN : AssembleRuntime(due)
  BY <1>7, <1>8 DEF TakeEntry, StoreEntry, TimerFires, StoreRefreshed, RecFails, RecWriteToken,
     RecStore, RecNotify, AssembleRuntime
<1>9. CASE \/ \E t \in tasks : JoinDiscard(t) \/ JoinOk(t) \/ JoinFailed(t) \/ Refresh(t)
           \/ RecAnswered \/ \E g \in Grants : Revoke(g)
  <2>1. ASSUME NEW ref, Charge(ref) PROVE prov'.grants = prov.grants
    BY <2>1 DEF Charge, TypeOK, ProviderType
  <2>2. ASSUME NEW t \in tasks, JoinDiscard(t) \/ JoinOk(t) \/ JoinFailed(t) \/ Refresh(t)
        PROVE  UNCHANGED hs /\ prov'.grants = prov.grants
    BY <2>1, <2>2 DEF JoinDiscard, JoinOk, JoinFailed, Refresh, RefreshAnswered, RefreshFails,
       RefreshCancelled
  <2>3. CASE RecAnswered
    BY <1>7, <2>1, <2>3 DEF RecAnswered
  <2>4. CASE \E g \in Grants : Revoke(g)
    <3>1. UNCHANGED hs /\ prov'.grants = prov.grants
      BY <2>4 DEF Revoke, TypeOK, ProviderType
    <3> QED
      BY <1>7, <3>1
  <2> QED
    BY <1>7, <1>9, <2>2, <2>3, <2>4
<1> QED
  BY <1>4, <1>5, <1>6, <1>8, <1>9, StepCases

LEMMA AnsweringStep ==
    ASSUME TypeOK, Answering, Next
    PROVE  Answering'
<1>1. ASSUME prov'.iss = prov.iss, prov'.cur = prov.cur, prov'.n = prov.n PROVE Answering'
  BY <1>1 DEF Answering
<1>2. ASSUME NEW q \in Reqs, Handle(q) PROVE Answering'
  <2>1. CASE SetTokenStore(q)
    <3>1. prov' = [prov EXCEPT !.grants = prov.grants + 1]
      BY <2>1 DEF SetTokenStore
    <3> QED
      BY <1>1, <3>1 DEF TypeOK, ProviderType
  <2>2. CASE ~SetTokenStore(q)
    BY <1>1, <1>2, <2>2 DEF Handle, Begin, TakeLock, SetTokenNotify, SetTokenProbe, AddOauth,
       AddReplace, AddPublish, AddRollback, Remove, SetHeaders
  <2> QED
    BY <2>1, <2>2
<1>3. CASE \/ \E due \in BOOLEAN : AssembleRuntime(due)
           \/ Restart \/ ForgetServer \/ TakeEntry \/ StoreEntry \/ TimerFires \/ StoreRefreshed
           \/ RecFails \/ RecWriteToken \/ RecStore \/ RecNotify
  BY <1>1, <1>3 DEF AssembleRuntime, Restart, ForgetServer, TakeEntry, StoreEntry, TimerFires,
     StoreRefreshed, RecFails, RecWriteToken, RecStore, RecNotify
<1>4. ASSUME NEW t \in tasks, JoinDiscard(t) \/ JoinOk(t) \/ JoinFailed(t) \/ Refresh(t)
      PROVE  Answering'
  <2>1. CASE RefreshAnswered(t)
    <3>1. t.ref \in Tokens
      BY DEF TypeOK, TaskType
    <3> QED
      BY <2>1, <3>1, Answered DEF RefreshAnswered
  <2>2. CASE ~RefreshAnswered(t)
    BY <1>1, <1>4, <2>2 DEF JoinDiscard, JoinOk, JoinFailed, Refresh, RefreshFails,
       RefreshCancelled
  <2> QED
    BY <2>1, <2>2
<1>5. CASE RecAnswered
  <2>1. rec.ref \in Tokens
    BY <1>5 DEF RecAnswered, TypeOK, ReconnectType, Off
  <2> QED
    BY <1>5, <2>1, Answered DEF RecAnswered
<1>6. ASSUME NEW g \in Grants, Revoke(g) PROVE Answering'
  <2>1. prov' = [prov EXCEPT !.dead = @ \cup {g}]
    BY <1>6 DEF Revoke
  <2> QED
    BY <1>1, <2>1 DEF TypeOK, ProviderType
<1> QED
  BY <1>2, <1>3, <1>4, <1>5, <1>6, StepCases

LEMMA TrackedStep ==
    ASSUME TypeOK, Answering, Tracked, Next
    PROVE  Tracked'
<1> USE DEF TypeOK
<1>0. /\ Idle.do = "idle" /\ NoEnt.g = -1
      /\ \A t \in tasks : t \in TaskType /\ t.ref \in Tokens /\ t.gen \in 0 .. gen
      /\ ent # NoEnt => ent \in EntryType
      /\ gen \in Nat
  BY DEF Idle, NoEnt, TaskType
<1>1. CASE UNCHANGED <<sched, ent, timer, gen, tasks>>
  BY <1>1 DEF Tracked, Current
<1>2. ASSUME NEW q \in Reqs, Handle(q) PROVE Tracked'
  BY <1>1, <1>2 DEF Handle, Begin, TakeLock, SetTokenStore, SetTokenNotify, SetTokenProbe,
     AddOauth, AddReplace, AddPublish, AddRollback, Remove, SetHeaders, sVars
<1>3. CASE \/ \E due \in BOOLEAN : AssembleRuntime(due)
           \/ RecAnswered \/ RecFails \/ RecWriteToken \/ RecStore \/ RecNotify
           \/ \E g \in Grants : Revoke(g)
  BY <1>1, <1>3 DEF AssembleRuntime, RecAnswered, RecFails, RecWriteToken, RecStore, RecNotify,
     Revoke, sVars
<1>4. CASE Restart
  BY <1>0, <1>4 DEF Restart, Tracked
<1>5. CASE ForgetServer
  <2>1. /\ sched' = Idle /\ ent' = NoEnt /\ tasks' = Cancelled(tasks)
    BY <1>5 DEF ForgetServer
  <2>2. \A t \in tasks' : t.st = "ok" => t.acc.g = t.ref.g
    BY <2>1, TasksCancelled DEF Tracked
  <2> QED
    BY <1>0, <2>1, <2>2 DEF Tracked, Current
<1>6. CASE TakeEntry
  <2>1. sched'.do = "entry" /\ timer' /\ UNCHANGED <<ent, gen, tasks>>
    BY <1>6 DEF TakeEntry
  <2> QED
    BY <2>1 DEF Tracked, Current
<1>7. CASE StoreEntry
  <2>1. /\ sched' = Idle /\ tasks' = Cancelled(tasks) /\ gen' = gen + 1
        /\ ent' = [g |-> sched.ref.g, b |-> sched.b, ref |-> sched.ref]
    BY <1>7 DEF StoreEntry
  <2>2. /\ \A t \in tasks' : t.st = "ok" => t.acc.g = t.ref.g
        /\ \A t \in tasks' : t.gen \in 0 .. gen
    BY <1>0, <2>1, TasksCancelled DEF Tracked
  <2>3. \A t \in tasks' : t.gen # gen'
    BY <1>0, <2>1, <2>2
  <2>4. ent'.ref.g = ent'.g
    BY <2>1
  <2> QED
    BY <1>0, <2>1, <2>2, <2>3, <2>4 DEF Tracked, Current
<1>8. CASE TimerFires
  <2>1. sched = Idle /\ UNCHANGED <<sched, ent, gen>>
    BY <1>8 DEF TimerFires
  <2>2. CASE ent = NoEnt
    BY <1>0, <1>8, <2>1, <2>2 DEF TimerFires, Tracked, Current
  <2>3. CASE ent # NoEnt
    <3> DEFINE n == [gen |-> gen, ref |-> ent.ref, cancelled |-> FALSE, st |-> "run"]
    <3>1. tasks' = tasks \cup {n}
      BY <1>8, <2>3 DEF TimerFires
    <3>2. n.st = "run" /\ n.ref = ent.ref /\ ~n.cancelled
      OBVIOUS
    <3> HIDE DEF n
    <3> QED
      BY <1>0, <2>1, <2>3, <3>1, <3>2 DEF Tracked, Current
  <2> QED
    BY <2>2, <2>3
<1>9. CASE StoreRefreshed
  BY <1>0, <1>9 DEF StoreRefreshed, Tracked, Current
<1>10. ASSUME NEW t \in tasks, JoinDiscard(t) \/ JoinOk(t) \/ JoinFailed(t)
       PROVE  Tracked'
  <2>1. tasks' = tasks \ {t} /\ UNCHANGED <<ent, gen>> /\ sched = Idle
    BY <1>10 DEF JoinDiscard, JoinOk, JoinFailed
  <2>2. CASE JoinOk(t)
    <3>1. sched'.do = "token" /\ timer' /\ ent # NoEnt
      BY <2>2 DEF JoinOk, Current
    <3> QED
      BY <2>1, <3>1 DEF Tracked, Current
  <2>3. CASE JoinDiscard(t) \/ JoinFailed(t)
    <3>1. sched' = Idle
      BY <2>3 DEF JoinDiscard, JoinFailed
    <3> QED
      BY <1>0, <2>1, <3>1 DEF Tracked, Current
  <2> QED
    BY <1>10, <2>2, <2>3
<1>11. ASSUME NEW t \in tasks, Refresh(t)
       PROVE  Tracked'
  <2>1. UNCHANGED <<sched, ent, timer, gen>> /\ t.st = "run"
    BY <1>11 DEF Refresh, RefreshAnswered, RefreshFails, RefreshCancelled
  <2>2. ASSUME NEW n, tasks' \subseteq tasks \cup {n}, n.gen = t.gen, n.ref.g = t.ref.g,
               n.cancelled = t.cancelled, n.st = "ok" => n.acc.g = n.ref.g
        PROVE  Tracked'
    <3>1. \A u \in tasks' : /\ u.st = "ok" => u.acc.g = u.ref.g
                            /\ Current(u) => u.ref.g = ent.g /\ ~u.cancelled
      BY <2>2 DEF Tracked, Current
    <3> QED
      BY <2>1, <3>1 DEF Tracked, Current
  <2>3. CASE RefreshCancelled(t)
    BY <2>1, <2>3 DEF RefreshCancelled, Tracked, Current
  <2>4. CASE RefreshFails(t) \/ (RefreshAnswered(t) /\ ~Live(t.ref))
    <3>1. PICK l \in {"trans", "perm"} : tasks' = (tasks \ {t}) \cup {[t EXCEPT !.st = l]}
      BY <2>4 DEF RefreshFails, RefreshAnswered
    <3> DEFINE n == [t EXCEPT !.st = l]
    <3>2. n.gen = t.gen /\ n.ref = t.ref /\ n.cancelled = t.cancelled /\ n.st = l
      BY <1>0, <2>1 DEF TaskType
    <3>3. tasks' \subseteq tasks \cup {n}
      BY <3>1
    <3> HIDE DEF n
    <3> QED
      BY <2>2, <3>2, <3>3
  <2>5. CASE RefreshAnswered(t) /\ Live(t.ref)
    <3> DEFINE n == [gen |-> t.gen, ref |-> NextRef(t.ref), cancelled |-> t.cancelled, st |-> "ok",
                     acc |-> Issued(t.ref)]
    <3>1. tasks' \subseteq tasks \cup {n}
      BY <2>5 DEF RefreshAnswered
    <3>2. NextRef(t.ref).g = t.ref.g /\ Issued(t.ref).g = t.ref.g
      BY <1>0, <2>5, Answered DEF RefreshAnswered
    <3>3. n.gen = t.gen /\ n.ref.g = t.ref.g /\ n.cancelled = t.cancelled /\ n.acc.g = n.ref.g
      BY <3>2
    <3> HIDE DEF n
    <3> QED
      BY <2>2, <3>1, <3>3
  <2> QED
    BY <1>11, <2>3, <2>4, <2>5 DEF Refresh
<1> QED
  BY <1>2, <1>3, <1>4, <1>5, <1>6, <1>7, <1>8, <1>9, <1>10, <1>11, StepCases

LEMMA PartsInit == Init => PartsInv
<1> SUFFICES ASSUME Init PROVE PartsInv
  OBVIOUS
<1>1. \A q \in Reqs : hs[q].pc = "new"
  BY DEF Init
<1>2. Locked /\ Down /\ Removals
  BY <1>1, McpTokensAssumption DEF Init, Locked, Holding, Free, Down, Active, Removals, Messages
<1>3. SetTokens
  <2>1. [g |-> 0, k |-> 0] \in Tokens
    BY BackendNumbers, McpTokensAssumption DEF Tokens
  <2>2. Endowed(row)
    BY <2>1 DEF Init, Endowed, OauthRow
  <2> QED
    BY <1>1, <2>2 DEF SetTokens, Waits
<1>4. Granted
  <2>1. Granters = {} /\ prov.grants = 0
    BY <1>1 DEF Init, Granters
  <2> QED
    BY <2>1, FS_EmptySet DEF Granted
<1>5. Answering
  BY DEF Init, Answering
<1>6. Tracked
  BY DEF Init, Tracked, Idle
<1> QED
  BY <1>2, <1>3, <1>4, <1>5, <1>6 DEF PartsInv

LEMMA PartsStep == TypeOK /\ PartsInv /\ [Next]_vars => TypeOK' /\ PartsInv'
<1> SUFFICES ASSUME TypeOK, PartsInv, [Next]_vars PROVE TypeOK' /\ PartsInv'
  OBVIOUS
<1>1. CASE Next
  <2>1. TypeOK'
    BY <1>1, TypeOfHandlers, TypeOfScheduler, TypeOfRest DEF Next, PartsInv
  <2> QED
    BY <1>1, <2>1, LockedStep, DownStep, RemovalsStep, SetTokensStep, GrantedStep, AnsweringStep,
       TrackedStep DEF PartsInv
<1>2. CASE UNCHANGED vars
  <2>1. TypeOK'
    BY <1>2 DEF vars, TypeOK, TaskType
  <2>2. Locked' /\ Down' /\ Removals' /\ SetTokens' /\ Granted' /\ Answering' /\ Tracked'
    BY <1>2 DEF vars, PartsInv, Locked, Down, Removals, Messages, SetTokens, Granted, Granters,
       Answering, Tracked, Current, Active
  <2> QED
    BY <2>1, <2>2 DEF PartsInv
<1> QED
  BY <1>1, <1>2

LEMMA Inductive == Spec => []IInv
<1>1. Init => IInv
  BY TypeInit, PartsInit DEF IInv
<1>2. IInv /\ [Next]_vars => IInv'
  BY PartsStep DEF IInv
<1> QED
  BY <1>1, <1>2, PTL DEF Spec

\* Every variable keeps its type, whatever the dashboard, the provider and the
\* scheduler do; no request creates more than one backend and one grant.
THEOREM TypeCorrect == Spec => []TypeOK
  BY Inductive, PTL DEF IInv

\* What the join arm of the scheduler writes into a backend belongs to the grant
\* of the entry it tracks: a removal or a newer entry makes every refresh under
\* way stale, even one whose answer raced the cancellation.
THEOREM StaleResultsAreDiscarded == Spec => StaleResultDiscarded
<1> DEFINE A == \A b \in Backends :
                   sched = Idle /\ sched'.do = "token" /\ tok'[b] # tok[b] =>
                      ent.b = b /\ tok'[b].g = ent.g
<1>1. ASSUME IInv, [Next]_vars PROVE A
  <2> SUFFICES ASSUME NEW b \in Backends, sched = Idle, sched'.do = "token", tok'[b] # tok[b]
               PROVE  ent.b = b /\ tok'[b].g = ent.g
    OBVIOUS
  <2>1. Idle.do = "idle" /\ tok \in [Backends -> Creds]
    BY <1>1 DEF Idle, IInv, TypeOK
  <2>2. Next
    BY <1>1, <2>1 DEF vars
  <2>3. sched' # sched
    BY <2>1
  <2>4. ASSUME NEW t \in tasks, JoinOk(t) PROVE ent.b = b /\ tok'[b].g = ent.g
    <3>1. tok' = [tok EXCEPT ![ent.b] = t.acc] /\ t.st = "ok" /\ Current(t)
      BY <2>4 DEF JoinOk
    <3>2. ent.b = b /\ tok'[b] = t.acc
      BY <2>1, <3>1
    <3> QED
      BY <1>1, <3>1, <3>2 DEF IInv, PartsInv, Tracked
  <2>5. CASE TakeEntry \/ ForgetServer \/ StoreEntry \/ TimerFires \/ StoreRefreshed \/ Restart
    BY <2>1, <2>5 DEF TakeEntry, ForgetServer, StoreEntry, TimerFires, StoreRefreshed, Restart
  <2>6. ASSUME NEW t \in tasks, JoinDiscard(t) \/ JoinFailed(t) \/ Refresh(t) PROVE FALSE
    BY <2>3, <2>6 DEF JoinDiscard, JoinFailed, Refresh, RefreshAnswered, RefreshFails,
       RefreshCancelled
  <2>7. ASSUME NEW q \in Reqs, Handle(q) PROVE FALSE
    BY <2>3, <2>7 DEF Handle, Begin, TakeLock, SetTokenStore, SetTokenNotify, SetTokenProbe,
       AddOauth, AddReplace, AddPublish, AddRollback, Remove, SetHeaders, sVars
  <2>8. CASE \/ \E due \in BOOLEAN : AssembleRuntime(due)
             \/ RecAnswered \/ RecFails \/ RecWriteToken \/ RecStore \/ RecNotify
             \/ \E g \in Grants : Revoke(g)
    BY <2>3, <2>8 DEF AssembleRuntime, RecAnswered, RecFails, RecWriteToken, RecStore, RecNotify,
       Revoke, sVars
  <2> QED
    BY <2>2, <2>4, <2>5, <2>6, <2>7, <2>8, StepCases
<1>2. IInv /\ [Next]_vars => [A]_vars
  BY <1>1
<1> QED
  BY <1>2, Inductive, PTL DEF Spec, StaleResultDiscarded

-----------------------------------------------------------------------------
(* The credentials: what is on its way to the row and to the backend carries *)
(* the grant of the last mutation, as long as no request overtook another    *)
(* and the reconnect task heeds its cancellation.                            *)

Granting == {"none", "token"}

\* The row that a mutation leaves.
Fits(l, r) == r.kind = "oauth" /\ r.ep /\ r.acc.g = l.g /\ r.ref.g = l.g
RowOf(l, r) ==
    /\ l.op = "token" => Fits(l, r)
    /\ l.op = "none" => l.g = 0 /\ (r = NoRow \/ Fits(l, r))
    /\ l.op = "remove" => r = NoRow
    /\ l.op = "headers" => r = BareRow("headers")
    /\ l.op = "addOauth" => r = BareRow("oauth")
    /\ l.op = "addPlain" => r = BareRow("plain")

\* The registry routes to a backend of that row, which carries its access token,
\* unless a newer one is being written to the row.
Serves(l, r) ==
    /\ proxies = 0 <=> r = NoRow
    /\ l.op \in Granting /\ r # NoRow =>
          /\ tok[proxies].g = l.g
          /\ sched.do # "token" /\ rec.st # "wrote" => tok[proxies] = r.acc

\* While an add is trying its connection, the backend is the one before it.
Routed ==
    /\ RowOf(last, row)
    /\ up /\ (\A q \in Reqs : hs[q].pc # "connect") => Serves(last, row)
    /\ \A q \in Reqs : hs[q].pc = "connect" =>
          /\ last.op = "addPlain" /\ RowOf(hs[q].prevLast, hs[q].prev)
          /\ Serves(hs[q].prevLast, hs[q].prev)

\* Whatever the scheduler has or will get is of the grant of the row.
Held == last.op \in Granting /\ row # NoRow
InFlight ==
    /\ \A i \in Messages : chan[i].do = "new" =>
          Held /\ chan[i].b = proxies /\ chan[i].ref.g = last.g
    /\ sched.do = "entry" =>
          Held /\ sched.b = proxies /\ sched.ref.g = last.g /\ sched.acc = tok[proxies]
    /\ sched.do = "token" => Held /\ sched.ref.g = last.g /\ sched.acc = tok[proxies]
    /\ ent # NoEnt => Held /\ ent.g = last.g /\ ent.b = proxies
    /\ \A q \in Reqs : hs[q].pc = "stored" => last.op = "token" /\ hs[q].b = proxies

\* A request that the scheduler has answered finds it without the server, up to
\* its own change; before that, nothing but an overtaking entry follows its
\* removal in the channel.
NoNew == \A i \in Messages : chan[i].do # "new"
SchedEmpty == NoNew /\ sched = Idle /\ ent = NoEnt
Alone(q) ==
    hs[q].pc \in {"held", "stored", "connect"} \/ (hs[q].pc = "lock" /\ ~hs[q].over)
Calm ==
    /\ \A q \in Reqs : Alone(q) => SchedEmpty
    /\ \A i, j \in Messages :
          chan[i].do = "remove" /\ i < j /\ chan[j].do = "new" => hs[chan[i].q].over

\* The reconnect task, until it is cancelled, is alone with the row it was given.
RecLive == rec.st # "off" /\ ~rec.cancelled
Stored == \E q \in Reqs : hs[q].pc = "stored"
Reconnects ==
    /\ RecLive /\ ~Stored =>
          /\ Held /\ rec.b = proxies /\ rec.ref.g = last.g /\ SchedEmpty
          /\ rec.st # "run" => rec.acc.g = last.g
          /\ rec.st = "wrote" => tok[proxies] = rec.acc
    /\ \A q \in Reqs :
          /\ hs[q].pc \in {"cancel", "lock", "held"} /\ hs[q].op \in {"remove", "headers"} =>
                ~RecLive
          /\ hs[q].pc \in {"probe", "connect"} => ~RecLive

\* A grant that was not given up has a refresh ahead, unless a request is about
\* to change the server.
Pending ==
    \/ \E i \in Messages : chan[i].do = "new"
    \/ sched.do = "entry"
    \/ ent # NoEnt /\ (timer \/ \E t \in tasks : t.gen = gen)
    \/ RecLive
Mutating == \E q \in Reqs : hs[q].pc \in {"cancel", "lock", "held", "stored", "connect"}
Scheduled == up /\ Held /\ lost = {} /\ ~Mutating => Pending

Credentials == Routed /\ InFlight /\ Calm /\ Reconnects /\ Scheduled
CredentialsInv == ~raced /\ ~late => Credentials

\* An overtaking is not forgotten.
LEMMA NotForgotten == TypeOK /\ Next /\ ~raced' /\ ~late' => ~raced /\ ~late
<1> SUFFICES ASSUME TypeOK, Next, ~raced', ~late' PROVE ~raced /\ ~late
  OBVIOUS
<1>1. ASSUME NEW q \in Reqs, Handle(q) PROVE ~raced /\ ~late
  <2>1. CASE TakeLock(q)
    BY <2>1 DEF TakeLock
  <2>2. CASE SetTokenStore(q)
    BY <2>2 DEF SetTokenStore
  <2>3. CASE ~TakeLock(q) /\ ~SetTokenStore(q)
    <3>1. UNCHANGED <<raced, late>>
      BY <1>1, <2>3 DEF Handle, Begin, SetTokenNotify, SetTokenProbe, AddOauth, AddReplace,
         AddPublish, AddRollback, Remove, SetHeaders, hVars
    <3> QED
      BY <3>1
  <2> QED
    BY <2>1, <2>2, <2>3
<1>2. CASE \/ \E due \in BOOLEAN : AssembleRuntime(due)
           \/ Restart \/ ForgetServer \/ TakeEntry \/ StoreEntry \/ TimerFires \/ StoreRefreshed
           \/ \E g \in Grants : Revoke(g)
  BY <1>2 DEF AssembleRuntime, Restart, ForgetServer, TakeEntry, StoreEntry, TimerFires,
     StoreRefreshed, Revoke, hVars
<1>3. CASE \E t \in tasks : JoinDiscard(t) \/ JoinOk(t) \/ JoinFailed(t) \/ Refresh(t)
  BY <1>3 DEF JoinDiscard, JoinOk, JoinFailed, Refresh, RefreshAnswered, RefreshFails,
     RefreshCancelled, hVars
<1>4. CASE RecAnswered \/ RecFails \/ RecWriteToken \/ RecStore \/ RecNotify
  <2>1. CASE RecAnswered \/ RecFails
    BY <2>1 DEF RecAnswered, RecFails
  <2>2. CASE RecWriteToken
    BY <2>2 DEF RecWriteToken, Trespass
  <2>3. CASE RecStore
    BY <2>3 DEF RecStore, Trespass
  <2>4. CASE RecNotify
    BY <2>4 DEF RecNotify, Trespass
  <2> QED
    BY <1>4, <2>1, <2>2, <2>3, <2>4
<1> QED
  BY <1>1, <1>2, <1>3, <1>4, StepCases

\* Where nobody overtook another, the reconnect task writes alone.
LEMMA RecUndisturbed ==
    ASSUME TypeOK, RecWriteToken \/ RecStore \/ RecNotify, ~late'
    PROVE  /\ RecLive /\ ~Stored /\ UNCHANGED hs /\ rec \in ReconnectType /\ up
           /\ \A q \in Reqs : hs[q].pc \in {"new", "done"}
<1>1. ~rec.cancelled /\ Active = {} /\ rec.st \in {"got", "wrote", "saved"} /\ UNCHANGED hs /\ up
  BY DEF RecWriteToken, RecStore, RecNotify, Trespass
<1>2. \A q \in Reqs : hs[q].pc \in {"new", "done"}
  BY <1>1 DEF Active
<1>3. rec \in ReconnectType
  BY <1>1 DEF TypeOK, Off
<1> QED
  BY <1>1, <1>2, <1>3 DEF RecLive, Stored

\* A cancelled reconnect task stays where it is and is not live.
LEMMA CancelRecIs ==
    ASSUME TypeOK
    PROVE  /\ rec.st # "off" => rec \in ReconnectType
           /\ rec' = CancelRec(rec) => ~RecLive' /\ rec'.st = rec.st
  BY DEF TypeOK, CancelRec, Off, ReconnectType, RecLive

\* A request at the start, or at the end, of the others.
LEMMA AloneIs ==
    ASSUME TypeOK, Locked, NEW q \in Reqs, lock = q
    PROVE  \A p \in Reqs \ {q} : hs[p].pc \notin Holding
  BY DEF Locked

\* Only an overtaking set-token puts an entry behind a removal.
LEMMA CalmStep ==
    ASSUME TypeOK, PartsInv, Calm, Next, ~raced', ~late'
    PROVE  Calm'
<1> USE DEF PartsInv
<1>0. /\ chan \in Seq(MessageType)
      /\ \A i \in Messages : chan[i].do = "remove" => chan[i].q \in Reqs /\ hs[chan[i].q].pc = "cancel"
  BY DEF TypeOK, MessageType, Messages, Removals
<1>1. ASSUME UNCHANGED chan, SchedEmpty => SchedEmpty',
             \A q \in Reqs : Alone(q)' => Alone(q),
             \A q \in Reqs : hs[q].pc = "cancel" /\ hs[q].over => hs'[q].over
      PROVE  Calm'
  BY <1>0, <1>1 DEF Calm, Messages
<1>2. ASSUME UNCHANGED <<chan, sched, ent>>, NEW q \in Reqs, NEW l, Goes(q, l), hs[q].pc # "cancel",
             Alone(q)' => Alone(q)
      PROVE  Calm'
  <2>1. SchedEmpty => SchedEmpty'
    BY <1>2 DEF SchedEmpty, NoNew, Messages
  <2>2. \A p \in Reqs \ {q} : hs'[p] = hs[p]
    BY <1>2 DEF Goes, Others
  <2>3. \A p \in Reqs : Alone(p)' => Alone(p)
    BY <1>2, <2>2 DEF Alone
  <2> QED
    BY <1>1, <1>2, <2>1, <2>2, <2>3
<1>3. ASSUME NEW m, Push(m), UNCHANGED <<sched, ent>>, m.do = "remove",
             \A q \in Reqs : Alone(q)' => Alone(q),
             \A q \in Reqs : hs[q].pc = "cancel" /\ hs[q].over => hs'[q].over
      PROVE  Calm'
  <2> DEFINE n == Len(chan) + 1
  <2>1. /\ n \in Nat /\ Messages' = 1 .. n /\ chan'[n].do = "remove"
        /\ \A i \in Messages : chan'[i] = chan[i] /\ i < n
        /\ \A i \in 1 .. n : i \in Messages \/ i = n
    BY <1>3, ChanPushed DEF Messages
  <2> HIDE DEF n
  <2>2. SchedEmpty => SchedEmpty'
    BY <1>3, <2>1 DEF SchedEmpty, NoNew
  <2>3. ASSUME NEW i \in 1 .. n, NEW j \in 1 .. n, i < j, chan'[i].do = "remove", chan'[j].do = "new"
        PROVE  hs'[chan'[i].q].over
    <3>1. j \in Messages /\ i \in Messages
      BY <2>1, <2>3
    <3> QED
      BY <1>0, <1>3, <2>1, <2>3, <3>1 DEF Calm
  <2> QED
    BY <1>3, <2>1, <2>2, <2>3 DEF Calm
<1>4. ASSUME NEW m, Push(m), m.do = "new", \A q \in Reqs : ~Alone(q)',
             \A q \in Reqs : hs[q].pc = "cancel" => hs'[q].over
      PROVE  Calm'
  <2> DEFINE n == Len(chan) + 1
  <2>1. /\ n \in Nat /\ Messages' = 1 .. n /\ chan'[n].do = "new"
        /\ \A i \in Messages : chan'[i] = chan[i]
        /\ \A i \in 1 .. n : i \in Messages \/ i = n
    BY <1>4, ChanPushed DEF Messages
  <2> HIDE DEF n
  <2> QED
    BY <1>0, <1>4, <2>1 DEF Calm
<1>5. ASSUME NEW q \in Reqs, Handle(q) PROVE Calm'
  <2>1. ASSUME NEW op \in Ops, Begin(q, op) PROVE Calm'
    <3>1. hs[q].pc = "new" /\ hs'[q].pc = "cancel" /\ \A p \in Reqs \ {q} : hs'[p] = hs[p]
      BY <2>1, BeginMoves DEF Goes, Others
    <3>2. Push([do |-> "remove", q |-> q]) /\ UNCHANGED <<sched, ent>>
      BY <2>1 DEF Begin, sVars
    <3> QED
      BY <1>3, <3>1, <3>2 DEF Alone
  <2>2. CASE SetTokenNotify(q)
    <3>1. lock = q /\ hs'[q].pc = "probe" /\ Overtakes(q)
      BY <2>2, NotifyMoves
    <3>2. \A p \in Reqs \ {q} : hs[p].pc \notin Holding
      BY <3>1, AloneIs
    <3>3. \A p \in Reqs : ~Alone(p)'
      BY <3>1, <3>2 DEF Alone, Overtakes, Holding
    <3>4. \A p \in Reqs : hs[p].pc = "cancel" => hs'[p].over
      BY <2>2, <3>1, NotifyMoves DEF Overtakes
    <3>5. Push(EntryMsg(hs[q].b, row.ref)) /\ EntryMsg(hs[q].b, row.ref).do = "new"
      BY <2>2 DEF SetTokenNotify, EntryMsg
    <3> QED
      BY <1>4, <3>3, <3>4, <3>5
  <2>3. CASE TakeLock(q)
    <3>1. /\ hs[q].pc = "lock" /\ Goes(q, "held") /\ hs'[q].over = hs[q].over
          /\ raced' = (raced \/ hs[q].over)
      BY <2>3, HandlerMoves
    <3>2. UNCHANGED <<chan, sched, ent>>
      BY <2>3 DEF TakeLock, sVars
    <3>3. Alone(q)
      BY <3>1 DEF Alone
    <3> QED
      BY <1>2, <3>1, <3>2, <3>3
  <2>4. CASE SetTokenStore(q) \/ SetTokenProbe(q) \/ AddOauth(q) \/ AddReplace(q)
             \/ AddPublish(q) \/ AddRollback(q) \/ Remove(q) \/ SetHeaders(q)
    <3>1. UNCHANGED <<chan, sched, ent>>
      BY <2>4 DEF SetTokenStore, SetTokenProbe, AddOauth, AddReplace, AddPublish, AddRollback,
         Remove, SetHeaders, sVars
    <3>2. \E l \in {"stored", "done", "connect"} :
             Goes(q, l) /\ hs[q].pc \in Holding /\ (l # "done" => hs[q].pc = "held")
      <4>1. CASE SetTokenStore(q)
        BY <4>1, StoreMoves DEF Holding
      <4>2. CASE ~SetTokenStore(q)
        BY <2>4, <4>2, HandlerMoves DEF Holding
      <4> QED
        BY <4>1, <4>2
    <3>3. Alone(q)' => Alone(q)
      BY <3>2 DEF Alone, Goes
    <3>4. hs[q].pc # "cancel"
      BY <3>2 DEF Holding
    <3> QED
      BY <1>2, <3>1, <3>2, <3>3, <3>4
  <2> QED
    BY <1>5, <2>1, <2>2, <2>3, <2>4 DEF Handle
<1>6. CASE Restart
  <2>1. chan' = <<>>
    BY <1>6 DEF Restart
  <2>2. Messages' = {}
    BY <2>1 DEF Messages
  <2>3. \A q \in Reqs : ~Alone(q)'
    BY <1>6, RestartMoves DEF Alone
  <2> QED
    BY <2>2, <2>3 DEF Calm
<1>7. CASE \E due \in BOOLEAN : AssembleRuntime(due)
  <2>1. \A q \in Reqs : ~Alone(q)'
    <3>1. \A q \in Reqs : hs[q].pc \in {"new", "done"} /\ UNCHANGED hs
      BY <1>7 DEF AssembleRuntime, Down, Active
    <3> QED
      BY <3>1 DEF Alone
  <2>2. chan' = <<>> \/ chan' = <<EntryMsg(1 + Made, row.ref)>>
    BY <1>7 DEF AssembleRuntime
  <2>3. \A i \in Messages' : chan'[i].do # "remove"
    BY <2>2 DEF Messages, EntryMsg
  <2> QED
    BY <2>1, <2>3 DEF Calm
<1>8. ASSUME chan # <<>>, chan' = Tail(chan), \A q \in Reqs : Alone(q)' => SchedEmpty',
             \A p \in Reqs : hs[p].over => hs'[p].over
      PROVE  Calm'
  <2>1. /\ Len(chan) \in Nat /\ Len(chan) >= 1 /\ Messages' = 1 .. Len(chan) - 1
        /\ \A i \in 1 .. Len(chan) - 1 : chan'[i] = chan[i + 1] /\ i + 1 \in Messages
    BY <1>8, ChanPopped DEF Messages
  <2>2. ASSUME NEW i \in Messages', NEW j \in Messages', i < j, chan'[i].do = "remove",
               chan'[j].do = "new"
        PROVE  hs'[chan'[i].q].over
    <3>1. i + 1 < j + 1
      BY <2>1, <2>2
    <3>2. hs[chan[i + 1].q].over /\ chan[i + 1].q \in Reqs
      BY <1>0, <2>1, <2>2, <3>1 DEF Calm
    <3> QED
      BY <1>8, <2>1, <2>2, <3>2
  <2> QED
    BY <1>8, <2>2 DEF Calm
<1>9. CASE ForgetServer
  <2>1. PICK q \in Reqs : /\ q = Head(chan).q /\ hs[q].pc = "cancel" /\ Goes(q, "lock")
                          /\ hs'[q].over = hs[q].over
    BY <1>9, ForgetMoves
  <2>2. /\ chan # <<>> /\ Head(chan).do = "remove" /\ chan' = Tail(chan) /\ sched' = Idle
        /\ ent' = NoEnt /\ sched = Idle
    BY <1>9 DEF ForgetServer
  <2>3. /\ Len(chan) \in Nat /\ Len(chan) >= 1 /\ Messages' = 1 .. Len(chan) - 1
        /\ Head(chan) = chan[1]
        /\ \A i \in 1 .. Len(chan) - 1 :
              chan'[i] = chan[i + 1] /\ i + 1 \in Messages /\ 1 < i + 1
        /\ 1 \in Messages
    BY <2>2, ChanPopped DEF Messages
  <2>4. ~hs[q].over => NoNew'
    BY <2>1, <2>2, <2>3 DEF Calm, NoNew
  <2>5. NoNew => NoNew'
    BY <2>3 DEF NoNew
  <2>6. \A p \in Reqs \ {q} : Alone(p)' => SchedEmpty'
    BY <2>1, <2>2, <2>5 DEF Calm, Goes, Others, Alone, SchedEmpty
  <2>7. Alone(q)' => SchedEmpty'
    BY <2>1, <2>2, <2>4 DEF Goes, Alone, SchedEmpty
  <2> QED
    BY <1>8, <2>1, <2>2, <2>6, <2>7 DEF Goes, Others
<1>10. CASE TakeEntry
  <2>1. chan # <<>> /\ Head(chan).do = "new" /\ chan' = Tail(chan) /\ UNCHANGED hs
    BY <1>10 DEF TakeEntry
  <2>2. ~NoNew
    BY <2>1, ChanPopped DEF NoNew, Messages
  <2>3. \A q \in Reqs : ~Alone(q)'
    BY <2>1, <2>2 DEF Calm, SchedEmpty, Alone
  <2> QED
    BY <1>8, <2>1, <2>3
<1>11. CASE StoreEntry \/ StoreRefreshed \/ \E t \in tasks : JoinOk(t)
  <2>1. UNCHANGED <<chan, hs>> /\ ~SchedEmpty
    BY <1>11 DEF StoreEntry, StoreRefreshed, JoinOk, Current, SchedEmpty, Idle
  <2>2. \A q \in Reqs : Alone(q)' => Alone(q)
    BY <2>1 DEF Alone
  <2> QED
    BY <1>1, <2>1, <2>2
<1>12. CASE RecNotify
  <2>1. UNCHANGED hs /\ \A q \in Reqs : hs[q].pc \in {"new", "done"}
    BY <1>12, RecUndisturbed
  <2>2. \A q \in Reqs : ~Alone(q)'
    BY <2>1 DEF Alone
  <2>3. Push(EntryMsg(rec.b, rec.ref)) /\ EntryMsg(rec.b, rec.ref).do = "new"
    BY <1>12 DEF RecNotify, EntryMsg
  <2> QED
    BY <1>4, <2>1, <2>2, <2>3
<1>13. CASE UNCHANGED <<chan, sched, ent, hs>>
  BY <1>13 DEF Calm, SchedEmpty, NoNew, Messages, Alone
<1>14. CASE \E t \in tasks : JoinDiscard(t) \/ JoinFailed(t) \/ Refresh(t)
  BY <1>13, <1>14 DEF JoinDiscard, JoinFailed, Refresh, RefreshAnswered, RefreshFails,
     RefreshCancelled
<1>15. CASE TimerFires \/ RecAnswered \/ RecFails \/ RecWriteToken \/ RecStore
            \/ \E g \in Grants : Revoke(g)
  BY <1>13, <1>15 DEF TimerFires, RecAnswered, RecFails, RecWriteToken, RecStore, Revoke, sVars
<1> QED
  BY <1>5, <1>6, <1>7, <1>9, <1>10, <1>11, <1>12, <1>14, <1>15, StepCases

\* A request that changes the server has it alone.
LEMMA MutatesAlone ==
    ASSUME TypeOK, PartsInv, Calm, NEW q \in Reqs, lock = q,
           hs[q].pc \in {"held", "stored", "connect"}
    PROVE  SchedEmpty /\ \A p \in Reqs \ {q} : hs[p].pc \notin Holding
  BY AloneIs DEF PartsInv, Calm, Alone

\* The row stays, or is replaced by another one, when a token is stored.
LEMMA TokensStored ==
    ASSUME TypeOK, StoreEntry \/ StoreRefreshed \/ RecStore
    PROVE  (row' = NoRow) <=> (row = NoRow)
<1> USE DEF TypeOK
<1>1. \A acc, ref : OauthRow(acc, ref) # NoRow
  BY DEF OauthRow, NoRow
<1>2. CASE row = NoRow
  BY <1>2 DEF StoreEntry, StoreRefreshed, RecStore, DbSetOauth, DbUpdateToken
<1>3. CASE row # NoRow
  <2>1. CASE StoreEntry
    BY <1>1, <1>3, <2>1 DEF StoreEntry, DbSetOauth
  <2>2. CASE StoreRefreshed
    <3>1. sched.acc \in Creds /\ sched.ref \in Creds /\ row \in RowType \cup {NoRow}
      BY <2>2, BareTypes DEF StoreRefreshed, SchedType, Idle
    <3>2. row' = DbUpdateToken(row, sched.acc, sched.ref)
      BY <2>2 DEF StoreRefreshed
    <3> QED
      BY <1>3, <3>1, <3>2, DbTypes
  <2>3. CASE RecStore
    <3>1. rec.acc \in Creds /\ rec.ref \in Creds /\ row \in RowType \cup {NoRow}
      BY <2>3, BareTypes DEF RecStore, ReconnectType, Off
    <3>2. row' = DbUpdateToken(row, rec.acc, rec.ref)
      BY <2>3 DEF RecStore
    <3> QED
      BY <1>3, <3>1, <3>2, DbTypes
  <2> QED
    BY <2>1, <2>2, <2>3
<1> QED
  BY <1>2, <1>3

\* A row that the scheduler may take is one of a grant.
LEMMA OauthIsHeld ==
    ASSUME TypeOK, Routed, row # NoRow, row.kind = "oauth", row.ep
    PROVE  Held /\ row.acc.g = last.g /\ row.ref.g = last.g
<1>1. last.op \in {"none", "token", "remove", "headers", "addOauth", "addPlain"}
  BY McpTokensAssumption DEF TypeOK, MutationType
<1>2. \A k : BareRow(k).ep = FALSE
  BY DEF BareRow
<1>3. last.op \in {"none", "token"}
  BY <1>1, <1>2 DEF Routed, RowOf
<1> QED
  BY <1>3 DEF Routed, RowOf, Fits, Held, Granting

\* The messages in the channel are of the grant of the row.
Sent ==
    \A i \in Messages : chan[i].do = "new" =>
        Held /\ chan[i].b = proxies /\ chan[i].ref.g = last.g

\* A message stays of the grant of the row while row, backend and grant stay.
LEMMA SentStep ==
    ASSUME TypeOK, UNCHANGED <<last, proxies>>, (row' = NoRow) <=> (row = NoRow), Sent
    PROVE  /\ UNCHANGED chan => Sent'
           /\ chan # <<>> /\ chan' = Tail(chan) => Sent'
           /\ \A m : Push(m) /\ m.do = "remove" => Sent'
           /\ \A b, ref : Push(EntryMsg(b, ref)) /\ Held /\ b = proxies /\ ref.g = last.g => Sent'
<1>0. Held' = Held
  BY DEF Held
<1>1. UNCHANGED chan => Sent'
  BY <1>0 DEF Sent, Messages
<1>2. ASSUME chan # <<>>, chan' = Tail(chan) PROVE Sent'
  <2>1. /\ Len(chan) \in Nat /\ Len(chan) >= 1 /\ Messages' = 1 .. Len(chan) - 1
        /\ \A i \in 1 .. Len(chan) - 1 : chan'[i] = chan[i + 1] /\ i + 1 \in Messages
    BY <1>2, ChanPopped DEF Messages
  <2> QED
    BY <1>0, <2>1 DEF Sent
<1>3. ASSUME NEW m, Push(m),
             \/ m.do = "remove"
             \/ Held /\ m.b = proxies /\ m.ref.g = last.g
      PROVE  Sent'
  <2> DEFINE n == Len(chan) + 1
  <2>1. /\ Messages' = 1 .. n /\ chan'[n] = m /\ \A i \in Messages : chan'[i] = chan[i]
        /\ \A i \in 1 .. n : i \in Messages \/ i = n
    BY <1>3, ChanPushed DEF Messages
  <2> HIDE DEF n
  <2>2. m.do = "remove" => m.do # "new"
    OBVIOUS
  <2> QED
    BY <1>0, <1>3, <2>1, <2>2 DEF Sent
<1>4. ASSUME NEW b, NEW ref, Push(EntryMsg(b, ref)), Held, b = proxies, ref.g = last.g PROVE Sent'
  <2> DEFINE m == EntryMsg(b, ref)
  <2>1. m.b = b /\ m.ref = ref
    BY DEF EntryMsg
  <2>2. Push(m)
    BY <1>4
  <2> HIDE DEF m
  <2> QED
    BY <1>3, <1>4, <2>1, <2>2
<1> QED
  BY <1>1, <1>2, <1>3, <1>4

Scheduling ==
    /\ sched.do = "entry" =>
          Held /\ sched.b = proxies /\ sched.ref.g = last.g /\ sched.acc = tok[proxies]
    /\ sched.do = "token" => Held /\ sched.ref.g = last.g /\ sched.acc = tok[proxies]
    /\ ent # NoEnt => Held /\ ent.g = last.g /\ ent.b = proxies
Storing == \A q \in Reqs : hs[q].pc = "stored" => last.op = "token" /\ hs[q].b = proxies

\* Whatever is sent to the scheduler is taken from the row; a request that changes
\* its grant finds nothing sent.
LEMMA InFlightStep ==
    ASSUME TypeOK, PartsInv, Routed, InFlight, Calm, Reconnects, Next, ~raced', ~late'
    PROVE  InFlight'
<1>0. /\ Sent /\ Scheduling /\ Storing
      /\ Idle.do = "idle"
      /\ Sent' /\ Scheduling' /\ Storing' => InFlight'
  BY DEF InFlight, Sent, Scheduling, Storing, Idle
<1>1. SchedEmpty' => Sent' /\ Scheduling'
  BY <1>0 DEF SchedEmpty, NoNew, Sent, Scheduling
<1>2. ASSUME UNCHANGED <<sched, ent, last, proxies, tok>>, (row' = NoRow) <=> (row = NoRow)
      PROVE  Scheduling'
  BY <1>0, <1>2 DEF Scheduling, Held
<1>3. ASSUME UNCHANGED <<last, proxies>>, \A q \in Reqs : hs'[q].pc = "stored" => hs'[q] = hs[q]
      PROVE  Storing'
  BY <1>0, <1>3 DEF Storing
<1>4. ASSUME NEW q \in Reqs, Handle(q) PROVE InFlight'
  <2>1. ASSUME NEW op \in Ops, Begin(q, op) PROVE InFlight'
    <3>1. hs'[q].pc = "cancel" /\ \A p \in Reqs \ {q} : hs'[p] = hs[p]
      BY <2>1, BeginMoves DEF Goes, Others
    <3>2. /\ Push([do |-> "remove", q |-> q])
          /\ UNCHANGED <<row, last, proxies, tok, sched, ent>>
      BY <2>1 DEF Begin, sVars, hVars
    <3>3. Sent'
      BY <1>0, <3>2, SentStep
    <3> QED
      BY <1>0, <1>2, <1>3, <3>1, <3>2, <3>3
  <2>2. CASE SetTokenNotify(q)
    <3>1. lock = q /\ hs[q].pc = "stored" /\ hs'[q].pc = "probe" /\ Overtakes(q)
      BY <2>2, NotifyMoves
    <3>2. /\ Push(EntryMsg(hs[q].b, row.ref)) /\ UNCHANGED <<row, last, proxies, tok, sched, ent>>
      BY <2>2 DEF SetTokenNotify, sVars, hVars
    <3>3. Held /\ hs[q].b = proxies /\ row.ref.g = last.g
      BY <1>0, <3>1 DEF Storing, Routed, RowOf, Fits, Held, Granting, NoRow
    <3>4. Sent'
      BY <1>0, <3>2, <3>3, SentStep
    <3> QED
      BY <1>0, <1>2, <1>3, <3>1, <3>2, <3>4 DEF Overtakes
  <2>3. CASE TakeLock(q) \/ SetTokenProbe(q)
    <3>1. \E l \in {"held", "done"} : Goes(q, l)
      BY <2>3, HandlerMoves
    <3>2. UNCHANGED <<chan, row, last, proxies, tok, sched, ent>>
      BY <2>3 DEF TakeLock, SetTokenProbe, sVars, hVars
    <3>3. Sent'
      BY <1>0, <3>2, SentStep
    <3> QED
      BY <1>0, <1>2, <1>3, <3>1, <3>2, <3>3 DEF Goes, Others
  <2>4. CASE AddOauth(q) \/ AddReplace(q) \/ AddPublish(q) \/ AddRollback(q) \/ Remove(q)
             \/ SetHeaders(q)
    <3>1. /\ lock = q /\ hs[q].pc \in {"held", "connect"}
          /\ \E l \in {"done", "connect"} : Goes(q, l)
      BY <2>4, HandlerMoves
    <3>2. UNCHANGED <<chan, sched, ent>>
      BY <2>4 DEF AddOauth, AddReplace, AddPublish, AddRollback, Remove, SetHeaders, sVars
    <3>3. SchedEmpty /\ \A p \in Reqs \ {q} : hs[p].pc # "stored"
      BY <3>1, MutatesAlone DEF Holding
    <3>4. SchedEmpty' /\ Storing'
      BY <3>1, <3>2, <3>3 DEF SchedEmpty, NoNew, Messages, Storing, Goes, Others
    <3> QED
      BY <1>0, <1>1, <3>4
  <2>5. CASE SetTokenStore(q)
    <3>1. /\ lock = q /\ hs[q].pc = "held"
          /\ \E l \in {"done", "stored"} : Goes(q, l) /\ (l = "stored" => Stays(q) /\ row # NoRow)
      BY <2>5, StoreMoves
    <3>2. UNCHANGED <<chan, sched, ent, proxies>> /\ hs[q].b = proxies
      <4>1. UNCHANGED <<chan, sched, ent, proxies>> /\ raced' = (raced \/ hs[q].b # proxies)
        BY <2>5 DEF SetTokenStore, sVars
      <4> QED
        BY <4>1
    <3>6. row # NoRow => last'.op = "token"
      BY <2>5 DEF SetTokenStore
    <3>3. SchedEmpty /\ \A p \in Reqs \ {q} : hs[p].pc # "stored"
      BY <3>1, MutatesAlone DEF Holding
    <3>4. SchedEmpty'
      BY <3>2, <3>3 DEF SchedEmpty, NoNew, Messages
    <3>5. Storing'
      BY <3>1, <3>2, <3>3, <3>6 DEF Storing, Goes, Others, Stays
    <3> QED
      BY <1>0, <1>1, <3>4, <3>5
  <2> QED
    BY <1>4, <2>1, <2>2, <2>3, <2>4, <2>5 DEF Handle
<1>5. CASE Restart
  <2>1. chan' = <<>> /\ sched' = Idle /\ ent' = NoEnt
    BY <1>5 DEF Restart
  <2>2. Messages' = {}
    BY <2>1 DEF Messages
  <2>3. Storing'
    BY <1>5, RestartMoves DEF Storing
  <2> QED
    BY <1>0, <1>1, <2>1, <2>2, <2>3 DEF SchedEmpty, NoNew
<1>6. ASSUME NEW due \in BOOLEAN, AssembleRuntime(due) PROVE InFlight'
  <2>1. sched' = Idle /\ ent' = NoEnt /\ UNCHANGED <<hs, row, last>> /\ \A q \in Reqs : hs[q].pc # "stored"
    BY <1>6 DEF AssembleRuntime, PartsInv, Down, Active, sVars, hVars
  <2>2. Scheduling' /\ Storing'
    BY <1>0, <2>1 DEF Scheduling, Storing
  <2>3. CASE chan' = <<>>
    <3>1. Messages' = {}
      BY <2>3 DEF Messages
    <3> QED
      BY <1>0, <2>2, <3>1 DEF Sent
  <2>4. CASE chan' # <<>>
    <3>1. /\ chan' = <<EntryMsg(1 + Made, row.ref)>> /\ row # NoRow /\ row.kind = "oauth" /\ row.ep
          /\ proxies' = 1 + Made
      BY <1>6, <2>4 DEF AssembleRuntime
    <3>2. Held /\ row.ref.g = last.g
      BY <3>1, OauthIsHeld
    <3> DEFINE m == EntryMsg(1 + Made, row.ref)
    <3>3. m.b = proxies' /\ m.ref.g = last.g
      BY <3>1, <3>2 DEF EntryMsg
    <3>4. chan' = <<m>>
      BY <3>1
    <3> HIDE DEF m
    <3>5. \A i \in Messages' : chan'[i] = m
      BY <3>4 DEF Messages
    <3>6. Sent'
      BY <2>1, <3>2, <3>3, <3>5 DEF Sent, Held
    <3> QED
      BY <1>0, <2>2, <3>6
  <2> QED
    BY <2>3, <2>4
<1>7. CASE ForgetServer
  <2>1. /\ chan # <<>> /\ chan' = Tail(chan) /\ sched' = Idle /\ ent' = NoEnt
        /\ UNCHANGED <<row, last, proxies>>
    BY <1>7 DEF ForgetServer
  <2>2. Storing'
    <3>1. PICK q \in Reqs : Goes(q, "lock")
      BY <1>7, ForgetMoves DEF PartsInv
    <3> QED
      BY <1>3, <2>1, <3>1 DEF Goes, Others
  <2> QED
    BY <1>0, <2>1, <2>2, SentStep DEF Scheduling
<1>8. CASE TakeEntry
  <2>1. /\ chan # <<>> /\ Head(chan).do = "new" /\ chan' = Tail(chan)
        /\ sched' = [do |-> "entry", b |-> Head(chan).b, ref |-> Head(chan).ref,
                     acc |-> tok[Head(chan).b]]
        /\ UNCHANGED <<row, last, proxies, tok, hs, ent>>
    BY <1>8 DEF TakeEntry, hVars
  <2>2. Held /\ Head(chan).b = proxies /\ Head(chan).ref.g = last.g
    BY <1>0, <2>1, ChanPopped DEF Sent, Messages
  <2>3. /\ sched'.do = "entry" /\ sched'.b = proxies /\ sched'.ref.g = last.g
        /\ sched'.acc = tok[proxies]
    BY <2>1, <2>2
  <2>4. Scheduling'
    BY <1>0, <2>1, <2>2, <2>3 DEF Scheduling, Held
  <2> QED
    BY <1>0, <1>3, <2>1, <2>4, SentStep
<1>9. CASE StoreEntry
  <2>1. /\ sched.do = "entry" /\ sched' = Idle
        /\ ent' = [g |-> sched.ref.g, b |-> sched.b, ref |-> sched.ref]
        /\ UNCHANGED <<chan, last, proxies, tok, hs>>
    BY <1>9 DEF StoreEntry
  <2>2. Held /\ Held'
    BY <1>0, <1>9, <2>1, TokensStored DEF Scheduling, Held
  <2>3. ent'.g = last.g /\ ent'.b = proxies
    BY <1>0, <2>1 DEF Scheduling
  <2>4. Scheduling'
    BY <1>0, <2>1, <2>2, <2>3 DEF Scheduling
  <2> QED
    BY <1>0, <1>3, <1>9, <2>1, <2>4, SentStep, TokensStored
<1>10. CASE StoreRefreshed
  <2>1. sched' = Idle /\ UNCHANGED <<chan, last, proxies, tok, hs, ent>>
    BY <1>10 DEF StoreRefreshed, hVars
  <2>2. Scheduling'
    BY <1>0, <1>10, <2>1, TokensStored DEF Scheduling, Held
  <2> QED
    BY <1>0, <1>3, <1>10, <2>1, <2>2, SentStep, TokensStored
<1>11. ASSUME NEW t \in tasks, JoinOk(t) PROVE InFlight'
  <2>1. /\ tok' = [tok EXCEPT ![ent.b] = t.acc] /\ ent # NoEnt /\ Current(t) /\ t.st = "ok"
        /\ sched' = [do |-> "token", acc |-> t.acc, ref |-> t.ref]
        /\ UNCHANGED <<chan, row, last, proxies, hs, ent>>
    BY <1>11 DEF JoinOk, Current, hVars
  <2>2. Held /\ ent.g = last.g /\ ent.b = proxies /\ ent.b \in Backends
    BY <1>0, <2>1 DEF Scheduling, TypeOK, EntryType
  <2>3. tok'[proxies] = t.acc /\ t.ref.g = last.g
    BY <2>1, <2>2 DEF PartsInv, Tracked, TypeOK
  <2>4. Scheduling'
    BY <1>0, <2>1, <2>2, <2>3 DEF Scheduling, Held
  <2> QED
    BY <1>0, <1>3, <2>1, <2>4, SentStep
<1>12. CASE RecWriteToken
  <2>1. SchedEmpty /\ UNCHANGED <<chan, sched, ent, last, proxies, hs>>
    BY <1>12, RecUndisturbed DEF Reconnects, RecWriteToken, sVars
  <2>2. SchedEmpty'
    BY <2>1 DEF SchedEmpty, NoNew, Messages
  <2> QED
    BY <1>0, <1>1, <1>3, <2>1, <2>2
<1>13. CASE RecStore
  <2>1. UNCHANGED <<chan, sched, ent, last, proxies, tok, hs>>
    BY <1>13 DEF RecStore, sVars
  <2> QED
    BY <1>0, <1>2, <1>3, <1>13, <2>1, TokensStored, SentStep
<1>14. CASE RecNotify
  <2>1. /\ Push(EntryMsg(rec.b, rec.ref)) /\ UNCHANGED <<row, sched, ent, last, proxies, tok, hs>>
    BY <1>14 DEF RecNotify, sVars
  <2>2. Held /\ rec.b = proxies /\ rec.ref.g = last.g
    BY <1>14, RecUndisturbed DEF Reconnects
  <2> QED
    BY <1>0, <1>2, <1>3, <2>1, <2>2, SentStep
<1>15. CASE UNCHANGED <<chan, row, sched, ent, last, proxies, tok, hs>>
  BY <1>0, <1>2, <1>3, <1>15, SentStep
<1>16. CASE \E t \in tasks : JoinDiscard(t) \/ JoinFailed(t) \/ Refresh(t)
  BY <1>15, <1>16 DEF JoinDiscard, JoinFailed, Refresh, RefreshAnswered, RefreshFails,
     RefreshCancelled, hVars
<1>17. CASE TimerFires \/ RecAnswered \/ RecFails \/ \E g \in Grants : Revoke(g)
  BY <1>15, <1>17 DEF TimerFires, RecAnswered, RecFails, Revoke, sVars, hVars
<1> QED
  BY <1>4, <1>5, <1>6, <1>7, <1>8, <1>9, <1>10, <1>11, <1>12, <1>13, <1>14, <1>16, <1>17, StepCases


\* The row and the backend follow the last mutation.
LEMMA RoutedStep ==
    ASSUME TypeOK, PartsInv, Routed, InFlight, Calm, Reconnects, Next, ~raced', ~late'
    PROVE  Routed'
<1>0. /\ row \in RowType \cup {NoRow} /\ proxies \in Backends \cup {0} /\ tok \in [Backends -> Creds]
      /\ 0 \notin Backends /\ \A k : BareRow(k) # NoRow
      /\ \A acc, ref : OauthRow(acc, ref) # NoRow
  <2>1. 0 \notin Backends
    BY BackendNumbers DEF Backends
  <2>2. \A k : BareRow(k) # NoRow
    BY DEF BareRow, NoRow
  <2>3. \A acc, ref : OauthRow(acc, ref) # NoRow
    BY DEF OauthRow, NoRow
  <2> QED
    BY <2>1, <2>2, <2>3 DEF TypeOK
<1>1. ASSUME UNCHANGED <<row, last, proxies, tok, up>>,
             \A q \in Reqs : hs'[q].pc = "connect" => hs'[q] = hs[q],
             \A q \in Reqs : hs[q].pc = "connect" => hs'[q].pc = "connect",
             sched.do = "token" => sched'.do = "token", rec.st = "wrote" => rec'.st = "wrote"
      PROVE  Routed'
  BY <1>1 DEF Routed, RowOf, Serves, Fits
<1>2. ASSUME RowOf(last, row)', up' => Serves(last, row)', \A q \in Reqs : hs'[q].pc # "connect"
      PROVE  Routed'
  BY <1>2 DEF Routed
<1>3. ASSUME NEW q \in Reqs, lock = q, hs[q].pc \in {"held", "connect"}
      PROVE  /\ \A p \in Reqs \ {q} : hs[p].pc # "connect"
             /\ SchedEmpty
             /\ up => NewBackend \in Backends
  BY <1>3, MutatesAlone, BackendNumbers DEF Holding
<1>4. ASSUME NEW q \in Reqs, Handle(q) PROVE Routed'
  <2>1. ASSUME NEW op \in Ops, Begin(q, op) PROVE Routed'
    <3>1. hs[q].pc = "new" /\ hs'[q].pc = "cancel" /\ \A p \in Reqs \ {q} : hs'[p] = hs[p]
      BY <2>1, BeginMoves DEF Goes, Others
    <3>2. UNCHANGED <<row, last, proxies, tok, up, sched>> /\ (rec' = rec \/ rec' = CancelRec(rec))
      BY <2>1 DEF Begin, sVars, hVars
    <3> QED
      BY <1>1, <3>1, <3>2, CancelRecIs
  <2>2. CASE SetTokenNotify(q)
    <3>1. hs[q].pc = "stored" /\ hs'[q].pc = "probe" /\ Overtakes(q)
      BY <2>2, NotifyMoves
    <3>2. UNCHANGED <<row, last, proxies, tok, up, sched>> /\ rec' = CancelRec(rec)
      BY <2>2 DEF SetTokenNotify, sVars, hVars
    <3> QED
      BY <1>1, <3>1, <3>2, CancelRecIs DEF Overtakes
  <2>3. CASE TakeLock(q) \/ SetTokenProbe(q)
    <3>1. \E l \in {"held", "done"} : Goes(q, l) /\ hs[q].pc # "connect"
      BY <2>3, HandlerMoves
    <3>2. UNCHANGED <<row, last, proxies, tok, up, sched, rec>>
      BY <2>3 DEF TakeLock, SetTokenProbe, sVars, hVars
    <3> QED
      BY <1>1, <3>1, <3>2 DEF Goes, Others
  <2>4. CASE SetTokenStore(q)
    <3>1. /\ up /\ lock = q /\ hs[q].pc = "held" /\ hs[q].op = "token"
          /\ \E l \in {"done", "stored"} : Goes(q, l)
      BY <2>4, StoreMoves
    <3>2. \A p \in Reqs : hs[p].pc # "connect" /\ hs'[p].pc # "connect"
      BY <1>3, <3>1 DEF Goes, Others
    <3>3. hs[q].b = proxies
      <4>1. raced' = (raced \/ hs[q].b # proxies)
        BY <2>4 DEF SetTokenStore
      <4> QED
        BY <4>1
    <3>4. hs[q].b # 0
      BY <3>1 DEF PartsInv, SetTokens, Waits
    <3>5. row # NoRow /\ proxies \in Backends
      BY <1>0, <3>1, <3>2, <3>3, <3>4 DEF Routed, Serves
    <3> DEFINE g == prov.grants + 1
               t == [g |-> g, k |-> 0]
    <3>6. /\ row' = OauthRow(t, t) /\ last' = [op |-> "token", g |-> g]
          /\ tok' = [tok EXCEPT ![proxies] = t] /\ UNCHANGED proxies
      BY <2>4, <3>3, <3>5 DEF SetTokenStore, DbSetOauth
    <3>7. t.g = g
      OBVIOUS
    <3> HIDE DEF g, t
    <3>8. tok'[proxies'] = t /\ row'.acc = t /\ row'.ref = t /\ row'.kind = "oauth" /\ row'.ep
      BY <1>0, <3>5, <3>6 DEF OauthRow
    <3>9. RowOf(last, row)' /\ Serves(last, row)'
      BY <1>0, <3>5, <3>6, <3>7, <3>8 DEF RowOf, Serves, Fits
    <3> QED
      BY <1>2, <3>2, <3>9
  <2>5. CASE AddOauth(q) \/ AddPublish(q) \/ Remove(q)
    <3>1. /\ up /\ lock = q /\ hs[q].pc \in {"held", "connect"} /\ Goes(q, "done")
          /\ AddPublish(q) => hs[q].pc = "connect"
      BY <2>5, HandlerMoves
    <3>2. \A p \in Reqs : hs'[p].pc # "connect"
      BY <1>3, <3>1 DEF Goes, Others
    <3>3. NewBackend \in Backends
      BY <1>3, <3>1
    <3>4. CASE AddOauth(q)
      BY <1>0, <1>2, <3>2, <3>3, <3>4 DEF AddOauth, RowOf, Serves, Granting
    <3>5. CASE AddPublish(q)
      <4>1. last.op = "addPlain" /\ row = BareRow("plain")
        BY <3>1, <3>5 DEF Routed, RowOf
      <4> QED
        BY <1>0, <1>2, <3>2, <3>3, <3>5, <4>1 DEF AddPublish, RowOf, Serves, Granting, hVars
    <3>6. CASE Remove(q)
      BY <1>0, <1>2, <3>2, <3>6 DEF Remove, RowOf, Serves, Granting
    <3> QED
      BY <2>5, <3>4, <3>5, <3>6
  <2>6. CASE SetHeaders(q)
    <3>1. up /\ lock = q /\ hs[q].pc = "held" /\ Goes(q, "done")
      BY <2>6, HandlerMoves
    <3>2. CASE proxies = 0 \/ row = NoRow
      <4>1. UNCHANGED <<row, last, proxies, tok, up, sched, rec>>
        BY <2>6, <3>2 DEF SetHeaders, sVars
      <4> QED
        BY <1>1, <3>1, <4>1 DEF Goes, Others
    <3>3. CASE ~(proxies = 0 \/ row = NoRow)
      <4>1. NewBackend \in Backends /\ \A p \in Reqs : hs'[p].pc # "connect"
        BY <1>3, <3>1 DEF Goes, Others
      <4>2. row' = BareRow("headers") /\ last' = [op |-> "headers", g |-> 0] /\ proxies' = NewBackend
        BY <2>6, <3>3 DEF SetHeaders
      <4> QED
        BY <1>0, <1>2, <4>1, <4>2 DEF RowOf, Serves, Granting
    <3> QED
      BY <3>2, <3>3
  <2>7. CASE AddReplace(q)
    <3>1. /\ up /\ lock = q /\ hs[q].pc = "held" /\ Goes(q, "connect")
          /\ hs'[q].prev = row /\ hs'[q].prevLast = last
      BY <2>7, HandlerMoves
    <3>2. \A p \in Reqs : hs[p].pc # "connect" /\ (p # q => hs'[p].pc # "connect")
      BY <1>3, <3>1 DEF Goes, Others
    <3>3. /\ row' = BareRow("plain") /\ last' = [op |-> "addPlain", g |-> 0]
          /\ rec' = CancelRec(rec) /\ UNCHANGED <<proxies, tok, sched>>
      BY <2>7 DEF AddReplace, sVars
    <3>4. RowOf(last, row)'
      BY <3>3 DEF RowOf
    <3>5. hs'[q].pc = "connect" /\ last'.op = "addPlain"
      BY <3>1, <3>3 DEF Goes
    <3>6. RowOf(hs[q].prevLast, hs[q].prev)'
      BY <3>1 DEF RowOf, Routed, Fits
    <3>7. Serves(last, row)
      BY <3>1, <3>2 DEF Routed
    <3>8. Serves(hs[q].prevLast, hs[q].prev)'
      BY <3>1, <3>3, <3>7, CancelRecIs DEF Serves
    <3> QED
      BY <3>2, <3>4, <3>5, <3>6, <3>8 DEF Routed
  <2>8. CASE AddRollback(q)
    <3>1. lock = q /\ hs[q].pc = "connect" /\ Goes(q, "done")
      BY <2>8, HandlerMoves
    <3>2. \A p \in Reqs : hs'[p].pc # "connect"
      BY <1>3, <3>1 DEF Goes, Others
    <3>3. /\ row' = hs[q].prev /\ last' = hs[q].prevLast
          /\ UNCHANGED <<proxies, tok, sched, rec>>
      BY <2>8 DEF AddRollback, sVars
    <3>4. RowOf(hs[q].prevLast, hs[q].prev) /\ Serves(hs[q].prevLast, hs[q].prev)
      BY <3>1 DEF Routed
    <3>5. RowOf(last, row)'
      BY <3>3, <3>4 DEF RowOf, Fits
    <3>6. Serves(last, row)'
      BY <3>3, <3>4 DEF Serves
    <3> QED
      BY <1>2, <3>2, <3>5, <3>6
  <2> QED
    BY <1>4, <2>1, <2>2, <2>3, <2>4, <2>5, <2>6, <2>7, <2>8 DEF Handle
<1>5. CASE Restart
  <2>1. ~up' /\ UNCHANGED <<row, last>> /\ \A q \in Reqs : hs'[q].pc # "connect"
    BY <1>5, RestartMoves DEF Restart
  <2>2. RowOf(last, row)'
    BY <2>1 DEF Routed, RowOf, Fits
  <2> QED
    BY <1>2, <2>1, <2>2
<1>6. ASSUME NEW due \in BOOLEAN, AssembleRuntime(due) PROVE Routed'
  <2>1. /\ UNCHANGED <<row, last, hs>> /\ \A q \in Reqs : hs'[q].pc # "connect"
        /\ proxies' = IF row = NoRow THEN 0 ELSE 1 + Made
        /\ row # NoRow => tok' = [tok EXCEPT ![1 + Made] = row.acc]
    BY <1>6 DEF AssembleRuntime, PartsInv, Down, Active, sVars, hVars
  <2>2. RowOf(last, row)'
    BY <2>1 DEF Routed, RowOf, Fits
  <2>3. 1 + Made \in Backends
    BY BackendNumbers
  <2>4. row # NoRow => proxies' = 1 + Made /\ tok'[1 + Made] = row.acc
    BY <1>0, <2>1, <2>3
  <2>5. Serves(last, row)'
    BY <1>0, <2>1, <2>2, <2>3, <2>4 DEF Serves, RowOf, Fits, Granting
  <2> QED
    BY <1>2, <2>1, <2>2, <2>5
<1>7. CASE ForgetServer
  <2>1. PICK q \in Reqs : hs[q].pc = "cancel" /\ Goes(q, "lock")
    BY <1>7, ForgetMoves DEF PartsInv
  <2>2. UNCHANGED <<row, last, proxies, tok, up, sched, rec>>
    BY <1>7 DEF ForgetServer
  <2> QED
    BY <1>1, <2>1, <2>2 DEF Goes, Others
<1>8. ASSUME lock = Free \/ ~SchedEmpty
      PROVE  /\ \A q \in Reqs : hs[q].pc # "connect"
             /\ up => Serves(last, row)
  <2>1. Free \notin Reqs
    BY McpTokensAssumption DEF Free
  <2> QED
    BY <1>8, <2>1 DEF PartsInv, Locked, Holding, Calm, Alone, Routed
<1>9. CASE StoreEntry
  <2>1. /\ sched.do = "entry" /\ lock = Free /\ up /\ row' = DbSetOauth(row, sched.acc, sched.ref)
        /\ UNCHANGED <<last, proxies, tok, hs, rec>>
    BY <1>9 DEF StoreEntry
  <2>2. Held /\ sched.ref.g = last.g /\ sched.acc = tok[proxies]
    BY <2>1 DEF InFlight
  <2>3. Serves(last, row) /\ \A q \in Reqs : hs'[q].pc # "connect"
    BY <1>8, <2>1
  <2>4. row' = OauthRow(sched.acc, sched.ref) /\ tok[proxies].g = last.g
    BY <2>1, <2>2, <2>3 DEF Held, Serves, DbSetOauth
  <2>5. row'.kind = "oauth" /\ row'.ep /\ row'.acc = sched.acc /\ row'.ref = sched.ref
    BY <2>4 DEF OauthRow
  <2>6. RowOf(last, row)'
    BY <1>0, <2>1, <2>2, <2>4, <2>5 DEF RowOf, Routed, Held, Fits, Granting
  <2>7. Serves(last, row)'
    BY <1>0, <2>1, <2>2, <2>3, <2>4, <2>5 DEF Serves, Held
  <2> QED
    BY <1>2, <2>3, <2>6, <2>7
<1>10. CASE StoreRefreshed
  <2>1. /\ sched.do = "token" /\ lock = Free /\ up /\ row' = DbUpdateToken(row, sched.acc, sched.ref)
        /\ UNCHANGED <<last, proxies, tok, hs, rec>>
    BY <1>10 DEF StoreRefreshed, hVars
  <2>2. Held /\ sched.ref.g = last.g /\ sched.acc = tok[proxies]
    BY <2>1 DEF InFlight
  <2>3. Serves(last, row) /\ \A q \in Reqs : hs'[q].pc # "connect"
    BY <1>8, <2>1
  <2>4. sched.acc \in Creds /\ sched.ref \in Creds
    BY <2>1, BareTypes DEF TypeOK, SchedType, Idle
  <2>5. /\ row' # NoRow /\ row'.kind = row.kind /\ row'.ep = row.ep /\ row'.acc = sched.acc
        /\ row'.ref = sched.ref
    BY <1>0, <2>1, <2>2, <2>4, DbTypes DEF Held
  <2>6. tok[proxies].g = last.g
    BY <2>2, <2>3 DEF Held, Serves
  <2>7. RowOf(last, row)'
    BY <2>1, <2>2, <2>5, <2>6 DEF RowOf, Routed, Held, Fits, Granting
  <2>8. Serves(last, row)'
    BY <2>1, <2>2, <2>3, <2>5, <2>6 DEF Serves, Held
  <2> QED
    BY <1>2, <2>3, <2>7, <2>8
<1>11. ASSUME NEW t \in tasks, JoinOk(t) PROVE Routed'
  <2>1. /\ up /\ ent # NoEnt /\ Current(t) /\ t.st = "ok" /\ tok' = [tok EXCEPT ![ent.b] = t.acc]
        /\ sched'.do = "token" /\ UNCHANGED <<row, last, proxies, hs>>
    BY <1>11 DEF JoinOk, Current, hVars
  <2>2. Held /\ ent.g = last.g /\ ent.b = proxies
    BY <2>1 DEF InFlight
  <2>3. t.acc.g = last.g
    BY <2>1, <2>2 DEF PartsInv, Tracked
  <2>4. Serves(last, row) /\ \A q \in Reqs : hs'[q].pc # "connect"
    BY <1>8, <2>1 DEF SchedEmpty
  <2>5. proxies \in Backends
    BY <1>0, <2>2, <2>4 DEF Serves, Held
  <2>6. RowOf(last, row)'
    BY <2>1 DEF Routed, RowOf, Fits
  <2>7. tok'[proxies] = t.acc
    BY <1>0, <2>1, <2>2, <2>5
  <2>8. Serves(last, row)'
    BY <2>1, <2>3, <2>4, <2>7 DEF Serves
  <2> QED
    BY <1>2, <2>4, <2>6, <2>8
<1>12. CASE RecWriteToken \/ RecStore
  <2>1. /\ RecLive /\ ~Stored /\ UNCHANGED hs /\ up
        /\ \A q \in Reqs : hs[q].pc # "connect" /\ hs'[q].pc # "connect"
    BY <1>12, RecUndisturbed
  <2>2. Held /\ rec.b = proxies /\ rec.ref.g = last.g /\ SchedEmpty /\ rec.acc.g = last.g
    BY <1>12, <2>1 DEF Reconnects, RecWriteToken, RecStore
  <2>3. Serves(last, row) /\ proxies \in Backends
    BY <1>0, <2>1, <2>2 DEF Routed, Serves, Held
  <2>4. CASE RecWriteToken
    <3>1. /\ tok' = [tok EXCEPT ![proxies] = rec.acc] /\ rec' = [rec EXCEPT !.st = "wrote"]
          /\ UNCHANGED <<row, last, proxies>>
      BY <2>2, <2>4 DEF RecWriteToken
    <3>2. tok'[proxies] = rec.acc /\ rec'.st = "wrote"
      <4>1. rec \in ReconnectType
        BY <2>4, RecUndisturbed
      <4> QED
        BY <1>0, <2>3, <3>1, <4>1 DEF ReconnectType
    <3>3. RowOf(last, row)'
      BY <3>1 DEF Routed, RowOf, Fits
    <3>4. Serves(last, row)'
      BY <2>2, <2>3, <3>1, <3>2 DEF Serves
    <3> QED
      BY <1>2, <2>1, <3>3, <3>4
  <2>5. CASE RecStore
    <3>1. /\ row' = DbUpdateToken(row, rec.acc, rec.ref) /\ UNCHANGED <<last, proxies, tok, sched>>
          /\ rec.st = "wrote"
      BY <2>5 DEF RecStore, sVars
    <3>2. tok[proxies] = rec.acc
      BY <2>1, <3>1 DEF Reconnects
    <3>3. rec.acc \in Creds /\ rec.ref \in Creds
      BY <2>5, RecUndisturbed, BareTypes DEF ReconnectType
    <3>4. /\ row' # NoRow /\ row'.kind = row.kind /\ row'.ep = row.ep /\ row'.acc = rec.acc
          /\ row'.ref = rec.ref
      <4>1. row # NoRow /\ row \in RowType \cup {NoRow}
        BY <1>0, <2>2 DEF Held
      <4> QED
        BY <3>1, <3>3, <4>1, DbTypes
    <3>5. RowOf(last, row)'
      BY <2>2, <3>1, <3>4 DEF RowOf, Routed, Held, Fits, Granting
    <3>6. Serves(last, row)'
      BY <2>2, <2>3, <3>1, <3>2, <3>4 DEF Serves, Held
    <3> QED
      BY <1>2, <2>1, <3>5, <3>6
  <2> QED
    BY <1>12, <2>4, <2>5
<1>13. CASE TakeEntry
  <2>1. UNCHANGED <<row, last, proxies, tok, up, rec, hs>> /\ sched.do # "token"
    BY <1>13 DEF TakeEntry, hVars, Idle
  <2> QED
    BY <1>1, <2>1
<1>14. CASE RecAnswered \/ RecFails \/ RecNotify
  <2>1. UNCHANGED <<row, last, proxies, tok, up, sched, hs>> /\ rec.st # "wrote"
    BY <1>14 DEF RecAnswered, RecFails, RecNotify, sVars
  <2> QED
    BY <1>1, <2>1
<1>15. CASE UNCHANGED <<row, last, proxies, tok, up, sched, rec, hs>>
  BY <1>1, <1>15
<1>16. CASE \E t \in tasks : JoinDiscard(t) \/ JoinFailed(t) \/ Refresh(t)
  BY <1>15, <1>16 DEF JoinDiscard, JoinFailed, Refresh, RefreshAnswered, RefreshFails,
     RefreshCancelled, hVars
<1>17. CASE TimerFires \/ \E g \in Grants : Revoke(g)
  BY <1>15, <1>17 DEF TimerFires, Revoke, sVars, hVars
<1> QED
  BY <1>4, <1>5, <1>6, <1>7, <1>9, <1>10, <1>11, <1>12, <1>13, <1>14, <1>16, <1>17, StepCases

\* A set-token that nobody overtook finds the row of the backend it read.
LEMMA StoreFinds ==
    ASSUME TypeOK, PartsInv, Routed, Calm, NEW q \in Reqs, SetTokenStore(q), ~raced'
    PROVE  row # NoRow /\ Goes(q, "stored")
<1>1. up /\ lock = q /\ hs[q].pc = "held" /\ hs[q].op = "token"
  BY StoreMoves
<1>2. \A p \in Reqs : hs[p].pc # "connect"
  BY <1>1, MutatesAlone DEF Holding
<1>3. raced' = (raced \/ hs[q].b # proxies)
  BY DEF SetTokenStore
<1>4. hs[q].b # 0
  BY <1>1 DEF PartsInv, SetTokens, Waits
<1>5. row # NoRow
  BY <1>1, <1>2, <1>3, <1>4 DEF Routed, Serves
<1> QED
  BY <1>5, StoreMoves

\* A reconnect task that was not cancelled has the scheduler to itself.
LEMMA RecAlone ==
    ASSUME Calm, Reconnects, RecLive
    PROVE  SchedEmpty
  BY DEF Calm, Reconnects, Stored, Alone

\* A row that a grant is for has the endpoint data.
LEMMA HeldIs ==
    ASSUME Routed, Held
    PROVE  row # NoRow /\ row.kind = "oauth" /\ row.ep /\ row.ref.g = last.g
  BY DEF Routed, RowOf, Fits, Held, Granting

\* The reconnect task is cancelled by every request that changes the server.
LEMMA ReconnectsStep ==
    ASSUME TypeOK, PartsInv, Routed, Calm, Reconnects, Next, ~raced', ~late'
    PROVE  Reconnects'
<1>1. ~RecLive' => Reconnects'
  BY DEF Reconnects
<1>2. ASSUME UNCHANGED <<rec, row, last, proxies, tok>>, SchedEmpty => SchedEmpty', Stored => Stored',
             \A q \in Reqs : hs'[q].pc \in {"cancel", "lock", "held"} =>
                 \/ hs[q].pc \in {"cancel", "lock", "held"} /\ hs'[q].op = hs[q].op
                 \/ hs'[q].op \notin {"remove", "headers"},
             \A q \in Reqs : hs'[q].pc \in {"probe", "connect"} => hs'[q] = hs[q]
      PROVE  Reconnects'
  <2>1. RecLive' = RecLive /\ Held' = Held
    BY <1>2 DEF RecLive, Held
  <2> QED
    BY <1>2, <2>1 DEF Reconnects
<1>3. UNCHANGED <<chan, sched, ent>> => (SchedEmpty => SchedEmpty')
  BY DEF SchedEmpty, NoNew, Messages
<1>4. UNCHANGED rec => RecLive' = RecLive
  BY DEF RecLive
<1>5. ASSUME NEW q \in Reqs, Handle(q) PROVE Reconnects'
  <2>1. ASSUME NEW op \in Ops, Begin(q, op) PROVE Reconnects'
    <3>1. hs[q].pc = "new" /\ hs'[q].pc = "cancel" /\ hs'[q].op = op /\ Others(q)
      BY <2>1, BeginMoves DEF Goes
    <3>2. /\ Push([do |-> "remove", q |-> q]) /\ UNCHANGED <<row, last, proxies, tok, sched, ent>>
          /\ rec' = IF op \in {"remove", "headers"} THEN CancelRec(rec) ELSE rec
      BY <2>1 DEF Begin, sVars, hVars
    <3>3. CASE op \in {"remove", "headers"}
      BY <1>1, <3>2, <3>3, CancelRecIs
    <3>4. CASE op \notin {"remove", "headers"}
      <4> DEFINE m == [do |-> "remove", q |-> q]
                 n == Len(chan) + 1
      <4>1. m.do # "new" /\ Push(m)
        BY <3>2
      <4> HIDE DEF m
      <4>2. /\ Messages' = 1 .. n /\ chan'[n] = m /\ \A i \in Messages : chan'[i] = chan[i]
            /\ \A i \in 1 .. n : i \in Messages \/ i = n
        BY <4>1, ChanPushed DEF Messages
      <4> HIDE DEF n
      <4>3. SchedEmpty => SchedEmpty'
        BY <3>2, <4>1, <4>2 DEF SchedEmpty, NoNew
      <4>4. Stored => Stored'
        BY <3>1 DEF Stored, Others
      <4> QED
        BY <1>2, <3>1, <3>2, <3>4, <4>3, <4>4 DEF Others
    <3> QED
      BY <3>3, <3>4
  <2>2. CASE TakeLock(q)
    <3>1. hs[q].pc = "lock" /\ Goes(q, "held") /\ Stays(q)
      BY <2>2, HandlerMoves
    <3>2. UNCHANGED <<rec, row, last, proxies, tok, chan, sched, ent>>
      BY <2>2 DEF TakeLock, sVars
    <3>3. Stored => Stored'
      BY <3>1 DEF Stored, Goes, Others
    <3> QED
      BY <1>2, <1>3, <3>1, <3>2, <3>3 DEF Goes, Others, Stays
  <2>3. CASE SetTokenStore(q)
    <3>1. hs[q].pc = "held" /\ Goes(q, "stored")
      BY <2>3, StoreFinds, StoreMoves
    <3>2. UNCHANGED rec
      BY <2>3 DEF SetTokenStore
    <3>3. Stored'
      BY <3>1 DEF Stored, Goes
    <3> QED
      BY <1>4, <3>1, <3>2, <3>3 DEF Reconnects, Goes, Others
  <2>4. CASE SetTokenNotify(q) \/ AddOauth(q) \/ AddReplace(q)
    <3>1. rec' = CancelRec(rec)
      BY <2>4 DEF SetTokenNotify, AddOauth, AddReplace
    <3> QED
      BY <1>1, <3>1, CancelRecIs
  <2>5. CASE SetTokenProbe(q) \/ AddPublish(q) \/ AddRollback(q) \/ Remove(q) \/ SetHeaders(q)
    <3>1. \/ hs[q].pc \in {"probe", "connect"}
          \/ hs[q].pc = "held" /\ hs[q].op \in {"remove", "headers"}
      BY <2>5, HandlerMoves
    <3>2. ~RecLive
      BY <3>1 DEF Reconnects
    <3>3. UNCHANGED rec
      BY <2>5 DEF SetTokenProbe, AddPublish, AddRollback, Remove, SetHeaders
    <3> QED
      BY <1>1, <1>4, <3>2, <3>3
  <2> QED
    BY <1>5, <2>1, <2>2, <2>3, <2>4, <2>5 DEF Handle
<1>6. CASE Restart \/ RecFails \/ RecNotify
  BY <1>1, <1>6 DEF Restart, RecFails, RecNotify, RecLive, Off
<1>7. ASSUME NEW due \in BOOLEAN, AssembleRuntime(due) PROVE Reconnects'
  <2>1. /\ \A q \in Reqs : hs'[q].pc \in {"new", "done"}
        /\ sched' = Idle /\ ent' = NoEnt /\ UNCHANGED <<row, last>>
    BY <1>7 DEF AssembleRuntime, PartsInv, Down, Active, sVars, hVars
  <2>2. CASE rec' = Off
    BY <1>1, <2>2 DEF RecLive, Off
  <2>3. CASE rec' # Off
    <3>1. /\ row # NoRow /\ row.kind = "oauth" /\ row.ep /\ due
          /\ rec' = [st |-> "run", cancelled |-> FALSE, b |-> 1 + Made,
                     ref |-> row.ref, acc |-> None]
          /\ proxies' = 1 + Made /\ chan' = <<>>
      BY <1>7, <2>3 DEF AssembleRuntime
    <3>2. rec'.st = "run" /\ rec'.b = proxies' /\ rec'.ref = row.ref
      BY <3>1
    <3>3. Held /\ row.ref.g = last.g
      BY <3>1, OauthIsHeld
    <3>4. Messages' = {}
      BY <3>1 DEF Messages
    <3>5. SchedEmpty'
      BY <2>1, <3>4 DEF SchedEmpty, NoNew
    <3> QED
      BY <2>1, <3>2, <3>3, <3>5 DEF Reconnects, Held
  <2> QED
    BY <2>2, <2>3
<1>8. CASE ForgetServer
  <2>1. PICK q \in Reqs : hs[q].pc = "cancel" /\ Goes(q, "lock") /\ Stays(q)
    BY <1>8, ForgetMoves DEF PartsInv
  <2>2. /\ chan # <<>> /\ chan' = Tail(chan) /\ ent' = NoEnt
        /\ UNCHANGED <<rec, row, last, proxies, tok, sched>>
    BY <1>8 DEF ForgetServer
  <2>3. NoNew => NoNew'
    <3>1. /\ Messages' = 1 .. Len(chan) - 1
          /\ \A i \in 1 .. Len(chan) - 1 : chan'[i] = chan[i + 1] /\ i + 1 \in Messages
      BY <2>2, ChanPopped DEF Messages
    <3> QED
      BY <3>1 DEF NoNew
  <2>4. SchedEmpty => SchedEmpty'
    BY <2>2, <2>3 DEF SchedEmpty
  <2>5. Stored => Stored'
    BY <2>1 DEF Stored, Goes, Others
  <2> QED
    BY <1>2, <2>1, <2>2, <2>4, <2>5 DEF Goes, Others, Stays
<1>9. CASE TakeEntry \/ StoreEntry \/ StoreRefreshed \/ \E t \in tasks : JoinOk(t)
  <2>1. UNCHANGED rec /\ ~SchedEmpty
    <3>1. CASE TakeEntry
      <4>1. chan # <<>> /\ Head(chan).do = "new" /\ chan' = Tail(chan) /\ UNCHANGED rec
        BY <3>1 DEF TakeEntry
      <4> QED
        BY <4>1, ChanPopped DEF SchedEmpty, NoNew, Messages
    <3>2. CASE StoreEntry \/ StoreRefreshed \/ \E t \in tasks : JoinOk(t)
      BY <3>2 DEF StoreEntry, StoreRefreshed, JoinOk, Current, SchedEmpty, Idle
    <3> QED
      BY <1>9, <3>1, <3>2
  <2> QED
    BY <1>1, <1>4, <2>1, RecAlone
<1>10. CASE RecAnswered
  <2>1. CASE ~Live(rec.ref)
    BY <1>1, <1>10, <2>1 DEF RecAnswered, RecLive, Off
  <2>2. CASE Live(rec.ref)
    <3>1. /\ rec' = [rec EXCEPT !.st = "got", !.ref = NextRef(rec.ref), !.acc = Issued(rec.ref)]
          /\ Answers(rec.ref) /\ Charge(rec.ref) /\ rec.st = "run"
          /\ UNCHANGED <<row, last, proxies, tok, chan, sched, ent, hs>>
      BY <1>10, <2>2 DEF RecAnswered, sVars
    <3>2. rec \in ReconnectType
      BY <3>1 DEF TypeOK, Off
    <3>3. rec.ref \in Tokens
      BY <3>2 DEF ReconnectType
    <3>4. NextRef(rec.ref).g = rec.ref.g /\ Issued(rec.ref).g = rec.ref.g
      BY <2>2, <3>1, <3>3, Answered DEF PartsInv
    <3>5. /\ rec'.st = "got" /\ rec'.ref.g = rec.ref.g /\ rec'.acc.g = rec.ref.g /\ rec'.b = rec.b
          /\ rec'.cancelled = rec.cancelled
      BY <3>1, <3>2, <3>4 DEF ReconnectType
    <3>6. RecLive' = RecLive /\ Stored' = Stored /\ Held' = Held
      BY <3>1, <3>5 DEF RecLive, Stored, Held
    <3> QED
      BY <1>3, <3>1, <3>5, <3>6 DEF Reconnects
  <2> QED
    BY <2>1, <2>2
<1>11. CASE RecWriteToken \/ RecStore
  <2>1. /\ RecLive /\ ~Stored /\ UNCHANGED hs /\ rec \in ReconnectType
        /\ \A q \in Reqs : hs[q].pc \in {"new", "done"}
    BY <1>11, RecUndisturbed
  <2>2. Held /\ rec.b = proxies /\ rec.ref.g = last.g /\ SchedEmpty /\ rec.acc.g = last.g
    BY <1>11, <2>1 DEF Reconnects, RecWriteToken, RecStore
  <2>3. UNCHANGED <<last, proxies, chan, sched, ent>>
    BY <1>11 DEF RecWriteToken, RecStore, sVars
  <2>4. SchedEmpty'
    BY <1>3, <2>2, <2>3
  <2>5. CASE RecWriteToken
    <3>1. /\ rec' = [rec EXCEPT !.st = "wrote"] /\ tok' = [tok EXCEPT ![rec.b] = rec.acc]
          /\ UNCHANGED row
      BY <2>5 DEF RecWriteToken
    <3>2. /\ rec'.st = "wrote" /\ rec'.b = rec.b /\ rec'.ref = rec.ref /\ rec'.acc = rec.acc
          /\ rec.b \in Backends
      BY <2>1, <3>1 DEF ReconnectType
    <3>3. tok'[rec.b] = rec.acc
      BY <3>1, <3>2 DEF TypeOK
    <3>4. Held'
      BY <2>2, <2>3, <3>1 DEF Held
    <3> QED
      BY <2>1, <2>2, <2>3, <2>4, <3>2, <3>3, <3>4 DEF Reconnects
  <2>6. CASE RecStore
    <3>1. rec' = [rec EXCEPT !.st = "saved"]
      BY <2>2, <2>6 DEF RecStore, Held
    <3>2. /\ rec'.st = "saved" /\ rec'.b = rec.b /\ rec'.ref = rec.ref /\ rec'.acc = rec.acc
      BY <2>1, <3>1 DEF ReconnectType
    <3>3. Held'
      BY <2>2, <2>3, <2>6, TokensStored DEF Held
    <3> QED
      BY <2>1, <2>2, <2>3, <2>4, <3>2, <3>3 DEF Reconnects
  <2> QED
    BY <1>11, <2>5, <2>6
<1>12. CASE UNCHANGED <<rec, row, last, proxies, tok, chan, sched, ent, hs>>
  BY <1>2, <1>3, <1>12 DEF Stored
<1>13. CASE \E t \in tasks : JoinDiscard(t) \/ JoinFailed(t) \/ Refresh(t)
  BY <1>12, <1>13 DEF JoinDiscard, JoinFailed, Refresh, RefreshAnswered, RefreshFails,
     RefreshCancelled, hVars
<1>14. CASE TimerFires \/ \E g \in Grants : Revoke(g)
  BY <1>12, <1>14 DEF TimerFires, Revoke, sVars, hVars
<1> QED
  BY <1>5, <1>6, <1>7, <1>8, <1>9, <1>10, <1>11, <1>13, <1>14, StepCases

\* Whoever takes away what would refresh the grant leaves a request, or says why.
LEMMA ScheduledStep ==
    ASSUME TypeOK, PartsInv, Routed, Calm, Reconnects, Scheduled, Next, ~raced', ~late'
    PROVE  Scheduled'
<1> SUFFICES ASSUME up', Held', lost' = {}, ~Mutating' PROVE Pending'
  BY DEF Scheduled
<1>1. (\E i \in Messages : chan[i].do = "new") /\ UNCHANGED chan => Pending'
  BY DEF Pending, Messages
<1>2. ASSUME NEW m, Push(m), m.do = "new" PROVE Pending'
  <2> DEFINE n == Len(chan) + 1
  <2>1. Messages' = 1 .. n /\ chan'[n] = m /\ n \in Nat /\ n >= 1
    BY <1>2, ChanPushed DEF Messages
  <2> HIDE DEF n
  <2>2. n \in Messages' /\ chan'[n].do = "new"
    BY <1>2, <2>1
  <2> QED
    BY <2>2 DEF Pending
<1>3. sched'.do = "entry" => Pending'
  BY DEF Pending
<1>4. ent' # NoEnt /\ timer' => Pending'
  BY DEF Pending
<1>5. RecLive' => Pending'
  BY DEF Pending
<1>6. ASSUME UNCHANGED <<up, row, last, lost>>,
             \A q \in Reqs : hs'[q] = hs[q] \/ hs[q].pc = "probe"
      PROVE  Pending
  <2>1. up /\ Held /\ lost = {}
    BY <1>6 DEF Held
  <2>2. ~Mutating
    BY <1>6 DEF Mutating
  <2> QED
    BY <2>1, <2>2 DEF Scheduled
<1>7. ASSUME Pending, UNCHANGED <<chan, sched, ent, timer, gen, rec>>,
             ent # NoEnt => \A t \in tasks : t.gen = gen => \E u \in tasks' : u.gen = gen
      PROVE  Pending'
  BY <1>1, <1>7 DEF Pending, RecLive
<1>8. ASSUME NEW q \in Reqs, Handle(q) PROVE Pending'
  <2>1. ASSUME NEW op \in Ops, Begin(q, op) PROVE FALSE
    BY <2>1, BeginMoves DEF Mutating, Goes
  <2>2. ~TakeLock(q) /\ ~AddReplace(q)
    BY HandlerMoves DEF Mutating, Goes
  <2>3. ~SetTokenStore(q)
    BY StoreFinds DEF Mutating, Goes
  <2>4. CASE SetTokenNotify(q)
    <3>1. Push(EntryMsg(hs[q].b, row.ref)) /\ EntryMsg(hs[q].b, row.ref).do = "new"
      BY <2>4 DEF SetTokenNotify, EntryMsg
    <3> QED
      BY <1>2, <3>1
  <2>5. CASE SetTokenProbe(q)
    <3>1. hs[q].pc = "probe" /\ Goes(q, "done")
      BY <2>5, HandlerMoves
    <3>2. UNCHANGED <<up, row, last, lost, chan, sched, ent, timer, gen, tasks, rec>>
      BY <2>5 DEF SetTokenProbe, sVars, hVars
    <3> QED
      BY <1>6, <1>7, <3>1, <3>2 DEF Goes, Others
  <2>6. ~AddOauth(q) /\ ~Remove(q)
    <3>1. last'.op \in Granting /\ row' # NoRow
      BY DEF Held
    <3>2. AddOauth(q) => last' = [op |-> "addOauth", g |-> 0]
      BY DEF AddOauth
    <3>3. Remove(q) => row' = NoRow
      BY DEF Remove
    <3> QED
      BY <3>1, <3>2, <3>3 DEF Granting
  <2>7. ~AddPublish(q)
    <3>1. AddPublish(q) => last.op = "addPlain" /\ UNCHANGED last
      BY DEF AddPublish, Routed, hVars
    <3> QED
      BY <3>1 DEF Held, Granting
  <2>8. ~AddRollback(q)
    BY DEF AddRollback
  <2>9. ~SetHeaders(q)
    <3>1. CASE SetHeaders(q)
      <4>1. up /\ lock = q /\ hs[q].pc = "held"
        BY <3>1, HandlerMoves
      <4>2. \A p \in Reqs : hs[p].pc # "connect"
        BY <4>1, MutatesAlone DEF Holding
      <4>3. proxies = 0 <=> row = NoRow
        BY <4>1, <4>2 DEF Routed, Serves
      <4>4. CASE proxies = 0 \/ row = NoRow
        BY <3>1, <4>3, <4>4 DEF SetHeaders, Held
      <4>5. CASE ~(proxies = 0 \/ row = NoRow)
        BY <3>1, <4>5 DEF SetHeaders, Held, Granting
      <4> QED
        BY <4>4, <4>5
    <3> QED
      BY <3>1
  <2> QED
    BY <1>8, <2>1, <2>2, <2>3, <2>4, <2>5, <2>6, <2>7, <2>8, <2>9 DEF Handle
<1>9. ~Restart
  BY DEF Restart
<1>10. ASSUME NEW due \in BOOLEAN, AssembleRuntime(due) PROVE Pending'
  <2>1. Held
    BY <1>10 DEF AssembleRuntime, Held, hVars
  <2>2. row # NoRow /\ row.kind = "oauth" /\ row.ep
    BY <2>1, HeldIs
  <2>3. CASE due
    <3>1. rec' = [st |-> "run", cancelled |-> FALSE, b |-> 1 + Made, ref |-> row.ref, acc |-> None]
      BY <1>10, <2>2, <2>3 DEF AssembleRuntime
    <3> QED
      BY <1>5, <3>1 DEF RecLive
  <2>4. CASE ~due
    <3> DEFINE m == EntryMsg(1 + Made, row.ref)
    <3>1. chan' = <<m>> /\ m.do = "new"
      BY <1>10, <2>2, <2>4 DEF AssembleRuntime, EntryMsg
    <3> HIDE DEF m
    <3>2. 1 \in Messages' /\ chan'[1].do = "new"
      BY <3>1 DEF Messages
    <3> QED
      BY <3>2 DEF Pending
  <2> QED
    BY <2>3, <2>4
<1>11. ~ForgetServer
  <2>1. CASE ForgetServer
    BY <2>1, ForgetMoves DEF PartsInv, Mutating, Goes
  <2> QED
    BY <2>1
<1>12. CASE TakeEntry
  BY <1>3, <1>12 DEF TakeEntry
<1>13. CASE StoreEntry
  <2>1. /\ sched.do = "entry" /\ UNCHANGED timer
        /\ ent' = [g |-> sched.ref.g, b |-> sched.b, ref |-> sched.ref]
    BY <1>13 DEF StoreEntry
  <2>2. sched.ref.g \in Nat /\ timer
    BY <2>1, BackendNumbers DEF PartsInv, Tracked, TypeOK, SchedType, Idle, Tokens, Grants
  <2>3. ent'.g = sched.ref.g
    BY <2>1
  <2>4. ent' # NoEnt
    BY <2>2, <2>3 DEF NoEnt
  <2> QED
    BY <1>4, <2>1, <2>2, <2>4
<1>14. CASE StoreRefreshed
  BY <1>4, <1>14 DEF StoreRefreshed, PartsInv, Tracked
<1>15. CASE TimerFires
  <2>1. UNCHANGED <<up, row, last, lost, hs, chan, sched, ent, gen, rec>>
    BY <1>15 DEF TimerFires, hVars
  <2>2. CASE ent = NoEnt
    BY <1>1, <1>6, <2>1, <2>2 DEF Pending, RecLive
  <2>3. CASE ent # NoEnt
    <3> DEFINE t == [gen |-> gen, ref |-> ent.ref, cancelled |-> FALSE, st |-> "run"]
    <3>1. t \in tasks' /\ t.gen = gen
      BY <1>15, <2>3 DEF TimerFires
    <3> HIDE DEF t
    <3> QED
      BY <2>1, <2>3, <3>1 DEF Pending
  <2> QED
    BY <2>2, <2>3
<1>16. ASSUME NEW t \in tasks, NEW U, tasks' = (tasks \ {t}) \cup U,
              UNCHANGED <<up, row, last, lost, hs, chan, sched, ent, timer, gen, rec>>,
              Current(t) => \E u \in U : u.gen = t.gen
       PROVE  Pending'
  <2>1. ASSUME ent # NoEnt, NEW u \in tasks, u.gen = gen PROVE \E v \in tasks' : v.gen = gen
    <3>1. CASE u = t
      BY <1>16, <2>1, <3>1 DEF Current
    <3>2. CASE u # t
      BY <1>16, <2>1, <3>2
    <3> QED
      BY <3>1, <3>2
  <2> QED
    BY <1>6, <1>7, <1>16, <2>1
<1>17. ASSUME NEW t \in tasks, JoinDiscard(t) PROVE Pending'
  <2>1. tasks' = (tasks \ {t}) \cup {} /\ ~Current(t)
    BY <1>17 DEF JoinDiscard
  <2> QED
    BY <1>16, <1>17, <2>1 DEF JoinDiscard, hVars
<1>18. ASSUME NEW t \in tasks, JoinOk(t) \/ JoinFailed(t) PROVE Pending'
  <2>1. ent # NoEnt /\ UNCHANGED ent
    BY <1>18 DEF JoinOk, JoinFailed, Current
  <2>2. timer'
    <3>1. CASE JoinOk(t)
      BY <3>1 DEF JoinOk
    <3>2. CASE JoinFailed(t)
      <4>1. t.st # "perm"
        BY <3>2 DEF JoinFailed
      <4> QED
        BY <3>2, <4>1 DEF JoinFailed
    <3> QED
      BY <1>18, <3>1, <3>2
  <2> QED
    BY <1>4, <2>1, <2>2
<1>19. ASSUME NEW t \in tasks, Refresh(t) PROVE Pending'
  <2>1. UNCHANGED <<up, row, last, lost, hs, chan, sched, ent, timer, gen, rec>>
    BY <1>19 DEF Refresh, RefreshAnswered, RefreshFails, RefreshCancelled, hVars
  <2>2. \A s \in {"perm", "trans"} : t.st = "run" => [t EXCEPT !.st = s].gen = t.gen
    <3>1. t \in TaskType
      BY DEF TypeOK
    <3> QED
      BY <3>1 DEF TaskType
  <2>3. CASE RefreshCancelled(t)
    <3>1. tasks' = (tasks \ {t}) \cup {} /\ t.cancelled
      BY <2>3 DEF RefreshCancelled
    <3>2. ~Current(t)
      BY <3>1 DEF PartsInv, Tracked
    <3> QED
      BY <1>16, <2>1, <3>1, <3>2
  <2>4. CASE RefreshFails(t)
    <3>1. tasks' = (tasks \ {t}) \cup {[t EXCEPT !.st = "trans"]} /\ t.st = "run"
      BY <2>4 DEF RefreshFails
    <3>2. [t EXCEPT !.st = "trans"].gen = t.gen
      BY <2>2, <3>1
    <3> QED
      BY <1>16, <2>1, <3>1, <3>2
  <2>5. CASE RefreshAnswered(t)
    <3> DEFINE u == IF Live(t.ref) THEN [gen |-> t.gen, ref |-> NextRef(t.ref),
                                         cancelled |-> t.cancelled, st |-> "ok",
                                         acc |-> Issued(t.ref)]
                    ELSE [t EXCEPT !.st = "perm"]
    <3>1. tasks' = (tasks \ {t}) \cup {u} /\ t.st = "run"
      BY <2>5 DEF RefreshAnswered
    <3>2. u.gen = t.gen
      BY <2>2, <3>1
    <3> HIDE DEF u
    <3> QED
      BY <1>16, <2>1, <3>1, <3>2
  <2> QED
    BY <1>19, <2>3, <2>4, <2>5 DEF Refresh
<1>20. CASE RecAnswered
  <2>1. Live(rec.ref)
    BY <1>20 DEF RecAnswered
  <2>2. /\ rec' = [rec EXCEPT !.st = "got", !.ref = NextRef(rec.ref), !.acc = Issued(rec.ref)]
        /\ rec.st = "run" /\ UNCHANGED <<up, row, last, lost, hs, chan, sched, ent, timer, gen, tasks>>
    BY <1>20, <2>1 DEF RecAnswered, sVars
  <2>3. rec \in ReconnectType
    BY <2>2 DEF TypeOK, Off
  <2>4. RecLive' = RecLive
    BY <2>2, <2>3 DEF RecLive, ReconnectType
  <2> QED
    BY <1>1, <1>6, <2>2, <2>4 DEF Pending
<1>21. ~RecFails
  BY DEF RecFails
<1>22. CASE RecWriteToken \/ RecStore
  <2>1. RecLive /\ rec \in ReconnectType
    BY <1>22, RecUndisturbed
  <2>2. \E s \in {"wrote", "saved"} : rec' = [rec EXCEPT !.st = s]
    <3>1. CASE RecWriteToken
      BY <3>1 DEF RecWriteToken
    <3>2. CASE RecStore
      <4>1. row # NoRow
        BY <3>2, TokensStored DEF Held
      <4> QED
        BY <3>2, <4>1 DEF RecStore
    <3> QED
      BY <1>22, <3>1, <3>2
  <2>3. RecLive'
    BY <2>1, <2>2 DEF RecLive, ReconnectType
  <2> QED
    BY <1>5, <2>3
<1>23. CASE RecNotify
  <2>1. Push(EntryMsg(rec.b, rec.ref)) /\ EntryMsg(rec.b, rec.ref).do = "new"
    BY <1>23 DEF RecNotify, EntryMsg
  <2> QED
    BY <1>2, <2>1
<1>24. CASE \E g \in Grants : Revoke(g)
  BY <1>6, <1>7, <1>24 DEF Revoke, sVars, hVars
<1> QED
  BY <1>8, <1>9, <1>10, <1>11, <1>12, <1>13, <1>14, <1>15, <1>17, <1>18, <1>19, <1>20, <1>21,
     <1>22, <1>23, <1>24, StepCases

LEMMA CredentialsInit == Init => CredentialsInv
<1> SUFFICES ASSUME Init PROVE Credentials
  BY DEF CredentialsInv
<1>1. /\ \A q \in Reqs : hs[q].pc = "new"
      /\ Messages = {} /\ SchedEmpty /\ ~RecLive /\ ~up /\ Idle.do = "idle"
  <2>1. chan = <<>> /\ sched = Idle /\ ent = NoEnt /\ rec = Off /\ ~up /\ Off.st = "off"
    BY DEF Init, Off
  <2>2. Messages = {}
    BY <2>1 DEF Messages
  <2> QED
    BY <2>1, <2>2 DEF Init, SchedEmpty, NoNew, RecLive, Idle
<1>2. RowOf(last, row)
  <2>1. last.op = "none" /\ last.g = 0
    BY DEF Init
  <2>2. row = NoRow \/ row = OauthRow([g |-> 0, k |-> 0], [g |-> 0, k |-> 0])
    BY DEF Init
  <2>3. Fits(last, OauthRow([g |-> 0, k |-> 0], [g |-> 0, k |-> 0]))
    BY <2>1 DEF Fits, OauthRow
  <2> QED
    BY <2>1, <2>2, <2>3 DEF RowOf
<1>3. Routed
  BY <1>1, <1>2 DEF Routed
<1>4. InFlight /\ Calm /\ Reconnects /\ Scheduled
  BY <1>1 DEF InFlight, Calm, Alone, Reconnects, Scheduled, SchedEmpty
<1> QED
  BY <1>3, <1>4 DEF Credentials

LEMMA CredentialsStep == TypeOK /\ PartsInv /\ CredentialsInv /\ [Next]_vars => CredentialsInv'
<1> SUFFICES ASSUME TypeOK, PartsInv, CredentialsInv, [Next]_vars, ~raced', ~late' PROVE Credentials'
  BY DEF CredentialsInv
<1>1. CASE Next
  <2>1. Credentials
    BY <1>1, NotForgotten DEF CredentialsInv
  <2> QED
    BY <1>1, <2>1, RoutedStep, InFlightStep, CalmStep, ReconnectsStep, ScheduledStep DEF Credentials
<1>2. CASE UNCHANGED vars
  <2>1. Credentials
    BY <1>2 DEF CredentialsInv, vars
  <2>2. Routed' /\ InFlight'
    BY <1>2, <2>1 DEF Credentials, vars, sVars, hVars, Routed, RowOf, Serves, Fits, InFlight, Held,
       Messages
  <2>3. Calm' /\ Reconnects' /\ Scheduled'
    BY <1>2, <2>1 DEF Credentials, vars, sVars, hVars, Calm, Alone, SchedEmpty, NoNew, Messages,
       Reconnects, RecLive, Stored, Held, Scheduled, Mutating, Pending
  <2> QED
    BY <2>2, <2>3 DEF Credentials
<1> QED
  BY <1>1, <1>2

LEMMA CredentialsHold == Spec => [](TypeOK /\ CredentialsInv)
<1>1. Init => CredentialsInv
  BY CredentialsInit
<1>2. IInv /\ CredentialsInv /\ [Next]_vars => CredentialsInv'
  BY CredentialsStep DEF IInv
<1>3. IInv => TypeOK
  BY DEF IInv
<1> QED
  BY <1>1, <1>2, <1>3, Inductive, PTL DEF Spec

\* Once everything has settled, the row, the routed backend and the scheduler
\* show the last mutation that a dashboard handler committed, provided that no
\* set-token overlapped another mutation and the reconnect task heeded its
\* cancellation (internal_api.rs, refresh.rs, reconnect.rs).
THEOREM LastMutationIsShown == Spec => []LastMutationWins
<1>1. TypeOK /\ CredentialsInv => LastMutationWins
  <2> SUFFICES ASSUME TypeOK, Credentials, Quiet PROVE LastMutationWins
    BY DEF CredentialsInv, LastMutationWins
  <2>1. Serves(last, row) /\ RowOf(last, row)
    BY DEF Credentials, Routed, Quiet, Active
  <2>2. sched.do # "token" /\ rec.st # "wrote"
    BY DEF Quiet, Idle, Off
  <2>3. ent # NoEnt => Held /\ ent.g = last.g /\ ent.b = proxies
    BY DEF Credentials, InFlight
  <2>4. last.op \in {"none", "token", "remove", "headers", "addOauth", "addPlain"}
    BY McpTokensAssumption DEF TypeOK, MutationType
  <2>5. \A k : BareRow(k) # NoRow
    BY DEF BareRow, NoRow
  <2>6. row.kind = "oauth" => row # NoRow
    BY DEF NoRow
  <2>7. CASE last.op = "token"
    BY <2>1, <2>2, <2>3, <2>6, <2>7 DEF LastMutationWins, Serves, RowOf, Fits, Granting
  <2>8. CASE last.op = "none"
    BY <2>1, <2>2, <2>8 DEF LastMutationWins, Serves, RowOf, Fits, Granting
  <2>9. CASE last.op \notin {"none", "token"}
    BY <2>1, <2>3, <2>4, <2>9 DEF LastMutationWins, Serves, RowOf, Held, Granting
  <2> QED
    BY <2>7, <2>8, <2>9
<1> QED
  BY <1>1, CredentialsHold, PTL

\* An OAuth server that was not given up keeps its refresh timer whatever the
\* handlers, the refreshes and the reconnect task did before everything settled
\* (refresh.rs, run_refresh_scheduler).
THEOREM OauthStaysScheduled == Spec => []RefreshStaysScheduled
<1>1. TypeOK /\ CredentialsInv => RefreshStaysScheduled
  <2> SUFFICES ASSUME TypeOK, Credentials, Quiet, lost = {}, row # NoRow, row.kind = "oauth", row.ep
               PROVE  timer /\ ent # NoEnt
    BY DEF CredentialsInv, RefreshStaysScheduled
  <2>1. Held
    BY OauthIsHeld DEF Credentials
  <2>2. up /\ ~Mutating
    BY DEF Quiet, Active, Mutating
  <2>3. Pending
    BY <2>1, <2>2 DEF Credentials, Scheduled
  <2>4. Messages = {} /\ sched.do # "entry" /\ ~RecLive /\ tasks = {}
    BY DEF Quiet, Messages, Idle, Off, RecLive
  <2> QED
    BY <2>3, <2>4 DEF Pending
<1> QED
  BY <1>1, CredentialsHold, PTL

=============================================================================
