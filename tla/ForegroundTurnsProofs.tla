------------------------ MODULE ForegroundTurnsProofs ------------------------
(***************************************************************************)
(* Theorems about ForegroundTurns, for any set of workers and of handlers  *)
(* and any number of messages, turns, commands, clicks and failures.       *)
(***************************************************************************)
EXTENDS ForegroundTurns, FiniteSetTheorems, TLAPS

-----------------------------------------------------------------------------
(* The inductive invariant.                                                 *)

(* Where a turn is between two of its steps.                                *)
Early == {"none", "recv", "batch", "upgrade", "enter", "gone"}
Prepared == {"enter", "lock", "guarded"}
Registered == {"registered", "tearing", "spawning", "running", "ended"}
Handing == {"handoff", "fork"}
Unended == {"registered", "tearing", "spawning", "running"}

(* A turn that has registered, up to the release of the gate.               *)
InTurn(w) ==
  \/ wk[w].pc \in Registered \cup Handing \cup {"release"}
  \/ wk[w].pc \in {"match", "drop"} /\ wk[w].next = "release"

(* Session locks: a task has a lock object only while it is at the lock,    *)
(* the map still holds the object of every task that has one, and at most   *)
(* one of them is inside.                                                   *)
InPlace(w) ==
  /\ wk[w].pc \in Early \cup {"reply", "repair", "reflect"} => wk[w].obj = 0
  /\ wk[w].pc \in Registered \cup Handing \cup {"lock", "guarded"} => wk[w].obj # 0
  /\ wk[w].pc = "enter" => wk[w].sess # 0
ObjectsInPlace ==
  /\ \A w \in Workers : InPlace(w)
  /\ deliv.pc \in {"lock", "run"} <=> deliv.obj # 0
  /\ deliv.pc = "enter" => deliv.sess # 0
  /\ compact.pc = "run" <=> compact.obj # 0
  /\ compact.pc = "fired" => compact.sess # 0

EntriesKept ==
  \A p \in Procs : ObjOf(p) # 0 => SessOf(p) # 0 /\ locks[SessOf(p)] = ObjOf(p)

OneHolder ==
  \A p, q \in Procs : Holds(p) /\ Holds(q) /\ ObjOf(p) = ObjOf(q) => p = q

LockInv == ObjectsInPlace /\ EntriesKept /\ OneHolder

(* Turn ids: those handed out are distinct, a token in the map is that of a *)
(* registered turn and no request is for a turn that has not registered.    *)
TurnsApart ==
  /\ \A w \in Workers : wk[w].turn <= turns
  /\ \A v, w \in Workers : v # w /\ wk[v].turn # 0 => wk[v].turn # wk[w].turn
TurnNumbered ==
  \A w \in Workers : wk[w].pc \in Prepared \cup Registered => wk[w].turn # 0
TokenOwned ==
  tok # 0 => \E w \in Workers : wk[w].turn = tok /\ wk[w].pc \in Registered
RequestsRegistered ==
  \A w \in Workers : wk[w].pc \in Prepared => wk[w].turn # bg.turn

(* Unless turns overlapped, one is under way and the token is its own.      *)
Alone == ~overlap => \A v, w \in Workers : InTurn(v) /\ InTurn(w) => v = w
TokenOfTurn == ~overlap => \A w \in Workers : wk[w].pc \in Registered => tok = wk[w].turn

TurnInv ==
  /\ TurnsApart /\ TurnNumbered /\ TokenOwned /\ RequestsRegistered
  /\ Alone /\ TokenOfTurn

(* Shutdown and the requests to go to the background.                       *)
ShutWhenCancelling == driver \in {"cancelling", "done"} => shut
ShutdownRequest == bg.reason = "shutdown" => driver = "done"
NoEndYet ==
  \A w \in Workers :
    /\ wk[w].pc \in Early \cup Prepared \cup Unended => wk[w].end = "none"
    /\ wk[w].pc \in Early \cup Prepared => wk[w].next = "recv"
GateCoversRequest ==
  ~overlap => \A w \in Workers :
    wk[w].pc \in Registered /\ bg.turn = wk[w].turn /\ bg.reason = "user" => gate

RequestInv ==
  /\ ShutWhenCancelling /\ ShutdownRequest /\ NoEndYet /\ GateCoversRequest
  /\ ShutdownReachesTurn /\ ReplySurvivesClick /\ GateCoversHandoff

(* A handler that sends has a worker to send to.                            *)
SendsToWorker == \A h \in Handlers : hnd[h].pc = "send" => hnd[h].to \in Workers

IInv == TypeOK /\ SendsToWorker /\ LockInv /\ TurnInv /\ RequestInv

-----------------------------------------------------------------------------
(* Workers and their state.                                                 *)

Pcs == {"none", "recv", "batch", "upgrade", "enter", "lock", "reply", "repair", "reflect",
        "gone"} \cup GuardPcs
WorkerTypes == [Workers -> WorkerType]

\* Only the worker w takes a step.
OnlyWorker(w) == wk' \in WorkerTypes /\ \A v \in Workers \ {w} : wk'[v] = wk[v]

LEMMA WorkerSet ==
  ASSUME wk \in WorkerTypes, NEW w \in Workers, NEW x \in WorkerType, Now(w, x)
  PROVE  OnlyWorker(w) /\ wk'[w] = x
  BY DEF WorkerTypes, OnlyWorker, Now

LEMMA WorkerAt ==
  ASSUME wk \in WorkerTypes, NEW w \in Workers
  PROVE  wk[w] \in WorkerType
  BY DEF WorkerTypes

\* What a step leaves of the state of w besides its program counter.
SameTurn(w) ==
  /\ wk'[w].turn = wk[w].turn /\ wk'[w].sess = wk[w].sess /\ wk'[w].first = wk[w].first
  /\ wk'[w].cancelled = wk[w].cancelled /\ wk'[w].mail = wk[w].mail
SameLock(w) == wk'[w].obj = wk[w].obj
SameEnd(w) ==
  /\ wk'[w].end = wk[w].end /\ wk'[w].why = wk[w].why /\ wk'[w].next = wk[w].next

LEMMA Moved ==
  ASSUME wk \in WorkerTypes, NEW w \in Workers, NEW pc \in Pcs, Move(w, pc)
  PROVE  OnlyWorker(w) /\ wk'[w].pc = pc /\ SameTurn(w) /\ SameLock(w) /\ SameEnd(w)
  <1> DEFINE x == [wk[w] EXCEPT !.pc = pc]
  <1>1. /\ x \in WorkerType /\ x.pc = pc /\ x.turn = wk[w].turn /\ x.sess = wk[w].sess
        /\ x.first = wk[w].first /\ x.cancelled = wk[w].cancelled /\ x.mail = wk[w].mail
        /\ x.obj = wk[w].obj /\ x.end = wk[w].end /\ x.why = wk[w].why /\ x.next = wk[w].next
    BY WorkerAt DEF WorkerType, Pcs
  <1>2. Now(w, x)
    BY DEF Move
  <1> HIDE DEF x
  <1>3. QED
    BY <1>1, <1>2, WorkerSet DEF SameTurn, SameLock, SameEnd

\* The task is back at its mailbox, or over.
Cleared(w, pc) ==
  /\ OnlyWorker(w) /\ wk'[w].pc = pc /\ wk'[w].sess = 0 /\ wk'[w].turn = 0
  /\ wk'[w].obj = 0 /\ wk'[w].first = FALSE /\ wk'[w].cancelled = FALSE
  /\ wk'[w].end = "none" /\ wk'[w].why = "none" /\ wk'[w].next = "recv"

LEMMA IdleType ==
  /\ Idle \in WorkerType /\ Idle.mail = 0
  /\ Idle.sess = 0 /\ Idle.turn = 0 /\ Idle.obj = 0 /\ Idle.first = FALSE
  /\ Idle.cancelled = FALSE /\ Idle.end = "none" /\ Idle.why = "none"
  /\ Idle.next = "recv" /\ Idle.pc = "recv"
  <1>1. 0 \in 0 .. MaxTurns
    BY ForegroundAssumption
  <1>2. QED
    BY <1>1 DEF Idle, WorkerType

LEMMA Rested ==
  ASSUME wk \in WorkerTypes, NEW w \in Workers, Rest(w)
  PROVE  Cleared(w, "recv")
  <1> DEFINE x == [Idle EXCEPT !.mail = wk[w].mail]
  <1>1. wk[w].mail \in Nat
    BY WorkerAt DEF WorkerType
  <1>2. /\ x \in WorkerType /\ x.pc = "recv" /\ x.sess = 0 /\ x.turn = 0 /\ x.obj = 0
        /\ x.first = FALSE /\ x.cancelled = FALSE /\ x.end = "none" /\ x.why = "none"
        /\ x.next = "recv"
    BY <1>1, IdleType DEF WorkerType
  <1>3. Now(w, x)
    BY DEF Rest
  <1> HIDE DEF x
  <1>4. QED
    BY <1>2, <1>3, WorkerSet DEF Cleared

LEMMA UnbornType ==
  /\ Unborn \in WorkerType /\ Unborn.pc = "none"
  /\ Unborn.sess = 0 /\ Unborn.turn = 0 /\ Unborn.obj = 0 /\ Unborn.first = FALSE
  /\ Unborn.cancelled = FALSE /\ Unborn.end = "none" /\ Unborn.why = "none"
  /\ Unborn.next = "recv"
  BY IdleType DEF Unborn, WorkerType

LEMMA HasQuit ==
  ASSUME wk \in WorkerTypes, NEW w \in Workers, Quit(w)
  PROVE  Cleared(w, "gone") /\ wmap' = NoWorker
  <1> DEFINE x == [Unborn EXCEPT !.pc = "gone"]
  <1>1. /\ x \in WorkerType /\ x.pc = "gone" /\ x.sess = 0 /\ x.turn = 0 /\ x.obj = 0
        /\ x.first = FALSE /\ x.cancelled = FALSE /\ x.end = "none" /\ x.why = "none"
        /\ x.next = "recv"
    BY UnbornType DEF WorkerType
  <1>2. Now(w, x) /\ wmap' = NoWorker
    BY DEF Quit
  <1> HIDE DEF x
  <1>3. QED
    BY <1>1, <1>2, WorkerSet DEF Cleared

\* A stop or background request cancels the turn that owns the token.
LEMMA OwnerOfToken ==
  ASSUME TokenOwned, tok # 0
  PROVE  Owner(tok) \in Workers /\ wk[Owner(tok)].turn = tok
  BY DEF TokenOwned, Owner

LEMMA TokenCancelled ==
  ASSUME wk \in WorkerTypes, TokenOwned, tok # 0, wk' = Cancel(tok)
  PROVE  /\ wk' \in WorkerTypes
         /\ \A w \in Workers :
              /\ wk'[w].pc = wk[w].pc /\ wk'[w].obj = wk[w].obj /\ wk'[w].sess = wk[w].sess
              /\ wk'[w].turn = wk[w].turn /\ wk'[w].end = wk[w].end
              /\ wk'[w].why = wk[w].why /\ wk'[w].next = wk[w].next
              /\ wk[w].cancelled => wk'[w].cancelled
         /\ wk'[Owner(tok)].cancelled
  <1> DEFINE o == Owner(tok)
             x == [wk[o] EXCEPT !.cancelled = TRUE]
  <1>1. o \in Workers
    BY OwnerOfToken
  <1>2. wk' = [wk EXCEPT ![o] = x]
    BY DEF Cancel
  <1> HIDE DEF o
  <1>3. /\ x \in WorkerType /\ x.pc = wk[o].pc /\ x.obj = wk[o].obj /\ x.sess = wk[o].sess
        /\ x.turn = wk[o].turn /\ x.end = wk[o].end /\ x.why = wk[o].why
        /\ x.next = wk[o].next /\ x.cancelled = TRUE
    BY <1>1, WorkerAt DEF WorkerType
  <1> HIDE DEF x
  <1>4. wk' \in WorkerTypes /\ wk'[o] = x /\ \A v \in Workers \ {o} : wk'[v] = wk[v]
    BY <1>1, <1>2, <1>3 DEF WorkerTypes
  <1>5. QED
    BY <1>3, <1>4 DEF o

-----------------------------------------------------------------------------
(* Lock objects: one is always free.                                        *)

LEMMA ImageIsSmall ==
  ASSUME NEW S, IsFiniteSet(S), NEW f, f = [x \in S |-> f[x]]
  PROVE  LET T == {f[x] : x \in S}
         IN  IsFiniteSet(T) /\ Cardinality(T) <= Cardinality(S)
  <1> DEFINE T == {f[x] : x \in S}
  <1>1. f \in Surjection(S, T)
    BY DEF Surjection
  <1>2. QED
    BY <1>1, FS_Surjection

LEMMA ProcsAreFinite == IsFiniteSet(Procs) /\ Cardinality(Procs) \in Nat
  <1>1. IsFiniteSet({"delivery", "compaction"})
    <2>1. IsFiniteSet({} \cup {"delivery"})
      BY FS_EmptySet, FS_AddElement
    <2>2. IsFiniteSet(({} \cup {"delivery"}) \cup {"compaction"})
      BY <2>1, FS_AddElement
    <2>3. ({} \cup {"delivery"}) \cup {"compaction"} = {"delivery", "compaction"}
      OBVIOUS
    <2>4. QED
      BY <2>2, <2>3
  <1>2. IsFiniteSet(Procs)
    BY <1>1, FS_Union, ForegroundAssumption DEF Procs
  <1>3. QED
    BY <1>2, FS_CardinalityType

LEMMA SessAreFinite == IsFiniteSet(Sess) /\ Cardinality(Sess) = MaxTurns
  <1>1. MaxTurns \in Nat
    BY ForegroundAssumption
  <1>2. IsFiniteSet(1 .. MaxTurns)
        /\ Cardinality(1 .. MaxTurns) = IF 1 > MaxTurns THEN 0 ELSE MaxTurns - 1 + 1
    BY <1>1, FS_Interval
  <1>3. QED
    BY <1>1, <1>2 DEF Sess

LEMMA ObjectIsFree ==
  ASSUME locks \in [Sess -> {0} \cup Objects]
  PROVE  /\ FreeObject \in Objects
         /\ \A s \in Sess : locks[s] # FreeObject
         /\ \A p \in Procs : ObjOf(p) # FreeObject
  <1> DEFINE g == [p \in Procs |-> ObjOf(p)]
             inMap == {locks[s] : s \in Sess}
             inUse == {g[p] : p \in Procs}
             used == inMap \cup inUse
             top == Cardinality(Procs) + MaxTurns + 1
  <1>1. IsFiniteSet(inMap) /\ Cardinality(inMap) <= MaxTurns
    <2>1. locks = [s \in Sess |-> locks[s]]
      OBVIOUS
    <2>2. QED
      BY <2>1, ImageIsSmall, SessAreFinite
  <1>2. IsFiniteSet(inUse) /\ Cardinality(inUse) <= Cardinality(Procs)
    <2>1. g = [p \in Procs |-> g[p]]
      OBVIOUS
    <2> HIDE DEF g
    <2>2. QED
      BY <2>1, ImageIsSmall, ProcsAreFinite
  <1>3. IsFiniteSet(used) /\ Cardinality(used) <= Cardinality(Procs) + MaxTurns
    <2> HIDE DEF inMap, inUse
    <2>1. IsFiniteSet(inMap \cap inUse)
      BY <1>1, FS_Subset
    <2>2. Cardinality(inMap \cap inUse) \in Nat /\ Cardinality(inMap) \in Nat
          /\ Cardinality(inUse) \in Nat
      BY <1>1, <1>2, <2>1, FS_CardinalityType
    <2>3. IsFiniteSet(inMap \cup inUse)
          /\ Cardinality(inMap \cup inUse)
               = Cardinality(inMap) + Cardinality(inUse) - Cardinality(inMap \cap inUse)
      BY <1>1, <1>2, FS_Union
    <2>4. MaxTurns \in Nat /\ Cardinality(Procs) \in Nat
      BY ForegroundAssumption, ProcsAreFinite
    <2>5. QED
      BY <1>1, <1>2, <2>2, <2>3, <2>4
  <1>4. top \in Nat /\ Objects = 1 .. top /\ Cardinality(1 .. top) = top
    <2>1. MaxTurns \in Nat /\ Cardinality(Procs) \in Nat
      BY ForegroundAssumption, ProcsAreFinite
    <2>2. Cardinality(1 .. top) = IF 1 > top THEN 0 ELSE top - 1 + 1
      BY <2>1, FS_Interval
    <2>3. QED
      BY <2>1, <2>2 DEF Objects
  <1>5. \E o \in Objects : o \notin used
    <2> HIDE DEF used
    <2>1. SUFFICES ASSUME Objects \subseteq used
                   PROVE  FALSE
      OBVIOUS
    <2>2. Cardinality(Objects) <= Cardinality(used)
      BY <1>3, <2>1, FS_Subset
    <2>3. Cardinality(Objects) = Cardinality(Procs) + MaxTurns + 1
      BY <1>4
    <2>4. MaxTurns \in Nat /\ Cardinality(Procs) \in Nat /\ Cardinality(used) \in Nat
      BY <1>3, ForegroundAssumption, ProcsAreFinite, FS_CardinalityType
    <2>5. QED
      BY <1>3, <2>2, <2>3, <2>4
  <1>6. \E o \in Objects : (\A s \in Sess : locks[s] # o) /\ (\A p \in Procs : ObjOf(p) # o)
    BY <1>5
  <1>7. QED
    BY <1>6 DEF FreeObject

LEMMA EntryType ==
  ASSUME locks \in [Sess -> {0} \cup Objects], NEW s \in Sess
  PROVE  Entry(s) \in Objects /\ Entry(s) # 0
  <1>1. 0 \notin Objects
    <2>1. Cardinality(Procs) + MaxTurns + 1 \in Nat
      BY ForegroundAssumption, ProcsAreFinite
    <2>2. QED
      BY <2>1 DEF Objects
  <1>2. Entry(s) \in Objects
    BY ObjectIsFree DEF Entry
  <1>3. QED
    BY <1>1, <1>2

-----------------------------------------------------------------------------
(* Type correctness.                                                        *)

LEMMA Typed == TypeOK => wk \in WorkerTypes /\ locks \in [Sess -> {0} \cup Objects]
  BY DEF TypeOK, WorkerTypes

LEMMA Numbers ==
  MaxTurns \in Nat /\ MaxEvents \in Nat /\ MaxMessages \in Nat
  BY ForegroundAssumption

LEMMA EventType ==
  ASSUME TypeOK, Event
  PROVE  events' \in 0 .. MaxEvents
  BY Numbers DEF TypeOK, Event

LEMMA CreatedType ==
  ASSUME TypeOK, CreateSession
  PROVE  /\ sessions' \in 0 .. MaxTurns /\ active' \in 0 .. sessions' /\ active' \in Sess
         /\ active' # 0
  BY Numbers DEF TypeOK, CreateSession, Sess

LEMMA CancelledType ==
  ASSUME TypeOK
  PROVE  /\ Cancelled(compact) \in [pc : {"off", "armed", "fired", "run"}, sess : 0 .. MaxTurns,
                                    obj : {0} \cup Objects, cancelled : BOOLEAN]
         /\ Cancelled(compact).pc = compact.pc /\ Cancelled(compact).sess = compact.sess
         /\ Cancelled(compact).obj = compact.obj
  BY DEF TypeOK, Cancelled

\* A turn has begun: it has a turn id and a session.
Begun(w) ==
  /\ OnlyWorker(w) /\ wk'[w].pc = "enter" /\ wk'[w].turn = turns + 1 /\ turns' = turns + 1
  /\ wk'[w].sess = active' /\ active' # 0
  /\ wk'[w].obj = wk[w].obj /\ SameEnd(w)

LEMMA TurnBegins ==
  ASSUME TypeOK, NEW w \in Workers, turns < MaxTurns, turns' = turns + 1,
         active' \in 1 .. MaxTurns,
         Now(w, [wk[w] EXCEPT !.pc = "enter", !.sess = active', !.first = (active = 0),
                              !.turn = turns'])
  PROVE  Begun(w)
  <1> DEFINE f == (active = 0)
             x == [wk[w] EXCEPT !.pc = "enter", !.sess = active', !.first = f, !.turn = turns']
  <1>1. f \in BOOLEAN /\ turns' \in 0 .. MaxTurns /\ active' \in 0 .. MaxTurns
    BY Numbers DEF TypeOK
  <1>2. wk[w] \in WorkerType
    BY Typed, WorkerAt
  <1>3. Now(w, x)
    OBVIOUS
  <1> HIDE DEF f
  <1>4. /\ x \in WorkerType /\ x.pc = "enter" /\ x.turn = turns' /\ x.sess = active'
        /\ x.obj = wk[w].obj /\ x.end = wk[w].end /\ x.why = wk[w].why /\ x.next = wk[w].next
    BY <1>1, <1>2 DEF WorkerType
  <1> HIDE DEF x
  <1>5. active' # 0
    BY Numbers
  <1>6. QED
    BY <1>3, <1>4, <1>5, Typed, WorkerSet DEF Begun, SameEnd

LEMMA StartsTurn ==
  ASSUME TypeOK, NEW w \in Workers, StartTurn(w)
  PROVE  /\ \/ Cleared(w, "gone") /\ wmap' = NoWorker /\ UNCHANGED <<active, sessions, turns>>
            \/ Cleared(w, "recv") /\ UNCHANGED <<wmap, turns>>
            \/ Begun(w) /\ UNCHANGED wmap /\ turns' \in 0 .. MaxTurns
         /\ sessions' \in 0 .. MaxTurns /\ active' \in 0 .. sessions'
         /\ events' \in 0 .. MaxEvents
         /\ compact' \in {compact, Cancelled(compact)}
  <1>0. /\ wk \in WorkerTypes /\ sessions \in 0 .. MaxTurns /\ active \in 0 .. sessions
        /\ events \in 0 .. MaxEvents /\ turns \in 0 .. MaxTurns
    BY Typed DEF TypeOK
  <1>1. CASE /\ Quit(w) /\ UNCHANGED <<active, sessions, turns, compact, events>>
    BY <1>0, <1>1, HasQuit
  <1>2. CASE /\ Fault /\ Rest(w) /\ UNCHANGED <<wmap, turns>>
             /\ \/ /\ compact' \in {compact, Cancelled(compact)}
                   /\ UNCHANGED <<active, sessions>>
                \/ active = 0 /\ CreateSession /\ compact' = Cancelled(compact)
    <2>1. Cleared(w, "recv") /\ events' \in 0 .. MaxEvents
      BY <1>0, <1>2, Rested, EventType DEF Fault
    <2>2. sessions' \in 0 .. MaxTurns /\ active' \in 0 .. sessions'
      BY <1>0, <1>2, CreatedType
    <2>3. QED
      BY <1>2, <2>1, <2>2
  <1>3. CASE /\ turns < MaxTurns /\ compact' = Cancelled(compact) /\ turns' = turns + 1
             /\ IF active = 0 THEN CreateSession ELSE UNCHANGED <<active, sessions>>
             /\ Now(w, [wk[w] EXCEPT !.pc = "enter", !.sess = active',
                                     !.first = (active = 0), !.turn = turns'])
             /\ UNCHANGED <<wmap, events>>
    <2>1. sessions' \in 0 .. MaxTurns /\ active' \in 0 .. sessions' /\ active' \in 1 .. MaxTurns
      <3>1. CASE active = 0
        BY <1>3, <3>1, CreatedType DEF Sess
      <3>2. CASE active # 0
        BY <1>0, <1>3, <3>2, Numbers
      <3>3. QED
        BY <3>1, <3>2
    <2>2. Begun(w)
      BY <1>3, <2>1, TurnBegins
    <2>3. turns' \in 0 .. MaxTurns
      BY <1>0, <1>3, Numbers
    <2>4. QED
      BY <1>0, <1>3, <2>1, <2>2, <2>3
  <1>4. QED
    BY <1>1, <1>2, <1>3 DEF StartTurn

\* The task waits at the lock of its session.
AtLock(w) ==
  /\ OnlyWorker(w) /\ wk'[w].pc = "lock" /\ wk'[w].obj = Entry(wk[w].sess)
  /\ SameTurn(w) /\ SameEnd(w)

LEMMA EntersLock ==
  ASSUME TypeOK, NEW w \in Workers, ObjectsInPlace, EnterLock(w)
  PROVE  /\ events' \in 0 .. MaxEvents /\ wk[w].sess \in Sess
         /\ \/ AtLock(w) /\ TakeEntry(wk[w].sess)
            \/ /\ UNCHANGED locks
               /\ \/ Cleared(w, "recv")
                  \/ OnlyWorker(w) /\ wk'[w].pc = "match" /\ SameTurn(w) /\ SameLock(w) /\ SameEnd(w)
  <1> DEFINE s == wk[w].sess
  <1>0. /\ wk \in WorkerTypes /\ events \in 0 .. MaxEvents /\ wk[w] \in WorkerType
    BY Typed, WorkerAt DEF TypeOK
  <1>1. s \in Sess
    BY <1>0, Numbers DEF EnterLock, ObjectsInPlace, InPlace, Sess, WorkerType
  <1>2. CASE TakeEntry(s) /\ UNCHANGED events
             /\ Now(w, [wk[w] EXCEPT !.pc = "lock", !.obj = Entry(s)])
    <2> DEFINE o == Entry(s)
               x == [wk[w] EXCEPT !.pc = "lock", !.obj = o]
    <2>1. o \in Objects
      BY <1>1, EntryType, Typed
    <2>2. Now(w, x) /\ o = Entry(s)
      BY <1>2
    <2> HIDE DEF o
    <2>3. /\ x \in WorkerType /\ x.pc = "lock" /\ x.obj = o /\ x.turn = wk[w].turn
          /\ x.sess = wk[w].sess /\ x.first = wk[w].first /\ x.cancelled = wk[w].cancelled
          /\ x.mail = wk[w].mail /\ x.end = wk[w].end /\ x.why = wk[w].why
          /\ x.next = wk[w].next
      BY <1>0, <2>1 DEF WorkerType, GuardPcs
    <2> HIDE DEF x
    <2>4. QED
      BY <1>0, <1>1, <1>2, <2>2, <2>3, WorkerSet DEF AtLock, SameTurn, SameEnd
  <1>3. CASE Fault /\ UNCHANGED locks /\ IF wk[w].first THEN Move(w, "match") ELSE Rest(w)
    <2>1. "match" \in Pcs
      BY DEF Pcs, GuardPcs
    <2>2. QED
      BY <1>0, <1>1, <1>3, <2>1, Moved, Rested, EventType DEF Fault
  <1>4. QED
    BY <1>2, <1>3 DEF EnterLock

\* What the next steps of a turn do to its worker w.
Stepped(w, pc) ==
  OnlyWorker(w) /\ wk'[w].pc = pc /\ SameTurn(w) /\ SameLock(w) /\ SameEnd(w)
TornDown(w) ==
  /\ OnlyWorker(w) /\ SameTurn(w) /\ SameLock(w) /\ wk'[w].end = wk[w].end
  /\ wk'[w].pc \in {"handoff", "match", "release"}
  /\ wk'[w].next = "release" /\ wk'[w].why = "shutdown"
Unlocks(w, pc) ==
  OnlyWorker(w) /\ wk'[w].pc = pc /\ wk'[w].obj = 0 /\ SameTurn(w) /\ SameEnd(w)
Left(w) ==
  \/ wk[w].next = "release" /\ Stepped(w, "release")
  \/ wk[w].next # "release" /\ Unlocks(w, "reflect")
  \/ Cleared(w, "recv")

LEMMA Steps ==
  ASSUME wk \in WorkerTypes, NEW w \in Workers, NEW pc \in Pcs, Move(w, pc)
  PROVE  Stepped(w, pc)
  BY Moved DEF Stepped

LEMMA PcNames ==
  {"upgrade", "enter", "lock", "guarded", "registered", "tearing", "spawning", "running", "ended",
   "match", "drop", "release", "handoff", "fork", "reply", "repair", "reflect", "recv", "batch",
   "gone"} \subseteq Pcs
  BY DEF Pcs, GuardPcs

LEMMA TakesBatch ==
  ASSUME wk \in WorkerTypes, NEW w \in Workers, Now(w, [wk[w] EXCEPT !.pc = "batch", !.mail = 0])
  PROVE  /\ OnlyWorker(w) /\ wk'[w].pc = "batch" /\ SameLock(w) /\ SameEnd(w)
         /\ wk'[w].turn = wk[w].turn
  <1> DEFINE x == [wk[w] EXCEPT !.pc = "batch", !.mail = 0]
  <1>1. /\ x \in WorkerType /\ x.pc = "batch" /\ x.turn = wk[w].turn /\ x.obj = wk[w].obj
        /\ x.end = wk[w].end /\ x.why = wk[w].why /\ x.next = wk[w].next
    BY WorkerAt DEF WorkerType
  <1>2. Now(w, x)
    OBVIOUS
  <1> HIDE DEF x
  <1>3. QED
    BY <1>1, <1>2, WorkerSet DEF SameLock, SameEnd

LEMMA ChecksStop ==
  ASSUME TypeOK, NEW w \in Workers, CheckStop(w)
  PROVE  \/ /\ OnlyWorker(w) /\ wk'[w].pc = "tearing" /\ SameTurn(w) /\ SameLock(w)
            /\ wk'[w].end = wk[w].end /\ wk'[w].next = wk[w].next /\ bg' = NoBg
         \/ ~shut /\ Stepped(w, "spawning") /\ UNCHANGED bg
  <1>0. wk \in WorkerTypes /\ wk[w] \in WorkerType /\ bg.reason \in {"none", "user", "shutdown"}
    BY Typed, WorkerAt DEF TypeOK
  <1>1. CASE shut \/ wk[w].cancelled
    <2> DEFINE y == IF bg.turn = wk[w].turn THEN bg.reason ELSE "none"
               x == [wk[w] EXCEPT !.pc = "tearing", !.why = y]
    <2>1. y \in {"none", "user", "shutdown"}
      BY <1>0
    <2>2. Now(w, x) /\ bg' = NoBg
      BY <1>1 DEF CheckStop
    <2> HIDE DEF y
    <2>3. /\ x \in WorkerType /\ x.pc = "tearing" /\ x.turn = wk[w].turn /\ x.sess = wk[w].sess
          /\ x.first = wk[w].first /\ x.cancelled = wk[w].cancelled /\ x.mail = wk[w].mail
          /\ x.obj = wk[w].obj /\ x.end = wk[w].end /\ x.next = wk[w].next
      BY <1>0, <2>1 DEF WorkerType, GuardPcs
    <2> HIDE DEF x
    <2>4. QED
      BY <1>0, <2>2, <2>3, WorkerSet DEF SameTurn, SameLock
  <1>2. CASE ~(shut \/ wk[w].cancelled)
    BY <1>0, <1>2, Steps, PcNames DEF CheckStop
  <1>3. QED
    BY <1>1, <1>2

LEMMA TearsDown ==
  ASSUME wk \in WorkerTypes, NEW w \in Workers, TearDown(w)
  PROVE  TornDown(w)
  <1> DEFINE p == IF ~wk[w].first /\ (shut \/ wk[w].why = "shutdown")
                  THEN "handoff" ELSE IF wk[w].first THEN "match" ELSE "release"
             x == [wk[w] EXCEPT !.why = "shutdown", !.next = "release", !.pc = p]
  <1>1. p \in {"handoff", "match", "release"} /\ wk[w] \in WorkerType
    BY WorkerAt
  <1>2. Now(w, x)
    BY DEF TearDown
  <1> HIDE DEF p
  <1>3. /\ x \in WorkerType /\ x.pc = p /\ x.turn = wk[w].turn /\ x.sess = wk[w].sess
        /\ x.first = wk[w].first /\ x.cancelled = wk[w].cancelled /\ x.mail = wk[w].mail
        /\ x.obj = wk[w].obj /\ x.end = wk[w].end /\ x.next = "release" /\ x.why = "shutdown"
    BY <1>1 DEF WorkerType, GuardPcs
  <1> HIDE DEF x
  <1>4. QED
    BY <1>1, <1>2, <1>3, WorkerSet DEF TornDown, SameTurn, SameLock

LEMMA GivesLockUp ==
  ASSUME wk \in WorkerTypes, NEW w \in Workers, NEW pc \in Pcs,
         Now(w, [wk[w] EXCEPT !.pc = pc, !.obj = 0])
  PROVE  Unlocks(w, pc)
  <1> DEFINE x == [wk[w] EXCEPT !.pc = pc, !.obj = 0]
  <1>1. /\ x \in WorkerType /\ x.pc = pc /\ x.turn = wk[w].turn /\ x.sess = wk[w].sess
        /\ x.first = wk[w].first /\ x.cancelled = wk[w].cancelled /\ x.mail = wk[w].mail
        /\ x.obj = 0 /\ x.end = wk[w].end /\ x.why = wk[w].why /\ x.next = wk[w].next
    BY WorkerAt DEF WorkerType, Pcs
  <1>2. Now(w, x)
    OBVIOUS
  <1> HIDE DEF x
  <1>3. QED
    BY <1>1, <1>2, WorkerSet DEF Unlocks, SameTurn, SameEnd

LEMMA Leaves ==
  ASSUME wk \in WorkerTypes, NEW w \in Workers, Leave(w)
  PROVE  Left(w)
  <1>1. CASE wk[w].next = "release" /\ Move(w, "release")
    BY <1>1, Steps, PcNames DEF Left
  <1>2. CASE wk[w].next = "reflect" /\ Now(w, [wk[w] EXCEPT !.pc = "reflect", !.obj = 0])
    <2>1. "reflect" \in Pcs /\ wk[w].next # "release"
      BY <1>2, PcNames
    <2>2. QED
      BY <1>2, <2>1, GivesLockUp DEF Left
  <1>3. CASE Rest(w)
    BY <1>3, Rested DEF Left
  <1>4. QED
    BY <1>1, <1>2, <1>3 DEF Leave

LEMMA ChildEnded ==
  ASSUME TypeOK, NEW w \in Workers, ChildEnds(w)
  PROVE  /\ OnlyWorker(w) /\ wk'[w].pc = "ended" /\ SameTurn(w) /\ SameLock(w)
         /\ wk'[w].why = wk[w].why /\ wk'[w].next = wk[w].next
         /\ events' \in 0 .. MaxEvents
  <1>0. wk \in WorkerTypes /\ wk[w] \in WorkerType /\ events \in 0 .. MaxEvents
    BY Typed, WorkerAt DEF TypeOK
  <1>1. PICK e \in Ends : /\ Now(w, [wk[w] EXCEPT !.pc = "ended", !.end = e])
                          /\ IF e \in {"result", "stopped"} THEN UNCHANGED events ELSE Fault
    BY DEF ChildEnds
  <1> DEFINE x == [wk[w] EXCEPT !.pc = "ended", !.end = e]
  <1>2. /\ x \in WorkerType /\ x.pc = "ended" /\ x.turn = wk[w].turn /\ x.sess = wk[w].sess
        /\ x.first = wk[w].first /\ x.cancelled = wk[w].cancelled /\ x.mail = wk[w].mail
        /\ x.obj = wk[w].obj /\ x.why = wk[w].why /\ x.next = wk[w].next
    BY <1>0 DEF WorkerType, GuardPcs
  <1>3. Now(w, x)
    BY <1>1
  <1> HIDE DEF x
  <1>4. QED
    BY <1>0, <1>1, <1>2, <1>3, WorkerSet, EventType DEF SameTurn, SameLock, Fault

\* The ways a turn goes when its child has ended.
HandsOff(w) ==
  /\ OnlyWorker(w) /\ wk'[w].pc = "handoff" /\ SameTurn(w) /\ SameLock(w)
  /\ wk'[w].end = wk[w].end /\ wk'[w].next = wk[w].next
  /\ wk'[w].why = IF Honored(w) THEN Consumed(w) ELSE "timeout"
  /\ Honored(w) \/ wk[w].end = "timeout"
Matches(w) ==
  /\ OnlyWorker(w) /\ wk'[w].pc = "match" /\ SameTurn(w) /\ SameLock(w)
  /\ wk'[w].next \in {"recv", "reflect"}

LEMMA ToMatch ==
  ASSUME wk \in WorkerTypes, NEW w \in Workers, NEW next \in {"recv", "reflect"},
         Now(w, [wk[w] EXCEPT !.pc = "match", !.next = next])
  PROVE  Matches(w)
  <1> DEFINE x == [wk[w] EXCEPT !.pc = "match", !.next = next]
  <1>1. /\ x \in WorkerType /\ x.pc = "match" /\ x.turn = wk[w].turn /\ x.sess = wk[w].sess
        /\ x.first = wk[w].first /\ x.cancelled = wk[w].cancelled /\ x.mail = wk[w].mail
        /\ x.obj = wk[w].obj /\ x.next = next
    BY WorkerAt DEF WorkerType, GuardPcs
  <1>2. Now(w, x)
    OBVIOUS
  <1> HIDE DEF x
  <1>3. QED
    BY <1>1, <1>2, WorkerSet DEF Matches, SameTurn, SameLock

LEMMA ToHandoff ==
  ASSUME wk \in WorkerTypes, NEW w \in Workers, NEW why \in {"none", "user", "shutdown", "timeout"},
         Now(w, [wk[w] EXCEPT !.pc = "handoff", !.why = why])
  PROVE  /\ OnlyWorker(w) /\ wk'[w].pc = "handoff" /\ SameTurn(w) /\ SameLock(w)
         /\ wk'[w].end = wk[w].end /\ wk'[w].next = wk[w].next /\ wk'[w].why = why
  <1> DEFINE x == [wk[w] EXCEPT !.pc = "handoff", !.why = why]
  <1>1. /\ x \in WorkerType /\ x.pc = "handoff" /\ x.turn = wk[w].turn /\ x.sess = wk[w].sess
        /\ x.first = wk[w].first /\ x.cancelled = wk[w].cancelled /\ x.mail = wk[w].mail
        /\ x.obj = wk[w].obj /\ x.end = wk[w].end /\ x.next = wk[w].next /\ x.why = why
    BY WorkerAt DEF WorkerType, GuardPcs
  <1>2. Now(w, x)
    OBVIOUS
  <1> HIDE DEF x
  <1>3. QED
    BY <1>1, <1>2, WorkerSet DEF SameTurn, SameLock

LEMMA Finishes ==
  ASSUME TypeOK, NEW w \in Workers, Finish(w)
  PROVE  /\ tok' = 0 /\ bg' = NoBg /\ gate' \in {FALSE, gate}
         /\ \/ HandsOff(w) /\ gate' = IF Consumed(w) = "user" /\ wk[w].end = "result"
                                      THEN FALSE ELSE gate
            \/ Matches(w) \/ Cleared(w, "recv") \/ Unlocks(w, "reflect") \/ Unlocks(w, "reply")
  <1> DEFINE e == wk[w].end
             handed == e # "undelivered" /\ e # "silent" /\ (Honored(w) \/ e = "timeout")
             why == IF Honored(w) THEN Consumed(w) ELSE "timeout"
  <1>0. wk \in WorkerTypes /\ wk[w] \in WorkerType
    BY Typed, WorkerAt
  <1>1. why \in {"none", "user", "shutdown", "timeout"}
    BY DEF TypeOK, Consumed
  <1>2. /\ tok' = 0 /\ bg' = NoBg
        /\ gate' = IF e \in {"undelivered", "silent"} \/ (Consumed(w) = "user" /\ e = "result")
                   THEN FALSE ELSE gate
    BY DEF Finish
  <1>3. "reply" \in Pcs /\ "reflect" \in Pcs /\ "recv" \in {"recv", "reflect"}
        /\ "reflect" \in {"recv", "reflect"}
    BY PcNames
  <1>4. CASE handed /\ Now(w, [wk[w] EXCEPT !.pc = "handoff", !.why = why])
    <2>1. e \notin {"undelivered", "silent"} /\ (Honored(w) \/ e = "timeout")
      BY <1>4
    <2>2. /\ OnlyWorker(w) /\ wk'[w].pc = "handoff" /\ SameTurn(w) /\ SameLock(w)
          /\ wk'[w].end = wk[w].end /\ wk'[w].next = wk[w].next /\ wk'[w].why = why
      BY <1>0, <1>1, <1>4, ToHandoff
    <2>3. HandsOff(w)
      BY <2>1, <2>2 DEF HandsOff
    <2>4. QED
      BY <1>2, <2>1, <2>3
  <1>5. CASE \/ Now(w, [wk[w] EXCEPT !.pc = "match", !.next = "recv"])
             \/ Now(w, [wk[w] EXCEPT !.pc = "match", !.next = "reflect"])
    BY <1>0, <1>2, <1>3, <1>5, ToMatch
  <1>6. CASE \/ Now(w, [wk[w] EXCEPT !.pc = "reply", !.obj = 0])
             \/ Now(w, [wk[w] EXCEPT !.pc = "reflect", !.obj = 0])
    BY <1>0, <1>2, <1>3, <1>6, GivesLockUp
  <1>7. CASE Rest(w)
    BY <1>0, <1>2, <1>7, Rested
  <1>8. QED
    <2>1. \/ handed /\ Now(w, [wk[w] EXCEPT !.pc = "handoff", !.why = why])
          \/ Now(w, [wk[w] EXCEPT !.pc = "match", !.next = "recv"])
          \/ Now(w, [wk[w] EXCEPT !.pc = "match", !.next = "reflect"])
          \/ Now(w, [wk[w] EXCEPT !.pc = "reply", !.obj = 0])
          \/ Now(w, [wk[w] EXCEPT !.pc = "reflect", !.obj = 0])
          \/ Rest(w)
      BY DEF Finish
    <2>2. QED
      BY <2>1, <1>4, <1>5, <1>6, <1>7

-----------------------------------------------------------------------------
(* Every step keeps the types.                                              *)

\* What a step of the worker w does not touch, and the types of the rest.
WorkerFrame(w) ==
  /\ OnlyWorker(w) /\ UNCHANGED <<messages, hnd, deliv, driver, life, shut>>
  /\ wmap' \in {wmap, NoWorker}
  /\ sessions' \in 0 .. MaxTurns /\ active' \in 0 .. sessions'
  /\ turns' \in turns .. MaxTurns /\ tok' \in 0 .. turns'
  /\ bg' \in {bg, NoBg} /\ gate' \in {FALSE, gate} /\ overlap' \in BOOLEAN
  /\ locks' \in [Sess -> {0} \cup Objects]
  /\ \/ compact' \in {compact, Cancelled(compact)}
     \/ compact.pc = "off" /\ compact' = [compact EXCEPT !.pc = "armed"]
  /\ events' \in 0 .. MaxEvents

LEMMA SameVariables ==
  ASSUME TypeOK
  PROVE  /\ wk \in WorkerTypes /\ locks \in [Sess -> {0} \cup Objects]
         /\ sessions \in 0 .. MaxTurns /\ active \in 0 .. sessions /\ active \in 0 .. MaxTurns
         /\ turns \in turns .. MaxTurns /\ turns \in 0 .. MaxTurns
         /\ tok \in 0 .. turns /\ 0 \in 0 .. turns /\ 0 \in 0 .. sessions
         /\ overlap \in BOOLEAN /\ gate \in BOOLEAN /\ events \in 0 .. MaxEvents
         /\ messages \in 0 .. MaxMessages
  BY Numbers DEF TypeOK, WorkerTypes

LEMMA FrameKeepsTypes ==
  ASSUME TypeOK, SendsToWorker, NEW w \in Workers, WorkerFrame(w)
  PROVE  TypeOK' /\ SendsToWorker'
  <1>1. NoBg \in [turn : 0 .. turns', reason : {"none", "user", "shutdown"}]
        /\ bg \in [turn : 0 .. turns', reason : {"none", "user", "shutdown"}]
    <2>1. turns \in 0 .. MaxTurns /\ turns' \in turns .. MaxTurns /\ 0 .. turns \subseteq 0 .. turns'
      BY Numbers, SameVariables DEF WorkerFrame
    <2>2. bg \in [turn : 0 .. turns, reason : {"none", "user", "shutdown"}]
      BY DEF TypeOK
    <2>3. 0 \in 0 .. turns'
      BY <2>1, Numbers
    <2>4. QED
      BY <2>1, <2>2, <2>3 DEF NoBg
  <1>2. compact' \in [pc : {"off", "armed", "fired", "run"}, sess : 0 .. MaxTurns,
                      obj : {0} \cup Objects, cancelled : BOOLEAN]
    BY CancelledType DEF TypeOK, WorkerFrame
  <1>3. turns' \in 0 .. MaxTurns
    BY Numbers, SameVariables DEF WorkerFrame
  <1>4. wk' \in [Workers -> WorkerType]
    BY DEF WorkerFrame, OnlyWorker, WorkerTypes
  <1>5. wmap' \in Workers \cup {NoWorker} /\ gate' \in BOOLEAN
    BY DEF WorkerFrame, TypeOK
  <1>6. bg' \in [turn : 0 .. turns', reason : {"none", "user", "shutdown"}]
    BY <1>1 DEF WorkerFrame
  <1>7. /\ hnd' \in [Handlers -> [pc : {"idle", "spawn", "send"}, to : Workers \cup {NoWorker}]]
        /\ messages' \in 0 .. MaxMessages
        /\ deliv' \in [pc : {"off", "enter", "lock", "run"},
                       sess : 0 .. MaxTurns, obj : {0} \cup Objects]
        /\ driver' \in {"up", "signal", "cancelling", "done"}
        /\ life' \in {"up", "ending", "exited"} /\ shut' \in BOOLEAN
    BY DEF WorkerFrame, TypeOK
  <1>8. /\ sessions' \in 0 .. MaxTurns /\ active' \in 0 .. sessions' /\ tok' \in 0 .. turns'
        /\ overlap' \in BOOLEAN /\ locks' \in [Sess -> {0} \cup Objects]
        /\ events' \in 0 .. MaxEvents
    BY DEF WorkerFrame
  <1>9. TypeOK'
    BY <1>2, <1>3, <1>4, <1>5, <1>6, <1>7, <1>8 DEF TypeOK
  <1>10. SendsToWorker'
    BY DEF WorkerFrame, SendsToWorker
  <1>11. QED
    BY <1>9, <1>10

LEMMA EntryTaken ==
  ASSUME TypeOK, NEW s \in Sess, TakeEntry(s)
  PROVE  locks' \in [Sess -> {0} \cup Objects]
  <1>1. Entry(s) \in Objects /\ locks \in [Sess -> {0} \cup Objects]
    BY EntryType, Typed
  <1>2. QED
    BY <1>1 DEF TakeEntry

LEMMA WorkerIsFramed ==
  ASSUME TypeOK, ObjectsInPlace, TurnsApart, NEW w \in Workers, WorkerStep(w)
  PROVE  WorkerFrame(w)
  <1> USE SameVariables, PcNames
  <1>1. CASE TakeBatch(w)
    BY <1>1, HasQuit, TakesBatch DEF TakeBatch, WorkerFrame, Cleared, shared, others, Up
  <1>2. CASE PassGate(w)
    BY <1>2, HasQuit, Steps DEF PassGate, WorkerFrame, Cleared, Stepped, shared, others, Up
  <1>3. CASE StartTurn(w)
    <2>1. OnlyWorker(w) /\ wmap' \in {wmap, NoWorker} /\ turns' \in turns .. MaxTurns
      <3>1. OnlyWorker(w) /\ wmap' \in {wmap, NoWorker}
        BY <1>3, StartsTurn DEF Cleared, Begun
      <3>2. turns' = turns \/ (turns' = turns + 1 /\ turns' \in 0 .. MaxTurns)
        BY <1>3, StartsTurn DEF Begun
      <3>3. QED
        BY <3>1, <3>2, Numbers
    <2>2. tok \in 0 .. turns' /\ UNCHANGED <<messages, hnd, deliv, driver, life, shut, tok, bg,
                                             gate, overlap, locks>>
      BY <1>3, <2>1, Numbers DEF StartTurn, shared, Up
    <2>3. QED
      BY <1>3, <2>1, <2>2, StartsTurn DEF WorkerFrame
  <1>4. CASE EnterLock(w)
    <2>1. OnlyWorker(w) /\ locks' \in [Sess -> {0} \cup Objects] /\ events' \in 0 .. MaxEvents
      BY <1>4, EntersLock, EntryTaken DEF AtLock, Cleared
    <2>2. QED
      BY <1>4, <2>1 DEF EnterLock, WorkerFrame, shared, Up
  <1>5. CASE Lock(w)
    BY <1>5, Steps DEF Lock, WorkerFrame, Stepped, shared, others, Up
  <1>6. CASE Register(w)
    <2>1. OnlyWorker(w) /\ events' \in 0 .. MaxEvents
      BY <1>6, Steps, Rested, EventType DEF Register, Stepped, Cleared, Fault
    <2>2. wk[w].turn \in 0 .. turns
      BY WorkerAt, Numbers DEF TurnsApart, WorkerType
    <2>3. tok' \in 0 .. turns /\ overlap' \in BOOLEAN
      <3>1. CASE tok' = wk[w].turn
        BY <1>6, <2>2, <3>1 DEF Register
      <3>2. CASE tok' = tok
        BY <1>6, <3>2 DEF Register
      <3>3. QED
        BY <1>6, <3>1, <3>2 DEF Register
    <2>4. QED
      BY <1>6, <2>1, <2>3 DEF Register, WorkerFrame, others, Up
  <1>7. CASE CheckStop(w)
    BY <1>7, ChecksStop DEF CheckStop, WorkerFrame, Stepped, shared, others, Up
  <1>8. CASE TearDown(w)
    BY <1>8, TearsDown DEF TearDown, WorkerFrame, TornDown, shared, others, Up
  <1>9. CASE Release(w)
    BY <1>9, Rested DEF Release, WorkerFrame, Cleared, shared, others, Up
  <1>10. CASE Match(w)
    BY <1>10, Steps, Leaves DEF Match, WorkerFrame, Left, Stepped, Unlocks, Cleared, shared, others, Up
  <1>11. CASE Drop(w)
    BY <1>11, Leaves DEF Drop, WorkerFrame, Left, Stepped, Unlocks, Cleared, shared, others, Up
  <1>12. CASE SpawnChild(w)
    <2>1. OnlyWorker(w) /\ events' \in 0 .. MaxEvents
      BY <1>12, Steps, Rested, EventType DEF SpawnChild, Stepped, Cleared, Fault
    <2>2. QED
      BY <1>12, <2>1 DEF SpawnChild, ClearControls, WorkerFrame, others, Up
  <1>13. CASE ChildEnds(w)
    BY <1>13, ChildEnded DEF ChildEnds, WorkerFrame, shared, others, Up
  <1>14. CASE Finish(w)
    <2>1. OnlyWorker(w)
      BY <1>14, Finishes DEF HandsOff, Matches, Cleared, Unlocks
    <2>2. QED
      BY <1>14, <2>1, Finishes DEF Finish, WorkerFrame, others, Up
  <1>15. CASE Reply(w)
    BY <1>15, Steps, Rested DEF Reply, WorkerFrame, Stepped, Cleared, shared, Up
  <1>16. CASE Reflected(w)
    BY <1>16, Rested DEF Reflected, WorkerFrame, Cleared, shared, others, Up
  <1>17. CASE Handoff(w)
    <2>1. OnlyWorker(w) /\ events' \in 0 .. MaxEvents
      BY <1>17, Steps, Rested, EventType DEF Handoff, Stepped, Cleared, Fault
    <2>2. QED
      BY <1>17, <2>1 DEF Handoff, WorkerFrame, others, Up
  <1>18. CASE ForkConfirmed(w)
    BY <1>18, Rested DEF ForkConfirmed, WorkerFrame, Cleared, shared, others, Up
  <1>19. QED
    BY <1>1, <1>2, <1>3, <1>4, <1>5, <1>6, <1>7, <1>8, <1>9, <1>10, <1>11, <1>12, <1>13, <1>14,
       <1>15, <1>16, <1>17, <1>18 DEF WorkerStep

LEMMA HandlerTypes ==
  ASSUME TypeOK, SendsToWorker, NEW h \in Handlers, SpawnWorker(h) \/ Send(h)
  PROVE  /\ wk' \in WorkerTypes /\ wmap' \in Workers \cup {NoWorker}
         /\ hnd' \in [Handlers -> [pc : {"idle", "spawn", "send"}, to : Workers \cup {NoWorker}]]
         /\ SendsToWorker'
         /\ \A w \in Workers :
              \/ wk[w].pc = "none" /\ Cleared(w, "recv") /\ wk' = [wk EXCEPT ![w] = Idle]
              \/ /\ wk'[w].pc = wk[w].pc /\ wk'[w].turn = wk[w].turn /\ wk'[w].sess = wk[w].sess
                 /\ wk'[w].obj = wk[w].obj /\ wk'[w].cancelled = wk[w].cancelled /\ SameEnd(w)
  <1> DEFINE Same(w) ==
        /\ wk'[w].pc = wk[w].pc /\ wk'[w].turn = wk[w].turn /\ wk'[w].sess = wk[w].sess
        /\ wk'[w].obj = wk[w].obj /\ wk'[w].cancelled = wk[w].cancelled /\ SameEnd(w)
  <1>0. /\ wk \in WorkerTypes /\ wmap \in Workers \cup {NoWorker}
        /\ hnd \in [Handlers -> [pc : {"idle", "spawn", "send"}, to : Workers \cup {NoWorker}]]
    BY Typed DEF TypeOK
  <1>1. CASE SpawnWorker(h)
    <2> DEFINE w == CHOOSE v \in Workers : wk[v].pc = "none"
    <2>1. w \in Workers /\ wk[w].pc = "none"
      BY <1>1 DEF SpawnWorker
    <2>2. /\ wk' = [wk EXCEPT ![w] = Idle] /\ wmap' = w
          /\ hnd' = [hnd EXCEPT ![h] = [pc |-> "send", to |-> w]]
      BY <1>1 DEF SpawnWorker
    <2> HIDE DEF w
    <2>3. OnlyWorker(w) /\ wk'[w] = Idle
      BY <1>0, <2>1, <2>2, IdleType, WorkerSet DEF Now
    <2>4. Cleared(w, "recv")
      BY <2>3, IdleType DEF Cleared
    <2>5. \A v \in Workers \ {w} : Same(v)
      BY <2>3 DEF OnlyWorker, SameEnd
    <2>6. /\ hnd' \in [Handlers -> [pc : {"idle", "spawn", "send"}, to : Workers \cup {NoWorker}]]
          /\ SendsToWorker'
      BY <1>0, <2>1, <2>2 DEF SendsToWorker
    <2>7. QED
      BY <2>1, <2>2, <2>3, <2>4, <2>5, <2>6 DEF OnlyWorker
  <1>2. CASE Send(h)
    <2> DEFINE w == hnd[h].to
    <2>1. w \in Workers
      BY <1>2 DEF Send, SendsToWorker
    <2>2. CASE wk[w].pc = "gone"
      <3>1. /\ wmap' = NoWorker /\ wk' = wk
            /\ hnd' = [hnd EXCEPT ![h] = [pc |-> "spawn", to |-> NoWorker]]
        BY <1>2, <2>2 DEF Send
      <3>2. /\ hnd' \in [Handlers -> [pc : {"idle", "spawn", "send"}, to : Workers \cup {NoWorker}]]
            /\ SendsToWorker'
        BY <1>0, <3>1 DEF SendsToWorker
      <3>3. \A v \in Workers : Same(v)
        BY <3>1 DEF SameEnd
      <3>4. QED
        BY <1>0, <3>1, <3>2, <3>3
    <2>3. CASE wk[w].pc # "gone"
      <3> DEFINE x == [wk[w] EXCEPT !.mail = @ + 1]
      <3>1. Now(w, x)
        BY <1>2, <2>3 DEF Send
      <3>2. wmap' = wmap /\ hnd' = [hnd EXCEPT ![h] = [pc |-> "idle", to |-> NoWorker]]
        BY <1>2, <2>3 DEF Send
      <3>3. /\ x \in WorkerType /\ x.pc = wk[w].pc /\ x.turn = wk[w].turn /\ x.sess = wk[w].sess
            /\ x.obj = wk[w].obj /\ x.cancelled = wk[w].cancelled /\ x.end = wk[w].end
            /\ x.why = wk[w].why /\ x.next = wk[w].next
        BY <1>0, <2>1, WorkerAt DEF WorkerType
      <3> HIDE DEF x, w
      <3>4. OnlyWorker(w) /\ wk'[w] = x
        BY <1>0, <2>1, <3>1, <3>3, WorkerSet
      <3>5. \A v \in Workers : Same(v)
        BY <3>3, <3>4 DEF OnlyWorker, SameEnd
      <3>6. /\ hnd' \in [Handlers -> [pc : {"idle", "spawn", "send"}, to : Workers \cup {NoWorker}]]
            /\ SendsToWorker'
        BY <1>0, <3>2 DEF SendsToWorker
      <3>7. QED
        BY <1>0, <3>2, <3>4, <3>5, <3>6 DEF OnlyWorker
    <2>4. QED
      BY <2>2, <2>3
  <1>3. QED
    BY <1>1, <1>2

LEMMA CompactionTypes ==
  ASSUME TypeOK, ObjectsInPlace, CompactionFires \/ CompactionLocks \/ CompactionEnds
  PROVE  /\ compact' \in [pc : {"off", "armed", "fired", "run"}, sess : 0 .. MaxTurns,
                          obj : {0} \cup Objects, cancelled : BOOLEAN]
         /\ locks' \in [Sess -> {0} \cup Objects]
         /\ compact'.pc = "fired" => compact'.sess # 0
         /\ \/ /\ compact'.obj = 0 /\ compact'.pc # "run"
               /\ \/ UNCHANGED locks
                  \/ compact.pc = "fired" /\ compact.sess \in Sess /\ TakeEntry(compact.sess)
            \/ /\ compact.pc = "fired" /\ compact'.pc = "run" /\ TakeEntry(compact.sess)
               /\ compact.sess \in Sess
               /\ compact'.sess = compact.sess /\ compact'.obj = Entry(compact.sess)
               /\ Unlocked(Entry(compact.sess))
  <1>0. /\ compact \in [pc : {"off", "armed", "fired", "run"}, sess : 0 .. MaxTurns,
                        obj : {0} \cup Objects, cancelled : BOOLEAN]
        /\ locks \in [Sess -> {0} \cup Objects] /\ active \in 0 .. MaxTurns
        /\ compact.pc = "run" <=> compact.obj # 0
    BY SameVariables DEF TypeOK, ObjectsInPlace
  <1>1. /\ NoCompaction \in [pc : {"off", "armed", "fired", "run"}, sess : 0 .. MaxTurns,
                             obj : {0} \cup Objects, cancelled : BOOLEAN]
        /\ NoCompaction.obj = 0 /\ NoCompaction.pc = "off"
    BY Numbers DEF NoCompaction
  <1>2. CASE CompactionFires
    <2> DEFINE x == [compact EXCEPT !.pc = "fired", !.sess = active]
    <2>1. compact.pc = "armed" => x.pc = "fired" /\ x.sess = active /\ x.obj = 0
          /\ x \in [pc : {"off", "armed", "fired", "run"}, sess : 0 .. MaxTurns,
                    obj : {0} \cup Objects, cancelled : BOOLEAN]
      BY <1>0
    <2>2. /\ compact.pc = "armed" /\ UNCHANGED locks
          /\ compact' = NoCompaction \/ (active # 0 /\ compact' = x)
      BY <1>2 DEF CompactionFires
    <2> HIDE DEF x
    <2>3. QED
      BY <1>0, <1>1, <2>1, <2>2
  <1>3. CASE CompactionLocks
    <2> DEFINE o == Entry(compact.sess)
               x == [compact EXCEPT !.pc = "run", !.obj = o]
    <2>1. compact.sess \in Sess /\ compact.pc = "fired"
      BY <1>0, <1>3, Numbers DEF CompactionLocks, ObjectsInPlace, Sess
    <2>2. o \in Objects /\ locks' \in [Sess -> {0} \cup Objects] /\ TakeEntry(compact.sess)
      BY <1>0, <1>3, <2>1, EntryType, EntryTaken DEF CompactionLocks
    <2>3. (Unlocked(o) /\ compact' = x) \/ compact' = NoCompaction
      BY <1>3 DEF CompactionLocks
    <2>4. o = Entry(compact.sess)
      OBVIOUS
    <2> HIDE DEF o
    <2>5. x.pc = "run" /\ x.sess = compact.sess /\ x.obj = o
          /\ x \in [pc : {"off", "armed", "fired", "run"}, sess : 0 .. MaxTurns,
                    obj : {0} \cup Objects, cancelled : BOOLEAN]
      BY <1>0, <2>2
    <2> HIDE DEF x
    <2>6. QED
      BY <1>1, <2>1, <2>2, <2>3, <2>4, <2>5
  <1>4. CASE CompactionEnds
    BY <1>0, <1>1, <1>4 DEF CompactionEnds
  <1>5. QED
    BY <1>2, <1>3, <1>4

LEMMA DeliveryTypes ==
  ASSUME TypeOK, ObjectsInPlace, DeliveryPicks \/ DeliveryEnters \/ DeliveryLocks \/ DeliveryEnds
  PROVE  /\ deliv' \in [pc : {"off", "enter", "lock", "run"}, sess : 0 .. MaxTurns,
                        obj : {0} \cup Objects]
         /\ locks' \in [Sess -> {0} \cup Objects] /\ events' \in 0 .. MaxEvents
         /\ deliv'.pc = "enter" => deliv'.sess # 0
         /\ \/ deliv'.obj = 0 /\ deliv'.pc \notin {"lock", "run"} /\ UNCHANGED locks
            \/ /\ deliv.pc = "enter" /\ deliv'.pc = "lock" /\ TakeEntry(deliv.sess)
               /\ deliv.sess \in Sess
               /\ deliv'.sess = deliv.sess /\ deliv'.obj = Entry(deliv.sess)
               /\ Entry(deliv.sess) # 0
            \/ /\ deliv.pc = "lock" /\ deliv'.pc = "run" /\ UNCHANGED locks
               /\ deliv'.sess = deliv.sess /\ deliv'.obj = deliv.obj /\ Unlocked(deliv.obj)
  <1>0. /\ deliv \in [pc : {"off", "enter", "lock", "run"}, sess : 0 .. MaxTurns,
                      obj : {0} \cup Objects]
        /\ locks \in [Sess -> {0} \cup Objects] /\ active \in 0 .. MaxTurns
        /\ events \in 0 .. MaxEvents
    BY SameVariables DEF TypeOK
  <1>1. CASE DeliveryPicks
    <2>1. /\ deliv' = [pc |-> "enter", sess |-> active, obj |-> 0] /\ active # 0
          /\ UNCHANGED locks /\ events' \in 0 .. MaxEvents
      BY <1>1, EventType DEF DeliveryPicks
    <2>2. QED
      BY <1>0, <2>1
  <1>2. CASE DeliveryEnters
    <2> DEFINE o == Entry(deliv.sess)
               x == [deliv EXCEPT !.pc = "lock", !.obj = o]
    <2>1. deliv.sess \in Sess /\ deliv.pc = "enter"
      BY <1>0, <1>2, Numbers DEF DeliveryEnters, ObjectsInPlace, Sess
    <2>2. o \in Objects /\ o # 0 /\ locks' \in [Sess -> {0} \cup Objects] /\ TakeEntry(deliv.sess)
          /\ events' = events
      BY <1>0, <1>2, <2>1, EntryType, EntryTaken DEF DeliveryEnters
    <2>3. deliv' = x /\ o = Entry(deliv.sess)
      BY <1>2 DEF DeliveryEnters
    <2> HIDE DEF o
    <2>4. x.pc = "lock" /\ x.sess = deliv.sess /\ x.obj = o
          /\ x \in [pc : {"off", "enter", "lock", "run"}, sess : 0 .. MaxTurns,
                    obj : {0} \cup Objects]
      BY <1>0, <2>2
    <2> HIDE DEF x
    <2>5. QED
      BY <1>0, <2>1, <2>2, <2>3, <2>4
  <1>3. CASE DeliveryLocks
    <2> DEFINE x == [deliv EXCEPT !.pc = "run"]
    <2>1. deliv.pc = "lock" /\ Unlocked(deliv.obj) /\ deliv' = x /\ UNCHANGED <<locks, events>>
      BY <1>3 DEF DeliveryLocks
    <2>2. x.pc = "run" /\ x.sess = deliv.sess /\ x.obj = deliv.obj
          /\ x \in [pc : {"off", "enter", "lock", "run"}, sess : 0 .. MaxTurns,
                    obj : {0} \cup Objects]
      BY <1>0
    <2> HIDE DEF x
    <2>3. QED
      BY <1>0, <2>1, <2>2
  <1>4. CASE DeliveryEnds
    <2>1. deliv' = OffTask /\ UNCHANGED <<locks, events>>
      BY <1>4 DEF DeliveryEnds
    <2>2. OffTask.pc = "off" /\ OffTask.sess = 0 /\ OffTask.obj = 0
          /\ OffTask \in [pc : {"off", "enter", "lock", "run"}, sess : 0 .. MaxTurns,
                          obj : {0} \cup Objects]
      BY Numbers DEF OffTask
    <2>3. QED
      BY <1>0, <2>1, <2>2
  <1>5. QED
    BY <1>1, <1>2, <1>3, <1>4

LEMMA AllReset ==
  ASSUME TypeOK, Exit
  PROVE  /\ TypeOK' /\ SendsToWorker'
         /\ \A w \in Workers : wk'[w] = Unborn
         /\ compact'.obj = 0 /\ compact'.pc = "off" /\ deliv'.obj = 0 /\ deliv'.pc = "off"
  <1>1. wk' \in [Workers -> WorkerType] /\ \A w \in Workers : wk'[w] = Unborn
    BY UnbornType DEF Exit
  <1>2. /\ hnd' \in [Handlers -> [pc : {"idle", "spawn", "send"}, to : Workers \cup {NoWorker}]]
        /\ SendsToWorker'
    BY DEF Exit, SendsToWorker
  <1>3. /\ compact' \in [pc : {"off", "armed", "fired", "run"}, sess : 0 .. MaxTurns,
                         obj : {0} \cup Objects, cancelled : BOOLEAN]
        /\ compact'.obj = 0 /\ compact'.pc = "off"
    BY Numbers DEF Exit, NoCompaction
  <1>4. /\ deliv' \in [pc : {"off", "enter", "lock", "run"}, sess : 0 .. MaxTurns,
                       obj : {0} \cup Objects]
        /\ deliv'.obj = 0 /\ deliv'.pc = "off"
    BY Numbers DEF Exit, OffTask
  <1>5. /\ wmap' \in Workers \cup {NoWorker} /\ tok' \in 0 .. turns' /\ gate' \in BOOLEAN
        /\ locks' \in [Sess -> {0} \cup Objects] /\ life' \in {"up", "ending", "exited"}
        /\ bg' \in [turn : 0 .. turns', reason : {"none", "user", "shutdown"}]
    BY SameVariables DEF Exit, ClearControls, NoBg
  <1>6. /\ turns' \in 0 .. MaxTurns /\ sessions' \in 0 .. MaxTurns /\ active' \in 0 .. sessions'
        /\ shut' \in BOOLEAN /\ overlap' \in BOOLEAN
        /\ driver' \in {"up", "signal", "cancelling", "done"}
        /\ messages' \in 0 .. MaxMessages /\ events' \in 0 .. MaxEvents
    BY DEF Exit, TypeOK
  <1>7. TypeOK'
    BY <1>1, <1>2, <1>3, <1>4, <1>5, <1>6 DEF TypeOK
  <1>8. QED
    BY <1>1, <1>2, <1>3, <1>4, <1>7

LEMMA TypeStep ==
  ASSUME TypeOK, SendsToWorker, ObjectsInPlace, TurnsApart, TokenOwned, Next
  PROVE  TypeOK' /\ SendsToWorker'
  <1>1. CASE Receive
    <2> DEFINE h == CHOOSE g \in Handlers : hnd[g].pc = "idle"
    <2>1. h \in Handlers /\ wmap \in Workers \cup {NoWorker}
          /\ hnd \in [Handlers -> [pc : {"idle", "spawn", "send"}, to : Workers \cup {NoWorker}]]
      BY <1>1 DEF Receive, TypeOK
    <2>2. hnd' = [hnd EXCEPT ![h] = [pc |-> IF wmap = NoWorker THEN "spawn" ELSE "send",
                                     to |-> wmap]]
      BY <1>1 DEF Receive
    <2> HIDE DEF h
    <2>3. SendsToWorker'
          /\ hnd' \in [Handlers -> [pc : {"idle", "spawn", "send"}, to : Workers \cup {NoWorker}]]
      BY <1>1, <2>1, <2>2 DEF SendsToWorker, Receive
    <2>4. messages' \in 0 .. MaxMessages
      BY <1>1, Numbers, SameVariables DEF Receive
    <2>5. QED
      BY <1>1, <2>3, <2>4 DEF Receive, TypeOK, shared, others, Up
  <1>2. CASE \E h \in Handlers : HandlerStep(h)
    <2>1. PICK h \in Handlers : SpawnWorker(h) \/ Send(h)
      BY <1>2 DEF HandlerStep
    <2>2. /\ wk' \in WorkerTypes /\ wmap' \in Workers \cup {NoWorker} /\ SendsToWorker'
          /\ hnd' \in [Handlers -> [pc : {"idle", "spawn", "send"}, to : Workers \cup {NoWorker}]]
      BY <2>1, HandlerTypes
    <2>3. UNCHANGED <<messages, active, sessions, turns, shared, others, events, driver, life, shut>>
      BY <2>1 DEF SpawnWorker, Send, Up
    <2>4. QED
      BY <2>2, <2>3 DEF TypeOK, WorkerTypes, shared, others
  <1>3. CASE NewCommand
    <2>1. sessions' \in 0 .. MaxTurns /\ active' \in 0 .. sessions' /\ events' \in 0 .. MaxEvents
      BY <1>3, CreatedType, EventType, SameVariables DEF NewCommand
    <2>2. QED
      BY <1>3, <2>1 DEF NewCommand, TypeOK, SendsToWorker, shared, others, Up
  <1>4. CASE SwitchCommand
    <2>1. active' \in 0 .. sessions' /\ events' \in 0 .. MaxEvents
      BY <1>4, EventType, SameVariables, Numbers DEF SwitchCommand
    <2>2. QED
      BY <1>4, <2>1 DEF SwitchCommand, TypeOK, SendsToWorker, shared, others, Up
  <1>5. CASE StopClick \/ BgClick \/ RequestHandoffs
    <2>1. wk' \in WorkerTypes
      BY <1>5, SameVariables, TokenCancelled DEF StopClick, BgClick, RequestHandoffs
    <2>2. events' \in 0 .. MaxEvents
      BY <1>5, EventType, SameVariables DEF StopClick, BgClick, RequestHandoffs
    <2>3. bg' \in [turn : 0 .. turns, reason : {"none", "user", "shutdown"}] /\ gate' \in BOOLEAN
      <3>1. /\ bg \in [turn : 0 .. turns, reason : {"none", "user", "shutdown"}]
            /\ [turn |-> tok, reason |-> "user"]
                  \in [turn : 0 .. turns, reason : {"none", "user", "shutdown"}]
            /\ [turn |-> tok, reason |-> "shutdown"]
                  \in [turn : 0 .. turns, reason : {"none", "user", "shutdown"}]
        BY SameVariables DEF TypeOK
      <3>2. QED
        BY <1>5, <3>1, SameVariables DEF StopClick, BgClick, RequestHandoffs, shared
    <2>4. driver' \in {"up", "signal", "cancelling", "done"} /\ tok' = tok /\ overlap' = overlap
          /\ UNCHANGED <<messages, wmap, hnd, active, sessions, turns, others, life, shut>>
      BY <1>5 DEF StopClick, BgClick, RequestHandoffs, TypeOK, shared, Up
    <2>5. QED
      BY <2>1, <2>2, <2>3, <2>4 DEF TypeOK, SendsToWorker, WorkerTypes, others
  <1>6. CASE \E w \in Workers : WorkerStep(w)
    BY <1>6, WorkerIsFramed, FrameKeepsTypes
  <1>7. CASE CompactionFires \/ CompactionLocks \/ CompactionEnds
    <2>1. /\ compact' \in [pc : {"off", "armed", "fired", "run"}, sess : 0 .. MaxTurns,
                           obj : {0} \cup Objects, cancelled : BOOLEAN]
          /\ locks' \in [Sess -> {0} \cup Objects]
      BY <1>7, CompactionTypes
    <2>2. UNCHANGED <<messages, wmap, wk, hnd, active, sessions, turns, shared, deliv, events,
                      driver, life, shut>>
      BY <1>7 DEF CompactionFires, CompactionLocks, CompactionEnds, Up
    <2>3. QED
      BY <2>1, <2>2 DEF TypeOK, SendsToWorker, shared
  <1>8. CASE DeliveryPicks \/ DeliveryEnters \/ DeliveryLocks \/ DeliveryEnds
    <2>1. /\ deliv' \in [pc : {"off", "enter", "lock", "run"}, sess : 0 .. MaxTurns,
                         obj : {0} \cup Objects]
          /\ locks' \in [Sess -> {0} \cup Objects] /\ events' \in 0 .. MaxEvents
      BY <1>8, DeliveryTypes
    <2>2. UNCHANGED <<messages, wmap, wk, hnd, active, sessions, turns, shared, compact,
                      driver, life, shut>>
      BY <1>8 DEF DeliveryPicks, DeliveryEnters, DeliveryLocks, DeliveryEnds, Up
    <2>3. QED
      BY <2>1, <2>2 DEF TypeOK, SendsToWorker, shared
  <1>9. CASE Sweep
    <2>1. locks' \in [Sess -> {0} \cup Objects]
      BY <1>9, SameVariables DEF Sweep
    <2>2. QED
      BY <1>9, <2>1 DEF Sweep, TypeOK, SendsToWorker, shared, Up
  <1>10. CASE Signal \/ CancelWorkers \/ Drained \/ DrainTimeout
    BY <1>10 DEF Signal, CancelWorkers, Drained, DrainTimeout, TypeOK, SendsToWorker, shared, others
  <1>11. CASE Exit
    BY <1>11, AllReset
  <1>12. QED
    BY <1>1, <1>2, <1>3, <1>4, <1>5, <1>6, <1>7, <1>8, <1>9, <1>10, <1>11 DEF Next, SessionStep
-----------------------------------------------------------------------------
(* The session locks.                                                       *)

LEMMA ProcAt ==
  /\ \A w \in Workers :
       /\ w \in Procs /\ w # "delivery" /\ w # "compaction"
       /\ ObjOf(w) = wk[w].obj /\ SessOf(w) = wk[w].sess
       /\ Holds(w) <=> wk[w].pc \in GuardPcs /\ wk[w].obj # 0
  /\ "delivery" \in Procs /\ ObjOf("delivery") = deliv.obj /\ SessOf("delivery") = deliv.sess
  /\ Holds("delivery") <=> deliv.pc = "run"
  /\ "compaction" \in Procs /\ ObjOf("compaction") = compact.obj
  /\ SessOf("compaction") = compact.sess /\ (Holds("compaction") <=> compact.pc = "run")
  /\ \A p \in Procs : p \in Workers \/ p = "delivery" \/ p = "compaction"
  BY ForegroundAssumption DEF Procs, ObjOf, SessOf, Holds

LEMMA ProcAtNext ==
  /\ \A w \in Workers :
       /\ ObjOf(w)' = wk'[w].obj /\ SessOf(w)' = wk'[w].sess
       /\ Holds(w)' <=> wk'[w].pc \in GuardPcs /\ wk'[w].obj # 0
  /\ ObjOf("delivery")' = deliv'.obj /\ SessOf("delivery")' = deliv'.sess
  /\ Holds("delivery")' <=> deliv'.pc = "run"
  /\ ObjOf("compaction")' = compact'.obj
  /\ SessOf("compaction")' = compact'.sess /\ (Holds("compaction")' <=> compact'.pc = "run")
  BY ForegroundAssumption DEF Procs, ObjOf, SessOf, Holds

\* A task that holds a lock has its object.
LEMMA HolderHasObject ==
  ASSUME ObjectsInPlace, NEW p \in Procs, Holds(p)
  PROVE  ObjOf(p) # 0
  BY ProcAt DEF ObjectsInPlace

\* The task p keeps what it has of the locks, or lets go of it.
Keeps(p) ==
  \/ ObjOf(p)' = 0 /\ ~Holds(p)'
  \/ ObjOf(p)' = ObjOf(p) /\ SessOf(p)' = SessOf(p) /\ (Holds(p)' => Holds(p))

LEMMA LocksKept ==
  ASSUME ObjectsInPlace, EntriesKept, OneHolder, \A p \in Procs : Keeps(p),
         \A s \in Sess : locks'[s] = locks[s] \/ \A p \in Procs : ObjOf(p) = 0 \/ ObjOf(p) # locks[s],
         \A p \in Procs : SessOf(p) # 0 => SessOf(p) \in Sess
  PROVE  EntriesKept' /\ OneHolder'
  <1>1. EntriesKept'
    <2> SUFFICES ASSUME NEW p \in Procs, ObjOf(p)' # 0
                 PROVE  SessOf(p)' # 0 /\ locks'[SessOf(p)'] = ObjOf(p)'
      BY DEF EntriesKept
    <2>1. ObjOf(p)' = ObjOf(p) /\ SessOf(p)' = SessOf(p)
      BY DEF Keeps
    <2>2. SessOf(p) \in Sess /\ locks[SessOf(p)] = ObjOf(p) /\ SessOf(p) # 0 /\ ObjOf(p) # 0
      BY <2>1 DEF EntriesKept
    <2>3. QED
      BY <2>1, <2>2
  <1>2. OneHolder'
    BY HolderHasObject DEF OneHolder, Keeps
  <1>3. QED
    BY <1>1, <1>2

\* The task p, which has the object o, gets its lock.
LEMMA LockGranted ==
  ASSUME ObjectsInPlace, EntriesKept, OneHolder, NEW p \in Procs, UNCHANGED locks,
         ObjOf(p)' = ObjOf(p), SessOf(p)' = SessOf(p), Unlocked(ObjOf(p)),
         \A q \in Procs \ {p} : Keeps(q)
  PROVE  EntriesKept' /\ OneHolder'
  <1>1. EntriesKept'
    BY DEF EntriesKept, Keeps
  <1>2. OneHolder'
    <2> SUFFICES ASSUME NEW q \in Procs, NEW r \in Procs, Holds(q)', Holds(r)',
                        ObjOf(q)' = ObjOf(r)', q # r
                 PROVE  FALSE
      BY DEF OneHolder
    <2>1. \A t \in Procs \ {p} : Holds(t)' => Holds(t) /\ ObjOf(t)' = ObjOf(t)
      BY DEF Keeps
    <2>2. CASE q # p /\ r # p
      BY <2>1, <2>2 DEF OneHolder
    <2>3. CASE q = p \/ r = p
      BY <2>1, <2>3 DEF Unlocked
    <2>4. QED
      BY <2>2, <2>3
  <1>3. QED
    BY <1>1, <1>2

\* The task p takes the entry of the session s, with or without its lock.
LEMMA EntryGiven ==
  ASSUME ObjectsInPlace, EntriesKept, OneHolder, NEW p \in Procs, NEW s \in Sess, TakeEntry(s),
         locks \in [Sess -> {0} \cup Objects],
         ObjOf(p)' = Entry(s), SessOf(p)' = s, Holds(p)' => Unlocked(Entry(s)),
         \A q \in Procs \ {p} : Keeps(q),
         \A q \in Procs : SessOf(q) # 0 => SessOf(q) \in Sess
  PROVE  EntriesKept' /\ OneHolder'
  <1>1. locks'[s] = Entry(s) /\ \A t \in Sess \ {s} : locks'[t] = locks[t]
    BY DEF TakeEntry
  <1>2. s # 0
    BY Numbers DEF Sess
  <1>3. EntriesKept'
    <2> SUFFICES ASSUME NEW q \in Procs, ObjOf(q)' # 0
                 PROVE  SessOf(q)' # 0 /\ locks'[SessOf(q)'] = ObjOf(q)'
      BY DEF EntriesKept
    <2>1. CASE q = p
      BY <1>1, <1>2, <2>1
    <2>2. CASE q # p
      <3>1. ObjOf(q)' = ObjOf(q) /\ SessOf(q)' = SessOf(q)
        BY <2>2 DEF Keeps
      <3>2. SessOf(q) \in Sess /\ locks[SessOf(q)] = ObjOf(q) /\ SessOf(q) # 0 /\ ObjOf(q) # 0
        BY <3>1 DEF EntriesKept
      <3>3. SessOf(q) = s => Entry(s) = locks[s]
        BY <3>2 DEF Entry
      <3>4. QED
        BY <1>1, <3>1, <3>2, <3>3
    <2>3. QED
      BY <2>1, <2>2
  <1>4. OneHolder'
    <2> SUFFICES ASSUME NEW q \in Procs, NEW r \in Procs, Holds(q)', Holds(r)',
                        ObjOf(q)' = ObjOf(r)', q # r
                 PROVE  FALSE
      BY DEF OneHolder
    <2>1. \A t \in Procs \ {p} : Holds(t)' => Holds(t) /\ ObjOf(t)' = ObjOf(t)
      BY DEF Keeps
    <2>2. CASE q # p /\ r # p
      BY <2>1, <2>2 DEF OneHolder
    <2>3. CASE q = p \/ r = p
      BY <2>1, <2>3 DEF Unlocked
    <2>4. QED
      BY <2>2, <2>3
  <1>5. QED
    BY <1>3, <1>4

LEMMA SessOfProc ==
  ASSUME TypeOK
  PROVE  \A p \in Procs : SessOf(p) # 0 => SessOf(p) \in Sess
  <1>1. \A w \in Workers : wk[w].sess \in 0 .. MaxTurns
    BY Typed, WorkerAt DEF WorkerType
  <1>2. deliv.sess \in 0 .. MaxTurns /\ compact.sess \in 0 .. MaxTurns
    BY DEF TypeOK
  <1>3. \A n \in 0 .. MaxTurns : n # 0 => n \in Sess
    BY Numbers DEF Sess
  <1>4. QED
    BY <1>1, <1>2, <1>3, ProcAt

\* A step of a worker that gets it no lock and no lock object.
LockFrame(w) ==
  /\ UNCHANGED locks
  /\ InPlace(w)'
  /\ \/ wk'[w].obj = 0
     \/ /\ SameLock(w) /\ wk'[w].sess = wk[w].sess
        /\ wk'[w].pc \in GuardPcs => wk[w].pc \in GuardPcs

LEMMA ClearedInPlace ==
  ASSUME NEW w \in Workers, NEW pc \in {"recv", "gone"}, Cleared(w, pc)
  PROVE  InPlace(w)' /\ wk'[w].obj = 0
  BY DEF Cleared, InPlace, Early, Registered, Handing

LEMMA SteppedInPlace ==
  ASSUME NEW w \in Workers, InPlace(w), SameLock(w), wk'[w].sess = wk[w].sess,
         \/ /\ wk[w].pc \in Registered \cup Handing \cup {"lock", "guarded"}
            /\ wk'[w].pc \in GuardPcs
         \/ wk[w].pc \in {"match", "drop"} /\ wk'[w].pc \in {"drop", "release"}
         \/ wk[w].pc \in {"recv", "batch"} /\ wk'[w].pc \in {"batch", "upgrade"}
         \/ wk[w].pc = "enter" /\ wk'[w].pc = "match"
         \/ wk[w].pc = "reply" /\ wk'[w].pc = "repair"
  PROVE  InPlace(w)'
  BY DEF InPlace, SameLock, Early, Registered, Handing, GuardPcs

LEMMA UnlockedInPlace ==
  ASSUME NEW w \in Workers, NEW pc \in {"reflect", "reply"}, Unlocks(w, pc)
  PROVE  InPlace(w)' /\ wk'[w].obj = 0
  BY DEF Unlocks, InPlace, Early, Registered, Handing

LEMMA LeftInPlace ==
  ASSUME NEW w \in Workers, InPlace(w), wk[w].pc \in {"match", "drop"}, Left(w), UNCHANGED locks
  PROVE  LockFrame(w)
  <1>1. CASE Stepped(w, "release")
    BY <1>1, SteppedInPlace DEF Stepped, SameTurn, LockFrame, GuardPcs
  <1>2. CASE Unlocks(w, "reflect")
    BY <1>2, UnlockedInPlace DEF LockFrame
  <1>3. CASE Cleared(w, "recv")
    BY <1>3, ClearedInPlace DEF LockFrame
  <1>4. QED
    BY <1>1, <1>2, <1>3 DEF Left

LEMMA MostKeepLocks ==
  ASSUME TypeOK, ObjectsInPlace, NEW w \in Workers, WorkerStep(w), ~EnterLock(w), ~Lock(w)
  PROVE  LockFrame(w)
  <1>0. InPlace(w) /\ wk \in WorkerTypes
    BY Typed DEF ObjectsInPlace
  <1> USE PcNames
  <1>1. CASE TakeBatch(w)
    <2>1. UNCHANGED locks /\ wk[w].pc = "recv"
      BY <1>1 DEF TakeBatch, others
    <2>2. CASE Quit(w)
      BY <1>0, <2>1, <2>2, HasQuit, ClearedInPlace DEF LockFrame
    <2>3. CASE Now(w, [wk[w] EXCEPT !.pc = "batch", !.mail = 0])
      BY <1>0, <2>1, <2>3, TakesBatch DEF LockFrame, InPlace, SameLock, Early, Registered, Handing
    <2>4. QED
      BY <1>1, <2>2, <2>3 DEF TakeBatch
  <1>2. CASE PassGate(w)
    <2>1. UNCHANGED locks /\ wk[w].pc = "batch" /\ (Quit(w) \/ Move(w, "upgrade"))
      BY <1>2 DEF PassGate, others
    <2>2. CASE Quit(w)
      BY <1>0, <2>1, <2>2, HasQuit, ClearedInPlace DEF LockFrame
    <2>3. CASE Stepped(w, "upgrade")
      BY <1>0, <2>1, <2>3, SteppedInPlace DEF LockFrame, Stepped, SameTurn, GuardPcs
    <2>4. QED
      BY <1>0, <2>1, <2>2, <2>3, Steps
  <1>3. CASE StartTurn(w)
    <2>1. UNCHANGED locks /\ wk[w].pc = "upgrade" /\ wk[w].obj = 0
      BY <1>0, <1>3 DEF StartTurn, InPlace, Early
    <2>2. CASE Begun(w)
      BY <2>1, <2>2 DEF Begun, LockFrame, InPlace, Early, Registered, Handing
    <2>3. QED
      BY <1>3, <2>1, <2>2, StartsTurn, ClearedInPlace DEF LockFrame
  <1>4. CASE Register(w)
    <2>1. /\ UNCHANGED locks /\ wk[w].pc = "guarded"
          /\ Move(w, "registered") \/ Move(w, "match") \/ Rest(w)
      BY <1>4 DEF Register, others
    <2>2. CASE Stepped(w, "registered") \/ Stepped(w, "match")
      BY <1>0, <2>1, <2>2, SteppedInPlace DEF LockFrame, Stepped, SameTurn, GuardPcs
    <2>3. QED
      BY <1>0, <2>1, <2>2, Steps, Rested, ClearedInPlace DEF LockFrame
  <1>5. CASE CheckStop(w)
    <2>1. UNCHANGED locks /\ wk[w].pc = "registered" /\ SameTurn(w) /\ SameLock(w)
          /\ wk'[w].pc \in {"tearing", "spawning"}
      BY <1>5, ChecksStop DEF CheckStop, Stepped, others
    <2>2. QED
      BY <1>0, <2>1, SteppedInPlace DEF LockFrame, SameTurn, GuardPcs, Registered
  <1>6. CASE TearDown(w)
    <2>1. UNCHANGED locks /\ wk[w].pc = "tearing" /\ SameTurn(w) /\ SameLock(w)
          /\ wk'[w].pc \in {"handoff", "match", "release"}
      BY <1>0, <1>6, TearsDown DEF TearDown, TornDown, others
    <2>2. QED
      BY <1>0, <2>1, SteppedInPlace DEF LockFrame, SameTurn, GuardPcs, Registered
  <1>7. CASE Release(w) \/ Reflected(w) \/ ForkConfirmed(w)
    <2>1. UNCHANGED locks /\ Rest(w)
      BY <1>7 DEF Release, Reflected, ForkConfirmed, others
    <2>2. QED
      BY <1>0, <2>1, Rested, ClearedInPlace DEF LockFrame
  <1>8. CASE Match(w)
    <2>1. UNCHANGED locks /\ wk[w].pc = "match" /\ (Move(w, "drop") \/ Leave(w))
      BY <1>8 DEF Match, others
    <2>2. CASE Stepped(w, "drop")
      BY <1>0, <2>1, <2>2, SteppedInPlace DEF LockFrame, Stepped, SameTurn, GuardPcs
    <2>3. QED
      BY <1>0, <2>1, <2>2, Steps, Leaves, LeftInPlace
  <1>9. CASE Drop(w)
    <2>1. UNCHANGED locks /\ wk[w].pc = "drop" /\ Leave(w)
      BY <1>9 DEF Drop, others
    <2>2. QED
      BY <1>0, <2>1, Leaves, LeftInPlace
  <1>10. CASE SpawnChild(w)
    <2>1. /\ UNCHANGED locks /\ wk[w].pc = "spawning"
          /\ Move(w, "running") \/ Move(w, "match") \/ Rest(w)
      BY <1>10 DEF SpawnChild, others
    <2>2. CASE Stepped(w, "running") \/ Stepped(w, "match")
      BY <1>0, <2>1, <2>2, SteppedInPlace DEF LockFrame, Stepped, SameTurn, GuardPcs, Registered
    <2>3. QED
      BY <1>0, <2>1, <2>2, Steps, Rested, ClearedInPlace DEF LockFrame
  <1>11. CASE ChildEnds(w)
    <2>1. UNCHANGED locks /\ wk[w].pc = "running" /\ SameTurn(w) /\ SameLock(w)
          /\ wk'[w].pc = "ended"
      BY <1>11, ChildEnded DEF ChildEnds, others
    <2>2. QED
      BY <1>0, <2>1, SteppedInPlace DEF LockFrame, SameTurn, GuardPcs, Registered
  <1>12. CASE Finish(w)
    <2>1. UNCHANGED locks /\ wk[w].pc = "ended"
      BY <1>12 DEF Finish, others
    <2>2. CASE HandsOff(w) \/ Matches(w)
      <3>1. SameTurn(w) /\ SameLock(w) /\ wk'[w].pc \in {"handoff", "match"}
        BY <2>2 DEF HandsOff, Matches
      <3>2. QED
        BY <1>0, <2>1, <3>1, SteppedInPlace DEF LockFrame, SameTurn, GuardPcs, Registered
    <2>3. QED
      BY <1>12, <2>1, <2>2, Finishes, ClearedInPlace, UnlockedInPlace DEF LockFrame
  <1>13. CASE Reply(w)
    <2>1. /\ UNCHANGED locks
          /\ (wk[w].pc = "reply" /\ Move(w, "repair")) \/ Rest(w)
      BY <1>13 DEF Reply
    <2>2. CASE Stepped(w, "repair") /\ wk[w].pc = "reply"
      BY <1>0, <2>1, <2>2, SteppedInPlace DEF LockFrame, Stepped, SameTurn, GuardPcs
    <2>3. QED
      BY <1>0, <2>1, <2>2, Steps, Rested, ClearedInPlace DEF LockFrame
  <1>14. CASE Handoff(w)
    <2>1. UNCHANGED locks /\ wk[w].pc = "handoff" /\ (Move(w, "fork") \/ Rest(w))
      BY <1>14 DEF Handoff, others
    <2>2. CASE Stepped(w, "fork")
      BY <1>0, <2>1, <2>2, SteppedInPlace DEF LockFrame, Stepped, SameTurn, GuardPcs, Handing
    <2>3. QED
      BY <1>0, <2>1, <2>2, Steps, Rested, ClearedInPlace DEF LockFrame
  <1>15. QED
    BY <1>1, <1>2, <1>3, <1>4, <1>5, <1>6, <1>7, <1>8, <1>9, <1>10, <1>11, <1>12, <1>13, <1>14
       DEF WorkerStep

LEMMA CompactionAside ==
  ASSUME TypeOK, ObjectsInPlace, NEW w \in Workers, WorkerFrame(w)
  PROVE  /\ compact'.obj = compact.obj /\ compact'.sess = compact.sess
         /\ compact'.pc = "run" <=> compact.pc = "run"
         /\ compact'.pc = "fired" <=> compact.pc = "fired"
  <1>1. CASE compact' \in {compact, Cancelled(compact)}
    BY <1>1, CancelledType
  <1>2. CASE compact.pc = "off" /\ compact' = [compact EXCEPT !.pc = "armed"]
    BY <1>2 DEF TypeOK
  <1>3. QED
    BY <1>1, <1>2 DEF WorkerFrame

\* What the other tasks have of the locks when the worker w takes a step.
LEMMA OthersKeep ==
  ASSUME TypeOK, ObjectsInPlace, NEW w \in Workers, WorkerFrame(w)
  PROVE  /\ \A p \in Procs \ {w} : Keeps(p)
         /\ InPlace(w)' => ObjectsInPlace'
  <1>1. /\ compact'.obj = compact.obj /\ compact'.sess = compact.sess
        /\ compact'.pc = "run" <=> compact.pc = "run"
        /\ compact'.pc = "fired" <=> compact.pc = "fired"
        /\ deliv' = deliv /\ \A v \in Workers \ {w} : wk'[v] = wk[v]
    BY CompactionAside DEF WorkerFrame, OnlyWorker
  <1>2. ASSUME NEW p \in Procs \ {w}
        PROVE  Keeps(p)
    <2>1. CASE p \in Workers
      BY <1>1, <2>1, ProcAt, ProcAtNext DEF Keeps
    <2>2. CASE p = "delivery" \/ p = "compaction"
      BY <1>1, <2>2, ProcAt, ProcAtNext DEF Keeps
    <2>3. QED
      BY <2>1, <2>2, ProcAt
  <1>3. ASSUME InPlace(w)'
        PROVE  ObjectsInPlace'
    <2>1. \A v \in Workers : InPlace(v)'
      BY <1>1, <1>3 DEF ObjectsInPlace, InPlace
    <2>2. QED
      BY <1>1, <2>1 DEF ObjectsInPlace
  <1>4. QED
    BY <1>2, <1>3

LEMMA WorkerLocks ==
  ASSUME TypeOK, LockInv, TurnsApart, NEW w \in Workers, WorkerStep(w)
  PROVE  LockInv'
  <1>0. ObjectsInPlace /\ EntriesKept /\ OneHolder /\ wk \in WorkerTypes /\ InPlace(w)
    BY Typed DEF LockInv, ObjectsInPlace
  <1>1. WorkerFrame(w)
    BY <1>0, WorkerIsFramed
  <1>2. /\ \A p \in Procs \ {w} : Keeps(p)
        /\ InPlace(w)' => ObjectsInPlace'
    BY <1>0, <1>1, OthersKeep
  <1>3. \A p \in Procs : SessOf(p) # 0 => SessOf(p) \in Sess
    BY SessOfProc
  <1>4. w \in Procs /\ ObjOf(w) = wk[w].obj /\ SessOf(w) = wk[w].sess
        /\ ObjOf(w)' = wk'[w].obj /\ SessOf(w)' = wk'[w].sess
    BY ProcAt, ProcAtNext
  <1>5. ASSUME LockFrame(w)
        PROVE  LockInv'
    <2>1. Keeps(w)
      BY <1>5, ProcAt, ProcAtNext DEF LockFrame, Keeps, SameLock
    <2>2. EntriesKept' /\ OneHolder'
      BY <1>0, <1>2, <1>3, <1>5, <2>1, LocksKept DEF LockFrame
    <2>3. QED
      BY <1>2, <1>5, <2>2 DEF LockInv, LockFrame
  <1>6. CASE EnterLock(w)
    <2>0. wk[w].pc = "enter" /\ wk[w].obj = 0 /\ wk[w].sess \in Sess
      BY <1>0, <1>6, EntersLock DEF EnterLock, InPlace, Early
    <2>1. CASE AtLock(w) /\ TakeEntry(wk[w].sess)
      <3>1. wk'[w].obj = Entry(wk[w].sess) /\ wk'[w].sess = wk[w].sess /\ wk'[w].pc = "lock"
        BY <2>1 DEF AtLock, SameTurn
      <3>2. ~Holds(w)'
        BY <3>1, ProcAtNext DEF GuardPcs
      <3>3. wk'[w].obj # 0
        BY <2>0, <3>1, EntryType, Typed
      <3>4. EntriesKept' /\ OneHolder'
        BY <1>0, <1>2, <1>3, <1>4, <2>0, <2>1, <3>1, <3>2, EntryGiven, Typed
      <3>5. InPlace(w)'
        BY <3>1, <3>3 DEF InPlace, Early, Registered, Handing
      <3>6. QED
        BY <1>2, <3>4, <3>5 DEF LockInv
    <2>2. CASE UNCHANGED locks /\ Cleared(w, "recv")
      BY <1>5, <2>2, ClearedInPlace DEF LockFrame
    <2>3. CASE UNCHANGED locks /\ OnlyWorker(w) /\ wk'[w].pc = "match" /\ SameTurn(w) /\ SameLock(w)
      BY <1>0, <1>5, <2>0, <2>3, SteppedInPlace DEF LockFrame, SameLock, SameTurn
    <2>4. QED
      BY <1>0, <1>6, <2>1, <2>2, <2>3, EntersLock
  <1>7. CASE Lock(w)
    <2>1. wk[w].pc = "lock" /\ Unlocked(wk[w].obj) /\ UNCHANGED locks /\ Stepped(w, "guarded")
      BY <1>0, <1>7, Steps, PcNames DEF Lock, others
    <2>2. EntriesKept' /\ OneHolder'
      BY <1>0, <1>2, <1>4, <2>1, LockGranted DEF Stepped, SameLock, SameTurn
    <2>3. InPlace(w)'
      BY <1>0, <2>1, SteppedInPlace DEF Stepped, SameTurn, GuardPcs
    <2>4. QED
      BY <1>2, <2>2, <2>3 DEF LockInv
  <1>8. CASE ~EnterLock(w) /\ ~Lock(w)
    BY <1>0, <1>5, <1>8, MostKeepLocks
  <1>9. QED
    BY <1>6, <1>7, <1>8

\* A step of none of the workers, of delivery and of compaction.
LEMMA IdleLocks ==
  ASSUME TypeOK, LockInv, UNCHANGED <<locks, compact, deliv>>,
         \A w \in Workers : \/ wk'[w].obj = 0 /\ wk'[w].pc \in {"recv", "none"}
                            \/ /\ wk'[w].pc = wk[w].pc /\ wk'[w].obj = wk[w].obj
                               /\ wk'[w].sess = wk[w].sess
  PROVE  LockInv'
  <1>1. ObjectsInPlace'
    BY DEF LockInv, ObjectsInPlace, InPlace, Early, Registered, Handing
  <1>2. ASSUME NEW p \in Procs
        PROVE  Keeps(p)
    <2>1. CASE p \in Workers
      BY <2>1, ProcAt, ProcAtNext DEF Keeps
    <2>2. CASE p = "delivery" \/ p = "compaction"
      BY <2>2, ProcAt, ProcAtNext DEF Keeps
    <2>3. QED
      BY <2>1, <2>2, ProcAt
  <1>3. EntriesKept' /\ OneHolder'
    BY <1>2, LocksKept, SessOfProc DEF LockInv
  <1>4. QED
    BY <1>1, <1>3 DEF LockInv

LEMMA CompactionKeepsLocks ==
  ASSUME TypeOK, LockInv, CompactionFires \/ CompactionLocks \/ CompactionEnds
  PROVE  LockInv'
  <1>0. /\ ObjectsInPlace /\ EntriesKept /\ OneHolder
        /\ \A p \in Procs : SessOf(p) # 0 => SessOf(p) \in Sess
        /\ wk' = wk /\ deliv' = deliv
    BY SessOfProc DEF LockInv, CompactionFires, CompactionLocks, CompactionEnds
  <1>1. \A p \in Procs \ {"compaction"} : Keeps(p)
    BY <1>0, ProcAt, ProcAtNext DEF Keeps
  <1>2. /\ compact'.pc = "fired" => compact'.sess # 0
        /\ \/ /\ compact'.obj = 0 /\ compact'.pc # "run"
              /\ \/ UNCHANGED locks
                 \/ compact.pc = "fired" /\ compact.sess \in Sess /\ TakeEntry(compact.sess)
           \/ /\ compact.pc = "fired" /\ compact'.pc = "run" /\ TakeEntry(compact.sess)
              /\ compact.sess \in Sess
              /\ compact'.sess = compact.sess /\ compact'.obj = Entry(compact.sess)
              /\ Unlocked(Entry(compact.sess))
    BY <1>0, CompactionTypes
  <1>3. CASE compact'.obj = 0 /\ compact'.pc # "run"
    <2>1. \A p \in Procs : Keeps(p)
      BY <1>1, <1>3, ProcAtNext DEF Keeps
    <2>2. ASSUME NEW s \in Sess
          PROVE  locks'[s] = locks[s] \/ \A p \in Procs : ObjOf(p) = 0 \/ ObjOf(p) # locks[s]
      <3>1. locks[s] # 0 => locks'[s] = locks[s]
        BY <1>2, <1>3, Typed DEF TakeEntry, Entry
      <3>2. QED
        BY <3>1
    <2>3. EntriesKept' /\ OneHolder'
      BY <1>0, <2>1, <2>2, LocksKept
    <2>4. ObjectsInPlace'
      BY <1>0, <1>2, <1>3 DEF ObjectsInPlace, InPlace
    <2>5. QED
      BY <2>3, <2>4 DEF LockInv
  <1>4. CASE /\ compact.pc = "fired" /\ compact'.pc = "run" /\ TakeEntry(compact.sess)
             /\ compact.sess \in Sess
             /\ compact'.sess = compact.sess /\ compact'.obj = Entry(compact.sess)
             /\ Unlocked(Entry(compact.sess))
    <2>1. Entry(compact.sess) # 0
      BY <1>4, EntryType, Typed
    <2>2. EntriesKept' /\ OneHolder'
      BY <1>0, <1>1, <1>4, EntryGiven, ProcAt, ProcAtNext, Typed
    <2>3. ObjectsInPlace'
      BY <1>0, <1>4, <2>1 DEF ObjectsInPlace, InPlace
    <2>4. QED
      BY <2>2, <2>3 DEF LockInv
  <1>5. QED
    BY <1>2, <1>3, <1>4

LEMMA DeliveryKeepsLocks ==
  ASSUME TypeOK, LockInv, DeliveryPicks \/ DeliveryEnters \/ DeliveryLocks \/ DeliveryEnds
  PROVE  LockInv'
  <1>0. /\ ObjectsInPlace /\ EntriesKept /\ OneHolder
        /\ \A p \in Procs : SessOf(p) # 0 => SessOf(p) \in Sess
        /\ wk' = wk /\ compact' = compact
    BY SessOfProc DEF LockInv, DeliveryPicks, DeliveryEnters, DeliveryLocks, DeliveryEnds
  <1>1. \A p \in Procs \ {"delivery"} : Keeps(p)
    BY <1>0, ProcAt, ProcAtNext DEF Keeps
  <1>2. /\ deliv'.pc = "enter" => deliv'.sess # 0
        /\ \/ deliv'.obj = 0 /\ deliv'.pc \notin {"lock", "run"} /\ UNCHANGED locks
           \/ /\ deliv.pc = "enter" /\ deliv'.pc = "lock" /\ TakeEntry(deliv.sess)
              /\ deliv.sess \in Sess
              /\ deliv'.sess = deliv.sess /\ deliv'.obj = Entry(deliv.sess)
              /\ Entry(deliv.sess) # 0
           \/ /\ deliv.pc = "lock" /\ deliv'.pc = "run" /\ UNCHANGED locks
              /\ deliv'.sess = deliv.sess /\ deliv'.obj = deliv.obj /\ Unlocked(deliv.obj)
    BY <1>0, DeliveryTypes
  <1>3. CASE deliv'.obj = 0 /\ deliv'.pc \notin {"lock", "run"} /\ UNCHANGED locks
    <2>1. \A p \in Procs : Keeps(p)
      BY <1>1, <1>3, ProcAtNext DEF Keeps
    <2>2. EntriesKept' /\ OneHolder'
      BY <1>0, <1>3, <2>1, LocksKept
    <2>3. ObjectsInPlace'
      BY <1>0, <1>2, <1>3 DEF ObjectsInPlace, InPlace
    <2>4. QED
      BY <2>2, <2>3 DEF LockInv
  <1>4. CASE /\ deliv.pc = "enter" /\ deliv'.pc = "lock" /\ TakeEntry(deliv.sess)
             /\ deliv.sess \in Sess
             /\ deliv'.sess = deliv.sess /\ deliv'.obj = Entry(deliv.sess)
             /\ Entry(deliv.sess) # 0
    <2>1. EntriesKept' /\ OneHolder'
      BY <1>0, <1>1, <1>4, EntryGiven, ProcAt, ProcAtNext, Typed
    <2>2. ObjectsInPlace'
      BY <1>0, <1>4 DEF ObjectsInPlace, InPlace
    <2>3. QED
      BY <2>1, <2>2 DEF LockInv
  <1>5. CASE /\ deliv.pc = "lock" /\ deliv'.pc = "run" /\ UNCHANGED locks
             /\ deliv'.sess = deliv.sess /\ deliv'.obj = deliv.obj /\ Unlocked(deliv.obj)
    <2>1. EntriesKept' /\ OneHolder'
      BY <1>0, <1>1, <1>5, LockGranted, ProcAt, ProcAtNext
    <2>2. ObjectsInPlace'
      BY <1>0, <1>5 DEF ObjectsInPlace, InPlace
    <2>3. QED
      BY <2>1, <2>2 DEF LockInv
  <1>6. QED
    BY <1>2, <1>3, <1>4, <1>5

LEMMA LockStep ==
  ASSUME IInv, Next
  PROVE  LockInv'
  <1>0. /\ TypeOK /\ SendsToWorker /\ LockInv /\ ObjectsInPlace /\ EntriesKept /\ OneHolder
        /\ TurnsApart /\ TokenOwned /\ wk \in WorkerTypes
    BY Typed DEF IInv, LockInv, TurnInv
  <1>1. CASE \/ Receive \/ NewCommand \/ SwitchCommand \/ Signal \/ CancelWorkers
             \/ Drained \/ DrainTimeout
    <2>1. UNCHANGED <<wk, locks, compact, deliv>>
      BY <1>1 DEF Receive, NewCommand, SwitchCommand, Signal, CancelWorkers, Drained,
         DrainTimeout, others
    <2>2. QED
      BY <1>0, <2>1, IdleLocks
  <1>2. CASE \E h \in Handlers : HandlerStep(h)
    <2>1. PICK h \in Handlers : SpawnWorker(h) \/ Send(h)
      BY <1>2 DEF HandlerStep
    <2>2. UNCHANGED <<locks, compact, deliv>>
      BY <2>1 DEF SpawnWorker, Send, others
    <2>3. QED
      BY <1>0, <2>1, <2>2, HandlerTypes, IdleLocks DEF Cleared
  <1>3. CASE StopClick \/ BgClick \/ RequestHandoffs
    <2>1. UNCHANGED <<locks, compact, deliv>>
      BY <1>3 DEF StopClick, BgClick, RequestHandoffs, others
    <2>2. wk' = wk \/ (tok # 0 /\ wk' = Cancel(tok))
      BY <1>3 DEF StopClick, BgClick, RequestHandoffs
    <2>3. QED
      BY <1>0, <2>1, <2>2, TokenCancelled, IdleLocks
  <1>4. CASE \E w \in Workers : WorkerStep(w)
    BY <1>0, <1>4, WorkerLocks
  <1>5. CASE CompactionFires \/ CompactionLocks \/ CompactionEnds
    BY <1>0, <1>5, CompactionKeepsLocks
  <1>6. CASE DeliveryPicks \/ DeliveryEnters \/ DeliveryLocks \/ DeliveryEnds
    BY <1>0, <1>6, DeliveryKeepsLocks
  <1>7. CASE Sweep
    <2>1. UNCHANGED <<wk, compact, deliv>>
      BY <1>7 DEF Sweep
    <2>2. \A p \in Procs : Keeps(p)
      BY <2>1, ProcAt, ProcAtNext DEF Keeps
    <2>3. \A s \in Sess : locks'[s] = locks[s] \/ \A p \in Procs : ObjOf(p) = 0 \/ ObjOf(p) # locks[s]
      BY <1>7 DEF Sweep
    <2>4. EntriesKept' /\ OneHolder'
      BY <1>0, <2>2, <2>3, LocksKept, SessOfProc
    <2>5. ObjectsInPlace'
      BY <1>0, <2>1 DEF ObjectsInPlace, InPlace
    <2>6. QED
      BY <2>4, <2>5 DEF LockInv
  <1>8. CASE Exit
    <2>1. /\ \A w \in Workers : wk'[w].obj = 0 /\ wk'[w].pc = "none"
          /\ compact'.obj = 0 /\ compact'.pc = "off" /\ deliv'.obj = 0 /\ deliv'.pc = "off"
      BY <1>0, <1>8, AllReset, UnbornType
    <2>2. \A p \in Procs : ObjOf(p)' = 0 /\ ~Holds(p)'
      BY <2>1, ProcAt, ProcAtNext
    <2>3. QED
      BY <2>1, <2>2 DEF LockInv, ObjectsInPlace, InPlace, EntriesKept, OneHolder, Early,
         Registered, Handing
  <1>9. QED
    BY <1>1, <1>2, <1>3, <1>4, <1>5, <1>6, <1>7, <1>8 DEF Next, SessionStep

-----------------------------------------------------------------------------
(* The turn, its token and the requests made of it.                         *)

\* What a step of the worker w does to its turn and to the token.
TurnFrame(w) ==
  /\ OnlyWorker(w) /\ bg' \in {bg, NoBg} /\ (overlap => overlap')
  /\ \/ wk'[w].turn \in {0, wk[w].turn} /\ turns' = turns
     \/ wk'[w].turn = turns + 1 /\ turns' = turns + 1 /\ wk'[w].pc = "enter"
  /\ wk'[w].pc \in Prepared =>
       \/ wk'[w].turn = turns + 1
       \/ wk[w].pc \in Prepared /\ wk'[w].turn = wk[w].turn
  /\ wk'[w].pc \in Registered =>
       wk[w].pc \in Registered \cup {"guarded"} /\ wk'[w].turn = wk[w].turn
  /\ \/ /\ tok' = tok /\ (wk[w].pc \in Registered <=> wk'[w].pc \in Registered)
        /\ InTurn(w)' => InTurn(w)
     \/ /\ tok' = 0 /\ wk[w].pc \in Registered /\ wk'[w].pc \notin Registered
        /\ InTurn(w)' => InTurn(w)
     \/ /\ tok' = wk[w].turn /\ wk[w].pc = "guarded" /\ wk'[w].pc = "registered"
        /\ overlap' \/ \A v \in Workers \ {w} : wk[v].pc \notin TurnPcs

\* What it does to the gate and to what is known of the turn's end.
RequestFrame(w) ==
  /\ UNCHANGED <<driver, shut>>
  /\ wk'[w].pc \in Early \cup Prepared \cup Unended => wk'[w].end = "none"
  /\ wk'[w].pc \in Early \cup Prepared => wk'[w].next = "recv"
  /\ \/ gate' = gate
     \/ InTurn(w) /\ (wk'[w].pc \notin Registered \/ bg' = NoBg)
  /\ wk'[w].pc \in {"spawning", "running"} =>
       ~shut \/ (wk[w].pc \in {"spawning", "running"} /\ wk'[w].cancelled = wk[w].cancelled)
  /\ wk'[w].pc \in Handing /\ wk'[w].end = "result" => driver = "done"
  /\ ~overlap /\ wk'[w].pc \in Handing /\ wk'[w].why = "user" => gate'

\* Most steps leave the rest of the chat's state alone.
Quiet == UNCHANGED <<turns, tok, bg, gate, overlap, driver, shut>>

LEMMA InTurnNext ==
  ASSUME NEW w \in Workers
  PROVE  InTurn(w)' <=> \/ wk'[w].pc \in Registered \cup Handing \cup {"release"}
                        \/ wk'[w].pc \in {"match", "drop"} /\ wk'[w].next = "release"
  BY DEF InTurn

\* The task is back at its mailbox, or over.
LEMMA ClearedFrames ==
  ASSUME NEW w \in Workers, NEW pc \in {"recv", "gone"}, Cleared(w, pc),
         UNCHANGED <<turns, overlap, driver, shut>>, bg' \in {bg, NoBg},
         \/ tok' = tok /\ wk[w].pc \notin Registered
         \/ tok' = 0 /\ wk[w].pc \in Registered,
         gate' = gate \/ InTurn(w)
  PROVE  TurnFrame(w) /\ RequestFrame(w)
  BY InTurnNext DEF Cleared, TurnFrame, RequestFrame, Early, Prepared, Unended, Registered, Handing

\* The program counter moves on within the turn.
LEMMA SteppedFrames ==
  ASSUME NEW w \in Workers, OnlyWorker(w), SameTurn(w), SameEnd(w), Quiet, RequestInv,
         \/ /\ wk[w].pc \in Prepared \ {"guarded"} /\ wk'[w].pc \in Prepared
            /\ wk'[w].pc # "enter"
         \/ wk[w].pc \in {"enter", "guarded"} /\ wk'[w].pc = "match"
         \/ wk[w].pc = "batch" /\ wk'[w].pc = "upgrade"
         \/ wk[w].pc = "spawning" /\ wk'[w].pc = "running"
         \/ wk[w].pc = "match" /\ wk'[w].pc = "drop"
         \/ wk[w].pc \in {"match", "drop"} /\ wk'[w].pc = "release" /\ wk[w].next = "release"
         \/ wk[w].pc = "handoff" /\ wk'[w].pc = "fork"
         \/ wk[w].pc = "reply" /\ wk'[w].pc = "repair"
  PROVE  TurnFrame(w) /\ RequestFrame(w)
  <1>0. /\ wk'[w].turn = wk[w].turn /\ wk'[w].cancelled = wk[w].cancelled
        /\ wk'[w].end = wk[w].end /\ wk'[w].why = wk[w].why /\ wk'[w].next = wk[w].next
        /\ UNCHANGED <<turns, tok, bg, gate, overlap, driver, shut>>
    BY DEF SameTurn, SameEnd, Quiet
  <1>1. /\ wk[w].pc \in Early \cup Prepared \cup Unended => wk[w].end = "none"
        /\ wk[w].pc \in Early \cup Prepared => wk[w].next = "recv"
        /\ wk[w].pc \in Handing /\ wk[w].end = "result" => driver = "done"
        /\ ~overlap /\ wk[w].pc \in Handing /\ wk[w].why = "user" => gate
    BY DEF RequestInv, NoEndYet, ReplySurvivesClick, GateCoversHandoff, Handing
  <1>2. TurnFrame(w)
    BY <1>0, <1>1, InTurnNext DEF TurnFrame, InTurn, Early, Prepared, Registered, Handing
  <1>3. RequestFrame(w)
    BY <1>0, <1>1 DEF RequestFrame, Early, Prepared, Registered, Handing, Unended
  <1>4. QED
    BY <1>2, <1>3

LEMMA UnlockedFrames ==
  ASSUME NEW w \in Workers, NEW pc \in {"reflect", "reply"}, Unlocks(w, pc),
         UNCHANGED <<turns, overlap, driver, shut>>, bg' \in {bg, NoBg},
         \/ tok' = tok /\ wk[w].pc \notin Registered
         \/ tok' = 0 /\ wk[w].pc \in Registered,
         gate' = gate \/ InTurn(w)
  PROVE  TurnFrame(w) /\ RequestFrame(w)
  BY InTurnNext DEF Unlocks, SameTurn, TurnFrame, RequestFrame, Early, Prepared, Unended,
     Registered, Handing

LEMMA LeftFrames ==
  ASSUME NEW w \in Workers, wk[w].pc \in {"match", "drop"}, Left(w), Quiet, RequestInv
  PROVE  TurnFrame(w) /\ RequestFrame(w)
  <1>0. wk[w].pc \notin Registered /\ UNCHANGED <<turns, tok, bg, gate, overlap, driver, shut>>
    BY DEF Registered, Quiet
  <1>1. CASE wk[w].next = "release" /\ Stepped(w, "release")
    BY <1>1, SteppedFrames DEF Stepped
  <1>2. CASE Unlocks(w, "reflect")
    BY <1>0, <1>2, UnlockedFrames
  <1>3. CASE Cleared(w, "recv")
    BY <1>0, <1>3, ClearedFrames
  <1>4. QED
    BY <1>1, <1>2, <1>3 DEF Left

LEMMA WorkerFrames ==
  ASSUME TypeOK, LockInv, TurnInv, RequestInv, NEW w \in Workers, WorkerStep(w)
  PROVE  TurnFrame(w) /\ RequestFrame(w)
  <1>0. wk \in WorkerTypes /\ ObjectsInPlace
    BY Typed DEF LockInv
  <1> USE PcNames
  <1>1. CASE TakeBatch(w)
    <2>1. Quiet /\ wk[w].pc = "recv" /\ wk[w].pc \notin Registered
      BY <1>1 DEF TakeBatch, Quiet, shared, Up, Registered
    <2>2. CASE Quit(w)
      BY <1>0, <2>1, <2>2, HasQuit, ClearedFrames DEF Quiet
    <2>3. CASE Now(w, [wk[w] EXCEPT !.pc = "batch", !.mail = 0])
      <3>1. /\ OnlyWorker(w) /\ wk'[w].pc = "batch" /\ wk'[w].end = wk[w].end
            /\ wk'[w].why = wk[w].why /\ wk'[w].next = wk[w].next /\ wk'[w].turn = wk[w].turn
        BY <1>0, <2>3, TakesBatch DEF SameEnd
      <3>2. wk[w].end = "none" /\ wk[w].next = "recv"
        BY <2>1 DEF RequestInv, NoEndYet, Early
      <3>3. TurnFrame(w)
        BY <2>1, <3>1, InTurnNext DEF TurnFrame, InTurn, Quiet, Early, Prepared, Registered, Handing
      <3>4. RequestFrame(w)
        BY <2>1, <3>1, <3>2 DEF RequestFrame, Quiet, Early, Prepared, Registered, Handing, Unended
      <3>5. QED
        BY <3>3, <3>4
    <2>4. QED
      BY <1>1, <2>2, <2>3 DEF TakeBatch
  <1>2. CASE PassGate(w)
    <2>1. /\ Quiet /\ wk[w].pc = "batch" /\ wk[w].pc \notin Registered
          /\ Quit(w) \/ Move(w, "upgrade")
      BY <1>2 DEF PassGate, Quiet, shared, Up, Registered
    <2>2. CASE Quit(w)
      BY <1>0, <2>1, <2>2, HasQuit, ClearedFrames DEF Quiet
    <2>3. CASE Stepped(w, "upgrade")
      BY <2>1, <2>3, SteppedFrames DEF Stepped
    <2>4. QED
      BY <1>0, <2>1, <2>2, <2>3, Steps
  <1>3. CASE StartTurn(w)
    <2>1. /\ wk[w].pc = "upgrade" /\ wk[w].pc \notin Registered
          /\ UNCHANGED <<tok, bg, gate, overlap, driver, shut>>
      BY <1>3 DEF StartTurn, shared, Up, Registered
    <2>2. CASE Begun(w)
      <3>1. /\ OnlyWorker(w) /\ wk'[w].pc = "enter" /\ wk'[w].end = wk[w].end
            /\ wk'[w].next = wk[w].next /\ wk'[w].turn = turns + 1 /\ turns' = turns + 1
        BY <2>2 DEF Begun, SameEnd
      <3>2. wk[w].end = "none" /\ wk[w].next = "recv"
        BY <2>1 DEF RequestInv, NoEndYet, Early
      <3>3. TurnFrame(w)
        BY <2>1, <3>1, InTurnNext DEF TurnFrame, InTurn, Early, Prepared, Registered, Handing
      <3>4. RequestFrame(w)
        BY <2>1, <3>1, <3>2 DEF RequestFrame, Early, Prepared, Registered, Handing, Unended
      <3>5. QED
        BY <3>3, <3>4
    <2>3. CASE (Cleared(w, "gone") \/ Cleared(w, "recv")) /\ UNCHANGED turns
      BY <2>1, <2>3, ClearedFrames
    <2>4. QED
      BY <1>3, <2>2, <2>3, StartsTurn
  <1>4. CASE EnterLock(w)
    <2>1. Quiet /\ wk[w].pc = "enter" /\ wk[w].pc \notin Registered
      BY <1>4 DEF EnterLock, Quiet, shared, Up, Registered
    <2>2. CASE AtLock(w)
      BY <2>1, <2>2, SteppedFrames DEF AtLock, Prepared
    <2>3. CASE OnlyWorker(w) /\ wk'[w].pc = "match" /\ SameTurn(w) /\ SameEnd(w)
      BY <2>1, <2>3, SteppedFrames
    <2>4. CASE Cleared(w, "recv")
      BY <2>1, <2>4, ClearedFrames DEF Quiet
    <2>5. QED
      BY <1>0, <1>4, <2>2, <2>3, <2>4, EntersLock
  <1>5. CASE Lock(w)
    <2>1. Quiet /\ wk[w].pc = "lock" /\ Stepped(w, "guarded")
      BY <1>0, <1>5, Steps DEF Lock, Quiet, shared, Up
    <2>2. QED
      BY <2>1, SteppedFrames DEF Stepped, Prepared
  <1>6. CASE Register(w)
    <2>1. wk[w].pc = "guarded" /\ wk[w].pc \notin Registered
          /\ UNCHANGED <<turns, bg, gate, driver, shut>>
      BY <1>6 DEF Register, Up, Registered
    <2>2. CASE /\ Move(w, "registered") /\ tok' = wk[w].turn
               /\ overlap' = (\/ overlap
                              \/ \E v \in Workers \ {w} : wk[v].pc \in TurnPcs)
      <3>1. /\ OnlyWorker(w) /\ wk'[w].pc = "registered" /\ wk'[w].end = wk[w].end
            /\ wk'[w].next = wk[w].next /\ wk'[w].turn = wk[w].turn
        BY <1>0, <2>2, Steps DEF Stepped, SameTurn, SameEnd
      <3>2. wk[w].end = "none"
        BY <2>1 DEF RequestInv, NoEndYet, Prepared
      <3>3. overlap \in BOOLEAN
        BY DEF TypeOK
      <3>4. overlap => overlap'
        BY <2>2
      <3>5. overlap' \/ \A v \in Workers \ {w} : wk[v].pc \notin TurnPcs
        BY <2>2
      <3>6. TurnFrame(w)
        BY <2>1, <2>2, <3>1, <3>4, <3>5 DEF TurnFrame, Prepared, Registered
      <3>7. RequestFrame(w)
        BY <2>1, <3>1, <3>2 DEF RequestFrame, Early, Prepared, Registered, Handing, Unended
      <3>8. QED
        BY <3>6, <3>7
    <2>3. CASE Move(w, "match") /\ UNCHANGED <<tok, overlap>>
      BY <1>0, <2>1, <2>3, Steps, SteppedFrames DEF Stepped, Quiet
    <2>4. CASE Rest(w) /\ UNCHANGED <<tok, overlap>>
      BY <1>0, <2>1, <2>4, Rested, ClearedFrames
    <2>5. QED
      BY <1>6, <2>2, <2>3, <2>4 DEF Register
  <1>7. CASE CheckStop(w)
    <2>1. wk[w].pc = "registered" /\ UNCHANGED <<turns, tok, gate, overlap, driver, shut>>
      BY <1>7 DEF CheckStop, Up
    <2>2. /\ OnlyWorker(w) /\ wk'[w].pc \in {"tearing", "spawning"} /\ wk'[w].turn = wk[w].turn
          /\ wk'[w].end = wk[w].end /\ bg' \in {bg, NoBg} /\ (wk'[w].pc = "spawning" => ~shut)
      BY <1>7, ChecksStop DEF Stepped, SameTurn, SameEnd
    <2>3. wk[w].end = "none"
      BY <2>1 DEF RequestInv, NoEndYet, Unended
    <2>4. TurnFrame(w)
      BY <2>1, <2>2, InTurnNext DEF TurnFrame, InTurn, Prepared, Registered, Handing
    <2>5. RequestFrame(w)
      BY <2>1, <2>2, <2>3 DEF RequestFrame, Early, Prepared, Registered, Handing, Unended
    <2>6. QED
      BY <2>4, <2>5
  <1>8. CASE TearDown(w)
    <2>1. wk[w].pc = "tearing" /\ tok' = 0 /\ UNCHANGED <<turns, bg, gate, overlap, driver, shut>>
      BY <1>8 DEF TearDown, Up
    <2>2. /\ OnlyWorker(w) /\ wk'[w].pc \in {"handoff", "match", "release"}
          /\ wk'[w].turn = wk[w].turn /\ wk'[w].end = wk[w].end /\ wk'[w].why = "shutdown"
      BY <1>0, <1>8, TearsDown DEF TornDown, SameTurn
    <2>3. wk[w].end = "none" /\ InTurn(w)
      BY <2>1 DEF RequestInv, NoEndYet, Unended, InTurn, Registered
    <2>4. TurnFrame(w)
      BY <2>1, <2>2, <2>3 DEF TurnFrame, Prepared, Registered
    <2>5. RequestFrame(w)
      BY <2>1, <2>2, <2>3 DEF RequestFrame, Early, Prepared, Registered, Handing, Unended
    <2>6. QED
      BY <2>4, <2>5
  <1>9. CASE Release(w)
    <2>1. /\ wk[w].pc = "release" /\ UNCHANGED <<turns, tok, bg, overlap, driver, shut>>
          /\ Cleared(w, "recv")
      BY <1>0, <1>9, Rested DEF Release, Up
    <2>2. InTurn(w) /\ wk[w].pc \notin Registered
      BY <2>1 DEF InTurn, Registered
    <2>3. QED
      BY <2>1, <2>2, ClearedFrames
  <1>10. CASE Match(w)
    <2>1. Quiet /\ wk[w].pc = "match" /\ (Move(w, "drop") \/ Leave(w))
      BY <1>10 DEF Match, Quiet, shared, Up
    <2>2. CASE Stepped(w, "drop")
      BY <2>1, <2>2, SteppedFrames DEF Stepped
    <2>3. QED
      BY <1>0, <2>1, <2>2, Steps, Leaves, LeftFrames
  <1>11. CASE Drop(w)
    <2>1. Quiet /\ wk[w].pc = "drop" /\ Leave(w)
      BY <1>11 DEF Drop, Quiet, shared, Up
    <2>2. QED
      BY <1>0, <2>1, Leaves, LeftFrames
  <1>12. CASE SpawnChild(w)
    <2>1. wk[w].pc = "spawning" /\ UNCHANGED <<turns, overlap, driver, shut>>
      BY <1>12 DEF SpawnChild, Up
    <2>2. CASE Move(w, "running") /\ UNCHANGED <<tok, bg, gate>>
      BY <1>0, <2>1, <2>2, Steps, SteppedFrames DEF Stepped, Quiet
    <2>3. InTurn(w) /\ wk[w].pc \in Registered
      BY <2>1 DEF InTurn, Registered
    <2>4. CASE ClearControls /\ Rest(w)
      BY <1>0, <2>1, <2>3, <2>4, Rested, ClearedFrames DEF ClearControls
    <2>5. CASE ClearControls /\ Move(w, "match")
      <3>1. /\ OnlyWorker(w) /\ wk'[w].pc = "match" /\ wk'[w].turn = wk[w].turn
            /\ tok' = 0 /\ bg' = NoBg
        BY <1>0, <2>5, Steps DEF Stepped, SameTurn, ClearControls
      <3>2. TurnFrame(w)
        BY <2>1, <2>3, <3>1 DEF TurnFrame, Prepared, Registered
      <3>3. RequestFrame(w)
        BY <2>1, <2>3, <3>1 DEF RequestFrame, Early, Prepared, Registered, Handing, Unended
      <3>4. QED
        BY <3>2, <3>3
    <2>6. QED
      BY <1>12, <2>2, <2>4, <2>5 DEF SpawnChild
  <1>13. CASE ChildEnds(w)
    <2>1. wk[w].pc = "running" /\ UNCHANGED <<turns, tok, bg, gate, overlap, driver, shut>>
      BY <1>13 DEF ChildEnds, shared, Up
    <2>2. OnlyWorker(w) /\ wk'[w].pc = "ended" /\ wk'[w].turn = wk[w].turn
      BY <1>13, ChildEnded DEF SameTurn
    <2>3. InTurn(w)
      BY <2>1 DEF InTurn, Registered
    <2>4. TurnFrame(w)
      BY <2>1, <2>2, <2>3 DEF TurnFrame, Prepared, Registered
    <2>5. RequestFrame(w)
      BY <2>1, <2>2 DEF RequestFrame, Early, Prepared, Registered, Handing, Unended
    <2>6. QED
      BY <2>4, <2>5
  <1>14. CASE Finish(w)
    <2>1. /\ wk[w].pc = "ended" /\ tok' = 0 /\ bg' = NoBg
          /\ UNCHANGED <<turns, overlap, driver, shut>>
      BY <1>14, Finishes DEF Finish, Up
    <2>2. InTurn(w) /\ wk[w].pc \in Registered
      BY <2>1 DEF InTurn, Registered
    <2>3. CASE HandsOff(w) /\ gate' = IF Consumed(w) = "user" /\ wk[w].end = "result"
                                      THEN FALSE ELSE gate
      <3>1. /\ OnlyWorker(w) /\ wk'[w].pc = "handoff" /\ wk'[w].turn = wk[w].turn
            /\ wk'[w].end = wk[w].end
            /\ wk'[w].why = IF Honored(w) THEN Consumed(w) ELSE "timeout"
            /\ Honored(w) \/ wk[w].end = "timeout"
        BY <2>3 DEF HandsOff, SameTurn
      <3>2. wk[w].end = "result" => driver = "done"
        <4>1. SUFFICES ASSUME wk[w].end = "result"
                       PROVE  driver = "done"
          OBVIOUS
        <4>2. bg.reason = "shutdown"
          BY <3>1, <4>1 DEF Honored, Consumed
        <4>3. QED
          BY <4>2 DEF RequestInv, ShutdownRequest
      <3>3. ~overlap /\ wk'[w].why = "user" => gate'
        <4>1. SUFFICES ASSUME ~overlap, wk'[w].why = "user"
                       PROVE  gate'
          OBVIOUS
        <4>2. Honored(w) /\ Consumed(w) = "user"
          BY <3>1, <4>1
        <4>3. wk[w].end # "result" /\ bg.turn = wk[w].turn /\ bg.reason = "user"
          BY <4>2 DEF Honored, Consumed
        <4>4. gate
          BY <2>2, <4>1, <4>3 DEF RequestInv, GateCoversRequest
        <4>5. QED
          BY <2>3, <4>3, <4>4
      <3>4. TurnFrame(w)
        BY <2>1, <2>2, <3>1 DEF TurnFrame, Prepared, Registered
      <3>5. RequestFrame(w)
        BY <2>1, <2>2, <3>1, <3>2, <3>3 DEF RequestFrame, Early, Prepared, Registered, Handing,
           Unended
      <3>6. QED
        BY <3>4, <3>5
    <2>4. CASE Matches(w)
      <3>1. OnlyWorker(w) /\ wk'[w].pc = "match" /\ wk'[w].turn = wk[w].turn
        BY <2>4 DEF Matches, SameTurn
      <3>2. TurnFrame(w)
        BY <2>1, <2>2, <3>1 DEF TurnFrame, Prepared, Registered
      <3>3. RequestFrame(w)
        BY <2>1, <2>2, <3>1 DEF RequestFrame, Early, Prepared, Registered, Handing, Unended
      <3>4. QED
        BY <3>2, <3>3
    <2>5. CASE Cleared(w, "recv")
      BY <2>1, <2>2, <2>5, ClearedFrames
    <2>6. CASE Unlocks(w, "reflect") \/ Unlocks(w, "reply")
      BY <2>1, <2>2, <2>6, UnlockedFrames
    <2>7. QED
      BY <1>14, <2>3, <2>4, <2>5, <2>6, Finishes
  <1>15. CASE Reply(w)
    <2>1. /\ Quiet /\ wk[w].pc \in {"reply", "repair"}
          /\ (wk[w].pc = "reply" /\ Move(w, "repair")) \/ Rest(w)
      BY <1>15 DEF Reply, Quiet, shared, Up
    <2>2. CASE wk[w].pc = "reply" /\ Stepped(w, "repair")
      BY <2>1, <2>2, SteppedFrames DEF Stepped
    <2>3. wk[w].pc \notin Registered
      BY <2>1 DEF Registered
    <2>4. CASE Cleared(w, "recv")
      BY <2>1, <2>3, <2>4, ClearedFrames DEF Quiet
    <2>5. QED
      BY <1>0, <2>1, <2>2, <2>4, Steps, Rested
  <1>16. CASE Reflected(w)
    <2>1. Quiet /\ Cleared(w, "recv") /\ wk[w].pc \notin Registered
      BY <1>0, <1>16, Rested DEF Reflected, Quiet, shared, Up, Registered
    <2>2. QED
      BY <2>1, ClearedFrames DEF Quiet
  <1>17. CASE Handoff(w)
    <2>1. wk[w].pc = "handoff" /\ UNCHANGED <<turns, tok, bg, overlap, driver, shut>>
      BY <1>17 DEF Handoff, Up
    <2>2. InTurn(w) /\ wk[w].pc \notin Registered
      BY <2>1 DEF InTurn, Handing, Registered
    <2>3. CASE Move(w, "fork") /\ UNCHANGED gate
      BY <1>0, <2>1, <2>3, Steps, SteppedFrames DEF Stepped, Quiet
    <2>4. CASE Rest(w)
      BY <1>0, <2>1, <2>2, <2>4, Rested, ClearedFrames
    <2>5. QED
      BY <1>17, <2>3, <2>4 DEF Handoff
  <1>18. CASE ForkConfirmed(w)
    <2>1. wk[w].pc = "fork" /\ UNCHANGED <<turns, tok, bg, overlap, driver, shut>> /\ Rest(w)
      BY <1>18 DEF ForkConfirmed, Up
    <2>2. InTurn(w) /\ wk[w].pc \notin Registered
      BY <2>1 DEF InTurn, Handing, Registered
    <2>3. QED
      BY <1>0, <2>1, <2>2, Rested, ClearedFrames
  <1>19. QED
    BY <1>1, <1>2, <1>3, <1>4, <1>5, <1>6, <1>7, <1>8, <1>9, <1>10, <1>11, <1>12, <1>13, <1>14,
       <1>15, <1>16, <1>17, <1>18 DEF WorkerStep

LEMMA WorkerTurns ==
  ASSUME TypeOK, TurnInv, NEW w \in Workers, TurnFrame(w)
  PROVE  TurnInv'
  <1>0. /\ TurnsApart /\ TurnNumbered /\ TokenOwned /\ RequestsRegistered /\ Alone /\ TokenOfTurn
        /\ \A v \in Workers \ {w} : wk'[v] = wk[v]
        /\ turns \in Nat /\ bg.turn \in 0 .. turns
        /\ \A v \in Workers : wk[v].turn \in Nat
    <2>1. \A v \in Workers : wk[v].turn \in Nat
      BY Typed, WorkerAt, Numbers DEF WorkerType
    <2>2. QED
      BY <2>1, Numbers DEF TurnInv, TypeOK, TurnFrame, OnlyWorker
  <1>1. \/ wk'[w].turn \in {0, wk[w].turn} /\ turns' = turns
        \/ wk'[w].turn = turns + 1 /\ turns' = turns + 1 /\ wk'[w].pc = "enter"
    BY DEF TurnFrame
  <1>2. TurnsApart'
    <2>1. \A v \in Workers : wk'[v].turn <= turns'
      BY <1>0, <1>1 DEF TurnsApart
    <2>2. ASSUME NEW v \in Workers, NEW u \in Workers, v # u, wk'[v].turn # 0
          PROVE  wk'[v].turn # wk'[u].turn
      <3>1. CASE v # w /\ u # w
        BY <1>0, <2>2, <3>1 DEF TurnsApart
      <3>2. CASE v = w
        BY <1>0, <1>1, <2>2, <3>2 DEF TurnsApart
      <3>3. CASE u = w
        BY <1>0, <1>1, <2>2, <3>3 DEF TurnsApart
      <3>4. QED
        BY <3>1, <3>2, <3>3
    <2>3. QED
      BY <2>1, <2>2 DEF TurnsApart
  <1>3. TurnNumbered'
    <2>1. wk'[w].pc \in Prepared \cup Registered => wk'[w].turn # 0
      BY <1>0 DEF TurnFrame, TurnNumbered, Prepared
    <2>2. QED
      BY <1>0, <2>1 DEF TurnNumbered
  <1>4. RequestsRegistered'
    <2>1. bg'.turn = bg.turn \/ bg'.turn = 0
      BY DEF TurnFrame, NoBg
    <2>2. ASSUME NEW v \in Workers, wk'[v].pc \in Prepared
          PROVE  wk'[v].turn # bg'.turn
      <3>1. wk'[v].turn # 0
        BY <1>3, <2>2 DEF TurnNumbered
      <3>2. wk'[v].turn # bg.turn
        <4>1. CASE v = w
          BY <1>0, <2>2, <4>1 DEF TurnFrame, RequestsRegistered
        <4>2. CASE v # w
          BY <1>0, <2>2, <4>2 DEF RequestsRegistered
        <4>3. QED
          BY <4>1, <4>2
      <3>3. QED
        BY <2>1, <3>1, <3>2
    <2>3. QED
      BY <2>2 DEF RequestsRegistered
  <1>5. CASE /\ tok' = tok /\ (wk[w].pc \in Registered <=> wk'[w].pc \in Registered)
             /\ InTurn(w)' => InTurn(w)
    <2>1. TokenOwned'
      <3> SUFFICES ASSUME tok' # 0
                   PROVE  \E v \in Workers : wk'[v].turn = tok' /\ wk'[v].pc \in Registered
        BY DEF TokenOwned
      <3>1. PICK v \in Workers : wk[v].turn = tok /\ wk[v].pc \in Registered
        BY <1>0, <1>5 DEF TokenOwned
      <3>2. CASE v = w
        BY <1>5, <3>1, <3>2 DEF TurnFrame
      <3>3. CASE v # w
        BY <1>0, <1>5, <3>1, <3>3
      <3>4. QED
        BY <3>2, <3>3
    <2>2. Alone'
      BY <1>0, <1>5 DEF Alone, TurnFrame, InTurn
    <2>3. TokenOfTurn'
      BY <1>0, <1>5 DEF TokenOfTurn, TurnFrame
    <2>4. QED
      BY <1>2, <1>3, <1>4, <2>1, <2>2, <2>3 DEF TurnInv
  <1>6. CASE /\ tok' = 0 /\ wk[w].pc \in Registered /\ wk'[w].pc \notin Registered
             /\ InTurn(w)' => InTurn(w)
    <2>1. TokenOwned'
      BY <1>6 DEF TokenOwned
    <2>2. Alone'
      BY <1>0, <1>6 DEF Alone, TurnFrame, InTurn
    <2>3. TokenOfTurn'
      <3> SUFFICES ASSUME ~overlap', NEW v \in Workers, wk'[v].pc \in Registered
                   PROVE  FALSE
        BY DEF TokenOfTurn
      <3>1. v # w /\ wk[v].pc \in Registered /\ ~overlap
        BY <1>0, <1>6 DEF TurnFrame
      <3>2. InTurn(v) /\ InTurn(w)
        BY <1>6, <3>1 DEF InTurn
      <3>3. QED
        BY <1>0, <3>1, <3>2 DEF Alone
    <2>4. QED
      BY <1>2, <1>3, <1>4, <2>1, <2>2, <2>3 DEF TurnInv
  <1>7. CASE /\ tok' = wk[w].turn /\ wk[w].pc = "guarded" /\ wk'[w].pc = "registered"
             /\ overlap' \/ \A v \in Workers \ {w} : wk[v].pc \notin TurnPcs
    <2>1. wk'[w].turn = wk[w].turn /\ wk'[w].pc \in Registered
      BY <1>7 DEF TurnFrame, Registered
    <2>2. TokenOwned'
      BY <1>7, <2>1 DEF TokenOwned
    <2>3. ASSUME ~overlap', NEW v \in Workers \ {w}
          PROVE  wk'[v].pc \notin TurnPcs
      BY <1>0, <1>7, <2>3
    <2>4. Alone'
      BY <2>3 DEF Alone, InTurn, TurnPcs, Registered, Handing
    <2>5. TokenOfTurn'
      BY <1>7, <2>1, <2>3 DEF TokenOfTurn, TurnPcs, Registered
    <2>6. QED
      BY <1>2, <1>3, <1>4, <2>2, <2>4, <2>5 DEF TurnInv
  <1>8. QED
    BY <1>5, <1>6, <1>7 DEF TurnFrame

LEMMA WorkerRequests ==
  ASSUME TypeOK, TurnInv, RequestInv, NEW w \in Workers, TurnFrame(w), RequestFrame(w)
  PROVE  RequestInv'
  <1>0. /\ ShutWhenCancelling /\ ShutdownRequest /\ NoEndYet /\ GateCoversRequest
        /\ ShutdownReachesTurn /\ ReplySurvivesClick /\ GateCoversHandoff
        /\ Alone /\ RequestsRegistered
        /\ \A v \in Workers \ {w} : wk'[v] = wk[v]
        /\ UNCHANGED <<driver, shut>> /\ bg' \in {bg, NoBg} /\ (overlap => overlap')
    BY DEF RequestInv, TurnInv, TurnFrame, RequestFrame, OnlyWorker
  <1>1. NoBg.reason = "none"
    BY DEF NoBg
  <1>2. ShutWhenCancelling' /\ ShutdownRequest'
    BY <1>0, <1>1 DEF ShutWhenCancelling, ShutdownRequest
  <1>3. NoEndYet'
    <2>1. /\ wk'[w].pc \in Early \cup Prepared \cup Unended => wk'[w].end = "none"
          /\ wk'[w].pc \in Early \cup Prepared => wk'[w].next = "recv"
      BY DEF RequestFrame
    <2>2. QED
      BY <1>0, <2>1 DEF NoEndYet
  \* Without an overlap only the turn under way lowers the gate.
  <1>4. ASSUME ~overlap', NEW v \in Workers, v # w, InTurn(v)
        PROVE  gate' = gate
    <2>1. ~InTurn(w)
      BY <1>0, <1>4 DEF Alone
    <2>2. QED
      BY <2>1 DEF RequestFrame
  <1>5. GateCoversRequest'
    <2> SUFFICES ASSUME ~overlap', NEW v \in Workers, wk'[v].pc \in Registered,
                        bg'.turn = wk'[v].turn, bg'.reason = "user"
                 PROVE  gate'
      BY DEF GateCoversRequest
    <2>1. bg' = bg /\ bg' # NoBg /\ ~overlap
      BY <1>0, <1>1
    <2>2. CASE v # w
      <3>1. InTurn(v) /\ wk[v].pc \in Registered /\ bg.turn = wk[v].turn
        BY <1>0, <2>1, <2>2 DEF InTurn
      <3>2. QED
        BY <1>0, <1>4, <2>1, <2>2, <3>1 DEF GateCoversRequest
    <2>3. CASE v = w
      <3>1. wk[w].pc \in Registered \cup {"guarded"} /\ wk'[w].turn = wk[w].turn
        BY <2>3 DEF TurnFrame
      <3>2. wk[w].pc # "guarded"
        BY <1>0, <2>1, <2>3, <3>1 DEF RequestsRegistered, Prepared
      <3>3. gate' = gate
        BY <2>1, <2>3 DEF RequestFrame
      <3>4. QED
        BY <1>0, <2>1, <2>3, <3>1, <3>2, <3>3 DEF GateCoversRequest
    <2>4. QED
      BY <2>2, <2>3
  <1>6. ShutdownReachesTurn'
    <2> SUFFICES ASSUME driver = "done", ~overlap', NEW v \in Workers,
                        wk'[v].pc \in {"spawning", "running"}
                 PROVE  wk'[v].cancelled
      BY <1>0 DEF ShutdownReachesTurn
    <2>1. shut /\ ~overlap
      BY <1>0 DEF ShutWhenCancelling
    <2>2. CASE v = w
      BY <1>0, <2>1, <2>2 DEF RequestFrame, ShutdownReachesTurn
    <2>3. CASE v # w
      BY <1>0, <2>1, <2>3 DEF ShutdownReachesTurn
    <2>4. QED
      BY <2>2, <2>3
  <1>7. ReplySurvivesClick'
    <2>1. wk'[w].pc \in Handing /\ wk'[w].end = "result" => driver = "done"
      BY DEF RequestFrame
    <2>2. QED
      BY <1>0, <2>1 DEF ReplySurvivesClick, Handing
  <1>8. GateCoversHandoff'
    <2> SUFFICES ASSUME ~overlap', NEW v \in Workers, wk'[v].pc \in Handing, wk'[v].why = "user"
                 PROVE  gate'
      BY DEF GateCoversHandoff, Handing
    <2>1. CASE v = w
      BY <1>0, <2>1 DEF RequestFrame
    <2>2. CASE v # w
      <3>1. wk[v].pc \in Handing /\ wk[v].why = "user" /\ InTurn(v) /\ ~overlap
        BY <1>0, <2>2 DEF InTurn
      <3>2. gate
        BY <1>0, <3>1 DEF GateCoversHandoff, Handing
      <3>3. QED
        BY <1>4, <2>2, <3>1, <3>2
    <2>3. QED
      BY <2>1, <2>2
  <1>9. QED
    BY <1>2, <1>3, <1>5, <1>6, <1>7, <1>8 DEF RequestInv

\* A step that leaves the turns as they are, or spawns a worker.
LEMMA IdleTurns ==
  ASSUME TypeOK, TurnInv, RequestInv, UNCHANGED <<tok, bg, overlap, turns, gate>>,
         driver' \in {"done", "cancelling"} => shut', shut => shut',
         driver = "done" => driver' = "done", driver' = "done" => driver = "done",
         \A w \in Workers :
           \/ wk[w].pc = "none" /\ Cleared(w, "recv")
           \/ /\ wk'[w].pc = wk[w].pc /\ wk'[w].turn = wk[w].turn
              /\ wk[w].cancelled => wk'[w].cancelled
              /\ SameEnd(w)
  PROVE  TurnInv' /\ RequestInv'
  <1>0. /\ TurnsApart /\ TurnNumbered /\ TokenOwned /\ RequestsRegistered /\ Alone /\ TokenOfTurn
        /\ ShutWhenCancelling /\ ShutdownRequest /\ NoEndYet /\ GateCoversRequest
        /\ ShutdownReachesTurn /\ ReplySurvivesClick /\ GateCoversHandoff
    BY DEF TurnInv, RequestInv
  <1>1. ASSUME NEW w \in Workers
        PROVE  \/ /\ wk[w].pc = "none" /\ wk'[w].pc = "recv" /\ wk'[w].turn = 0
                  /\ wk'[w].end = "none" /\ wk'[w].next = "recv"
               \/ /\ wk'[w].pc = wk[w].pc /\ wk'[w].turn = wk[w].turn
                  /\ wk[w].cancelled => wk'[w].cancelled
                  /\ wk'[w].end = wk[w].end /\ wk'[w].why = wk[w].why
                  /\ wk'[w].next = wk[w].next
    BY <1>1 DEF Cleared, SameEnd
  <1>2. \A w \in Workers : wk'[w].turn \in {0, wk[w].turn}
    BY <1>1
  <1>3. TurnsApart'
    BY <1>0, <1>2, SameVariables, Numbers DEF TurnsApart
  <1>4. TurnNumbered' /\ RequestsRegistered'
    BY <1>0, <1>1 DEF TurnNumbered, RequestsRegistered, Prepared, Registered
  <1>5. TokenOwned'
    BY <1>0, <1>1 DEF TokenOwned, Registered
  <1>6. Alone'
    BY <1>0, <1>1 DEF Alone, InTurn, Registered, Handing
  <1>7. TokenOfTurn' /\ GateCoversRequest'
    BY <1>0, <1>1 DEF TokenOfTurn, GateCoversRequest, Registered
  <1>8. ShutWhenCancelling' /\ ShutdownRequest'
    BY <1>0 DEF ShutWhenCancelling, ShutdownRequest
  <1>9. NoEndYet'
    BY <1>0, <1>1 DEF NoEndYet, Early, Prepared, Unended
  <1>10. ShutdownReachesTurn' /\ ReplySurvivesClick' /\ GateCoversHandoff'
    BY <1>0, <1>1 DEF ShutdownReachesTurn, ReplySurvivesClick, GateCoversHandoff
  <1>11. QED
    BY <1>3, <1>4, <1>5, <1>6, <1>7, <1>8, <1>9, <1>10 DEF TurnInv, RequestInv

\* A request, or the stop, for the turn whose token is in the map.
LEMMA TurnAsked ==
  ASSUME TypeOK, TurnInv, RequestInv, StopClick \/ BgClick \/ RequestHandoffs
  PROVE  TurnInv' /\ RequestInv'
  <1>0. /\ TurnsApart /\ TurnNumbered /\ TokenOwned /\ RequestsRegistered /\ Alone /\ TokenOfTurn
        /\ ShutWhenCancelling /\ ShutdownRequest /\ NoEndYet /\ GateCoversRequest
        /\ ShutdownReachesTurn /\ ReplySurvivesClick /\ GateCoversHandoff
        /\ wk \in WorkerTypes /\ UNCHANGED <<tok, turns, overlap, shut>>
    BY Typed DEF TurnInv, RequestInv, StopClick, BgClick, RequestHandoffs, shared, Up
  <1>1. \A w \in Workers :
          /\ wk'[w].pc = wk[w].pc /\ wk'[w].turn = wk[w].turn
          /\ wk[w].cancelled => wk'[w].cancelled
          /\ wk'[w].end = wk[w].end /\ wk'[w].why = wk[w].why /\ wk'[w].next = wk[w].next
    BY <1>0, TokenCancelled DEF StopClick, BgClick, RequestHandoffs
  <1>2. \/ UNCHANGED <<bg, gate, driver>>
        \/ /\ tok # 0 /\ gate' = TRUE /\ bg'.turn = tok /\ bg'.reason = "user" /\ driver' = driver
        \/ /\ driver = "cancelling" /\ driver' = "done"
           /\ \/ tok = 0 /\ UNCHANGED <<bg, gate>>
              \/ tok # 0 /\ gate' = TRUE /\ bg'.turn = tok /\ bg'.reason = "shutdown"
    BY DEF StopClick, BgClick, RequestHandoffs, shared, Up
  <1>3. TurnsApart' /\ TurnNumbered' /\ TokenOwned'
    BY <1>0, <1>1 DEF TurnsApart, TurnNumbered, TokenOwned, Prepared, Registered
  <1>4. Alone' /\ TokenOfTurn'
    BY <1>0, <1>1 DEF Alone, InTurn, TokenOfTurn, Registered, Handing
  <1>5. RequestsRegistered'
    <2>1. CASE bg' = bg
      BY <1>0, <1>1, <2>1 DEF RequestsRegistered
    <2>2. CASE tok # 0 /\ bg'.turn = tok
      <3>1. PICK v \in Workers : wk[v].turn = tok /\ wk[v].pc \in Registered
        BY <1>0, <2>2 DEF TokenOwned
      <3>2. ASSUME NEW w \in Workers, wk'[w].pc \in Prepared
            PROVE  wk'[w].turn # bg'.turn
        <4>1. wk[w].pc \in Prepared /\ v # w
          BY <1>1, <3>1, <3>2 DEF Prepared, Registered
        <4>2. QED
          BY <1>0, <1>1, <2>2, <3>1, <4>1 DEF TurnsApart
      <3>3. QED
        BY <3>2 DEF RequestsRegistered
    <2>3. QED
      BY <1>2, <2>1, <2>2
  <1>6. ShutWhenCancelling' /\ ShutdownRequest'
    BY <1>0, <1>2 DEF ShutWhenCancelling, ShutdownRequest
  <1>7. NoEndYet'
    BY <1>0, <1>1 DEF NoEndYet, Early, Prepared, Unended
  <1>8. GateCoversRequest' /\ GateCoversHandoff'
    BY <1>0, <1>1, <1>2 DEF GateCoversRequest, GateCoversHandoff, Registered
  <1>9. ReplySurvivesClick'
    BY <1>0, <1>1, <1>2 DEF ReplySurvivesClick
  <1>10. ShutdownReachesTurn'
    <2> SUFFICES ASSUME driver' = "done", ~overlap, NEW w \in Workers,
                        wk[w].pc \in {"spawning", "running"}
                 PROVE  wk'[w].cancelled
      BY <1>0, <1>1 DEF ShutdownReachesTurn
    <2>1. CASE driver = "done"
      BY <1>0, <1>1, <2>1 DEF ShutdownReachesTurn
    <2>2. CASE driver # "done"
      <3>1. wk[w].turn = tok /\ tok # 0
        BY <1>0 DEF TokenOfTurn, TurnNumbered, Registered
      <3>2. RequestHandoffs /\ wk' = Cancel(tok)
        BY <2>2, <3>1 DEF StopClick, BgClick, RequestHandoffs, Up
      <3>3. Owner(tok) \in Workers /\ wk[Owner(tok)].turn = tok /\ wk'[Owner(tok)].cancelled
        BY <1>0, <3>1, <3>2, OwnerOfToken, TokenCancelled
      <3>4. Owner(tok) = w
        BY <1>0, <3>1, <3>3 DEF TurnsApart
      <3>5. QED
        BY <3>3, <3>4
    <2>3. QED
      BY <2>1, <2>2
  <1>11. QED
    BY <1>3, <1>4, <1>5, <1>6, <1>7, <1>8, <1>9, <1>10 DEF TurnInv, RequestInv

LEMMA TurnStep ==
  ASSUME IInv, Next
  PROVE  TurnInv' /\ RequestInv'
  <1>0. TypeOK /\ SendsToWorker /\ LockInv /\ TurnInv /\ RequestInv /\ ShutWhenCancelling
    BY DEF IInv, RequestInv
  <1>1. CASE \E w \in Workers : WorkerStep(w)
    BY <1>0, <1>1, WorkerFrames, WorkerTurns, WorkerRequests
  <1>2. CASE StopClick \/ BgClick \/ RequestHandoffs
    BY <1>0, <1>2, TurnAsked
  <1>3. CASE \/ Receive \/ NewCommand \/ SwitchCommand \/ CompactionFires \/ DeliveryPicks
             \/ SessionStep \/ Sweep
    <2>1. UNCHANGED <<wk, tok, bg, overlap, turns, gate, driver, shut>>
      BY <1>3 DEF Receive, NewCommand, SwitchCommand, CompactionFires, DeliveryPicks, SessionStep,
         CompactionLocks, CompactionEnds, DeliveryEnters, DeliveryLocks, DeliveryEnds, Sweep,
         shared, Up
    <2>2. \A w \in Workers : SameEnd(w)
      BY <2>1 DEF SameEnd
    <2>3. driver' \in {"done", "cancelling"} => shut'
      BY <1>0, <2>1 DEF ShutWhenCancelling
    <2>4. QED
      BY <1>0, <2>1, <2>2, <2>3, IdleTurns
  <1>4. CASE \E h \in Handlers : HandlerStep(h)
    <2>1. PICK h \in Handlers : SpawnWorker(h) \/ Send(h)
      BY <1>4 DEF HandlerStep
    <2>2. UNCHANGED <<tok, bg, overlap, turns, gate, driver, shut>>
      BY <2>1 DEF SpawnWorker, Send, shared, Up
    <2>3. driver' \in {"done", "cancelling"} => shut'
      BY <1>0, <2>2 DEF ShutWhenCancelling
    <2>4. \A w \in Workers :
            \/ wk[w].pc = "none" /\ Cleared(w, "recv")
            \/ /\ wk'[w].pc = wk[w].pc /\ wk'[w].turn = wk[w].turn
               /\ wk[w].cancelled => wk'[w].cancelled
               /\ SameEnd(w)
      BY <1>0, <2>1, HandlerTypes
    <2>5. QED
      BY <1>0, <2>2, <2>3, <2>4, IdleTurns
  <1>5. CASE Signal \/ CancelWorkers \/ Drained \/ DrainTimeout
    <2>1. UNCHANGED <<wk, tok, bg, overlap, turns, gate>>
      BY <1>5 DEF Signal, CancelWorkers, Drained, DrainTimeout, shared
    <2>2. \A w \in Workers : SameEnd(w)
      BY <2>1 DEF SameEnd
    <2>3. /\ driver' \in {"done", "cancelling"} => shut'
          /\ shut => shut'
          /\ driver = "done" => driver' = "done"
          /\ driver' = "done" => driver = "done"
      BY <1>0, <1>5 DEF Signal, CancelWorkers, Drained, DrainTimeout, ShutWhenCancelling
    <2>4. QED
      BY <1>0, <2>1, <2>2, <2>3, IdleTurns
  <1>6. CASE Exit
    <2>1. /\ \A w \in Workers : /\ wk'[w].pc = "none" /\ wk'[w].turn = 0
                                /\ wk'[w].end = "none" /\ wk'[w].next = "recv"
          /\ tok' = 0 /\ bg'.reason = "none" /\ turns' \in Nat /\ UNCHANGED <<driver, shut>>
      BY <1>0, <1>6, AllReset, UnbornType, SameVariables, Numbers DEF Exit, ClearControls, NoBg
    <2>2. TurnInv'
      BY <2>1 DEF TurnInv, TurnsApart, TurnNumbered, TokenOwned, RequestsRegistered, Alone,
         TokenOfTurn, InTurn, Prepared, Registered, Handing
    <2>3. RequestInv'
      BY <1>0, <2>1 DEF RequestInv, ShutWhenCancelling, ShutdownRequest, NoEndYet,
         GateCoversRequest, ShutdownReachesTurn, ReplySurvivesClick, GateCoversHandoff, Registered
    <2>4. QED
      BY <2>2, <2>3
  <1>7. QED
    BY <1>0, <1>1, <1>2, <1>3, <1>4, <1>5, <1>6 DEF Next

-----------------------------------------------------------------------------
(* The theorems.                                                            *)

LEMMA InvInit == Init => IInv
  <1> SUFFICES ASSUME Init
               PROVE  IInv
    OBVIOUS
  <1>1. \A w \in Workers : /\ wk[w] \in WorkerType /\ wk[w].pc = "none" /\ wk[w].turn = 0
                           /\ wk[w].obj = 0 /\ wk[w].end = "none" /\ wk[w].next = "recv"
    BY UnbornType DEF Init
  <1>2. /\ compact \in [pc : {"off", "armed", "fired", "run"}, sess : 0 .. MaxTurns,
                        obj : {0} \cup Objects, cancelled : BOOLEAN]
        /\ compact.obj = 0 /\ compact.pc = "off"
        /\ deliv \in [pc : {"off", "enter", "lock", "run"}, sess : 0 .. MaxTurns,
                      obj : {0} \cup Objects]
        /\ deliv.obj = 0 /\ deliv.pc = "off"
    BY Numbers DEF Init, NoCompaction, OffTask
  <1>3. wk \in [Workers -> WorkerType]
    BY UnbornType DEF Init
  <1>4. /\ hnd \in [Handlers -> [pc : {"idle", "spawn", "send"}, to : Workers \cup {NoWorker}]]
        /\ SendsToWorker
    BY DEF Init, SendsToWorker
  <1>5. TypeOK
    <2>1. /\ turns \in 0 .. MaxTurns /\ sessions \in 0 .. MaxTurns /\ active \in 0 .. sessions
          /\ tok \in 0 .. turns /\ messages \in 0 .. MaxMessages /\ events \in 0 .. MaxEvents
      BY Numbers DEF Init
    <2>2. /\ bg \in [turn : 0 .. turns, reason : {"none", "user", "shutdown"}]
          /\ locks \in [Sess -> {0} \cup Objects]
      BY DEF Init, NoBg
    <2>3. /\ wmap \in Workers \cup {NoWorker}
          /\ gate \in BOOLEAN /\ shut \in BOOLEAN /\ overlap \in BOOLEAN
          /\ driver \in {"up", "signal", "cancelling", "done"}
          /\ life \in {"up", "ending", "exited"}
      BY DEF Init
    <2>4. QED
      BY <1>2, <1>3, <1>4, <2>1, <2>2, <2>3 DEF TypeOK
  <1>6. \A p \in Procs : ObjOf(p) = 0 /\ ~Holds(p)
    BY <1>1, <1>2, ProcAt
  <1>7. LockInv
    BY <1>1, <1>2, <1>6 DEF LockInv, ObjectsInPlace, InPlace, EntriesKept, OneHolder, Early,
       Registered, Handing
  <1>8. TurnInv
    BY <1>1 DEF Init, TurnInv, TurnsApart, TurnNumbered, TokenOwned, RequestsRegistered, Alone,
       TokenOfTurn, InTurn, Prepared, Registered, Handing
  <1>9. RequestInv
    BY <1>1 DEF Init, NoBg, RequestInv, ShutWhenCancelling, ShutdownRequest, NoEndYet,
       GateCoversRequest, ShutdownReachesTurn, ReplySurvivesClick, GateCoversHandoff, Registered
  <1>10. QED
    BY <1>4, <1>5, <1>7, <1>8, <1>9 DEF IInv

LEMMA InvStep == IInv /\ [Next]_vars => IInv'
  <1> SUFFICES ASSUME IInv, [Next]_vars
               PROVE  IInv'
    OBVIOUS
  <1>1. CASE Next
    <2>1. TypeOK' /\ SendsToWorker'
      BY <1>1, TypeStep DEF IInv, LockInv, TurnInv
    <2>2. LockInv' /\ TurnInv' /\ RequestInv'
      BY <1>1, LockStep, TurnStep
    <2>3. QED
      BY <2>1, <2>2 DEF IInv
  <1>2. CASE UNCHANGED vars
    <2>1. TypeOK' /\ SendsToWorker'
      BY <1>2 DEF IInv, TypeOK, SendsToWorker, vars
    <2>2. LockInv'
      <3>1. UNCHANGED <<locks, compact, deliv, wk>>
        BY <1>2 DEF vars
      <3>2. QED
        BY <3>1, IdleLocks DEF IInv
    <2>3. TurnInv' /\ RequestInv'
      <3>1. UNCHANGED <<wk, tok, bg, overlap, turns, gate, driver, shut>>
        BY <1>2 DEF vars
      <3>2. driver' \in {"done", "cancelling"} => shut'
        BY <3>1 DEF IInv, RequestInv, ShutWhenCancelling
      <3>3. \A w \in Workers : SameEnd(w)
        BY <3>1 DEF SameEnd
      <3>4. QED
        BY <3>1, <3>2, <3>3, IdleTurns DEF IInv
    <2>4. QED
      BY <2>1, <2>2, <2>3 DEF IInv
  <1>3. QED
    BY <1>1, <1>2

(* The inductive invariant holds in every reachable state.                  *)
THEOREM InductiveInvariant == Spec => []IInv
  BY InvInit, InvStep, PTL DEF Spec

(* Every variable of the chat's turns, maps and locks stays in its type.    *)
THEOREM TypeCorrect == Spec => []TypeOK
  <1>1. IInv => TypeOK
    BY DEF IInv
  <1>2. QED
    BY <1>1, InductiveInvariant, PTL

(* LockedExclusive: turn, background fork, delivery and compaction never    *)
(* resume one session together, whatever the sweep takes out of the map.    *)
THEOREM SessionsAreExclusive == Spec => []LockedExclusive
  <1>1. IInv => LockedExclusive
    <2> SUFFICES ASSUME IInv, NEW p \in Procs, NEW q \in Procs, p # q,
                        SessOf(p) = SessOf(q), Resumes(p), Resumes(q)
                 PROVE  FALSE
      BY DEF LockedExclusive
    <2>1. ObjectsInPlace /\ EntriesKept /\ OneHolder
      BY DEF IInv, LockInv
    <2>2. ASSUME NEW r \in Procs, Resumes(r)
          PROVE  Holds(r) /\ ObjOf(r) # 0
      <3>1. CASE r \in Workers
        <4>1. wk[r].pc \in {"running", "fork"}
          BY <2>2, <3>1, ProcAt DEF Resumes
        <4>2. wk[r].obj # 0
          BY <2>1, <3>1, <4>1 DEF ObjectsInPlace, InPlace, Registered, Handing
        <4>3. QED
          BY <3>1, <4>1, <4>2, ProcAt DEF GuardPcs
      <3>2. CASE r = "delivery" \/ r = "compaction"
        BY <2>1, <2>2, <3>2, ProcAt DEF Resumes, ObjectsInPlace
      <3>3. QED
        BY <3>1, <3>2, ProcAt
    <2>3. Holds(p) /\ Holds(q) /\ ObjOf(p) # 0 /\ ObjOf(q) # 0
      BY <2>2
    <2>4. ObjOf(p) = ObjOf(q)
      BY <2>1, <2>3 DEF EntriesKept
    <2>5. QED
      BY <2>1, <2>3, <2>4 DEF OneHolder
  <1>2. QED
    BY <1>1, InductiveInvariant, PTL

(* ShutdownReachesTurn: no turn the shutdown went by is left running        *)
(* uncancelled, and none that registers later spawns its process.           *)
THEOREM ShutdownReachesEveryTurn == Spec => []ShutdownReachesTurn
  <1>1. IInv => ShutdownReachesTurn
    BY DEF IInv, RequestInv
  <1>2. QED
    BY <1>1, InductiveInvariant, PTL

(* ReplySurvivesClick: a turn that has its result goes to the background    *)
(* only at a shutdown.                                                      *)
THEOREM RepliesSurviveClicks == Spec => []ReplySurvivesClick
  <1>1. IInv => ReplySurvivesClick
    BY DEF IInv, RequestInv
  <1>2. QED
    BY <1>1, InductiveInvariant, PTL

(* GateCoversHandoff: the gate a Background click raised is up for as long  *)
(* as the turn it was for is being handed over.                             *)
THEOREM GateCoversHandoffs == Spec => []GateCoversHandoff
  <1>1. IInv => GateCoversHandoff
    BY DEF IInv, RequestInv
  <1>2. QED
    BY <1>1, InductiveInvariant, PTL
===============================================================================
