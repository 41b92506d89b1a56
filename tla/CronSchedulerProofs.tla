------------------------ MODULE CronSchedulerProofs ------------------------
(***************************************************************************)
(* Proofs about CronScheduler, for any jobs, executions and bounds.        *)
(***************************************************************************)
EXTENDS CronScheduler, TLAPS

Pc(e) == ex[e].pc
Job(e) == ex[e].job

\* what the reconciler's pass works on was present when it loaded
SnapOK ==
    /\ \A j \in todo : snap[j].ver # 0
    /\ rec = "cleared" => picked \in Jobs /\ snap[picked].ver # 0

LoopsOK == \A j \in Jobs : handles[j].state # "none" => handles[j].ver # 0

TypeInv == TypeOK /\ SnapOK /\ LoopsOK

(* The lock file is written only after the check: two executions beyond the *)
(* check are in the gap, and a running one outside it still has its lock.   *)
WaitersInGap ==
    \A e, f \in Execs :
        e # f /\ Pc(e) = "wait" /\ Pc(f) \in {"wait", "insert", "run"} /\ Job(e) = Job(f)
            => Job(e) \in gap

RunnerHasLock ==
    \A e \in Execs : Pc(e) \in Running /\ Job(e) \notin gap => lock[Job(e)] > 0

SafeInv == UpgradeExclusive /\ OverlapNeedsGap /\ LockHasRunner /\ WaitersInGap /\ RunnerHasLock

IInv == TypeInv /\ SafeInv

-----------------------------------------------------------------------------
(* How the three ways to change an execution look from outside.             *)
LEMMA FreeType == Free \in ExecType /\ Free.pc = "free"
  BY DEF Free, ExecType

LEMMA BusyType ==
  ASSUME NEW x \in ExecType, x.pc # "free"
  PROVE  x \in [pc : {"start", "wait", "insert", "run", "settle", "delete"}, job : Jobs,
                ver : 1..MaxEdits, origin : {"schedule", "trigger"}, forced : BOOLEAN]
  BY DEF ExecType, Free

LEMMA SpawnFacts ==
  ASSUME ex \in [Execs -> ExecType], NEW j \in Jobs, NEW v \in 1..MaxEdits,
         NEW o \in {"schedule", "trigger"}, NEW b \in BOOLEAN, Spawn(j, v, o, b)
  PROVE  \E e \in Execs :
            /\ ex[e].pc = "free"
            /\ ex' \in [Execs -> ExecType]
            /\ ex'[e].pc = "start"
            /\ \A f \in Execs \ {e} : ex'[f] = ex[f]
  <1>1. PICK e \in Execs :
            /\ ex[e].pc = "free"
            /\ ex' = [ex EXCEPT ![e] = [pc |-> "start", job |-> j, ver |-> v,
                                        origin |-> o, forced |-> b]]
    BY DEF Spawn
  <1>2. [pc |-> "start", job |-> j, ver |-> v, origin |-> o, forced |-> b] \in ExecType
    BY DEF ExecType
  <1>. QED  BY <1>1, <1>2

LEMMA AtFacts ==
  ASSUME ex \in [Execs -> ExecType], NEW e \in Execs, ex[e].pc # "free",
         NEW p \in {"start", "wait", "insert", "run", "settle", "delete"}, At(e, p)
  PROVE  /\ ex' \in [Execs -> ExecType]
         /\ ex'[e].pc = p /\ ex'[e].job = ex[e].job
         /\ \A f \in Execs \ {e} : ex'[f] = ex[f]
  <1>1. ex[e] \in [pc : {"start", "wait", "insert", "run", "settle", "delete"}, job : Jobs,
                   ver : 1..MaxEdits, origin : {"schedule", "trigger"}, forced : BOOLEAN]
    BY BusyType
  <1>2. ex' = [ex EXCEPT ![e] = [ex[e] EXCEPT !.pc = p]]  BY DEF At
  <1>3. [ex[e] EXCEPT !.pc = p] \in ExecType  BY <1>1 DEF ExecType
  <1>. QED  BY <1>1, <1>2, <1>3

LEMMA LeaveFacts ==
  ASSUME ex \in [Execs -> ExecType], NEW e \in Execs, ex[e].pc # "free", Leave(e)
  PROVE  /\ ex' \in [Execs -> ExecType]
         /\ ex'[e].pc \in {"free", "delete"}
         /\ \A f \in Execs \ {e} : ex'[f] = ex[f]
  <1>1. ex[e] \in [pc : {"start", "wait", "insert", "run", "settle", "delete"}, job : Jobs,
                   ver : 1..MaxEdits, origin : {"schedule", "trigger"}, forced : BOOLEAN]
    BY BusyType
  <1>2. [ex[e] EXCEPT !.pc = "delete"] \in ExecType /\ [ex[e] EXCEPT !.pc = "delete"].pc = "delete"
    BY <1>1 DEF ExecType
  <1>3. Left(e) \in ExecType /\ Left(e).pc \in {"free", "delete"}
    BY <1>2, FreeType DEF Left
  <1>. QED  BY <1>3 DEF Leave

\* an accounted version is that of an execution or of a specification
LEMMA AccountFacts ==
  ASSUME accounted \subseteq Versions, NEW j, NEW v \in Versions, Account(j, v)
  PROVE  accounted' \subseteq Versions
  BY DEF Account

LEMMA TakenFacts ==
  ASSUME ex \in [Execs -> ExecType], accounted \subseteq Versions,
         NEW e \in Execs, ex[e].pc # "free", TakenByFault(e)
  PROVE  Leave(e) /\ accounted' \subseteq Versions
  <1>1. ex[e].ver \in Versions  BY BusyType, CronSchedulerAssumption DEF Versions
  <1>. QED  BY <1>1, AccountFacts DEF TakenByFault

-----------------------------------------------------------------------------
(* What the steps do to the executions, the locks and the upgrade lock.     *)
LEMMA SafeWhenStill ==
  ASSUME SafeInv, ex' = ex, lock' = lock, upgrade' = upgrade \/ upgrade' = FALSE,
         gap' = gap, orphaned' = orphaned
  PROVE  SafeInv'
  BY DEF SafeInv, UpgradeExclusive, OverlapNeedsGap, LockHasRunner, WaitersInGap,
         RunnerHasLock, Readers, Of, Pc, Job, IsLockFresh, Reading, Running

\* an execution that does not run starts, leaves or ends
LEMMA SafeWhenIdle ==
  ASSUME SafeInv, NEW e \in Execs, ex[e].pc \notin Running,
         ex'[e].pc \in {"free", "start", "delete"},
         \A f \in Execs \ {e} : ex'[f] = ex[f],
         lock' = lock, upgrade' = upgrade, gap' = gap, orphaned' = orphaned
  PROVE  SafeInv'
  <1>. USE DEF Of, Pc, Job, Running, Reading, IsLockFresh, SafeInv
  <1>1. UpgradeExclusive'  BY DEF UpgradeExclusive, Readers
  <1>2. OverlapNeedsGap'  BY DEF OverlapNeedsGap
  <1>3. LockHasRunner'
    <2>. SUFFICES ASSUME NEW j \in Jobs, lock[j] > 0, j \notin orphaned
                  PROVE  \E f \in Execs : ex'[f].job = j /\ ex'[f].pc \in {"insert", "run"}
      BY DEF LockHasRunner
    <2>1. PICK f \in Execs : ex[f].job = j /\ ex[f].pc \in {"insert", "run"}
      BY DEF LockHasRunner
    <2>2. f # e  BY <2>1
    <2>. QED  BY <2>1, <2>2
  <1>4. WaitersInGap'  BY DEF WaitersInGap
  <1>5. RunnerHasLock'  BY DEF RunnerHasLock
  <1>. QED  BY <1>1, <1>2, <1>3, <1>4, <1>5

\* a running execution removes its lock file and stops running
LEMMA SafeWhenReleased ==
  ASSUME SafeInv, NEW e \in Execs, ex[e].pc \in Running,
         ex'[e].pc \in {"free", "delete", "settle"},
         \A f \in Execs \ {e} : ex'[f] = ex[f],
         lock \in [Jobs -> 0..LockTtl], ex[e].job \in Jobs, Unlock(e),
         upgrade' = upgrade, gap' = gap, orphaned' = orphaned
  PROVE  SafeInv'
  <1>. USE DEF Of, Pc, Job, Running, Reading, IsLockFresh, SafeInv
  <1>0. lock' = [lock EXCEPT ![ex[e].job] = 0]  BY DEF Unlock
  <1>1. UpgradeExclusive'  BY DEF UpgradeExclusive, Readers
  <1>2. OverlapNeedsGap'  BY DEF OverlapNeedsGap
  <1>3. LockHasRunner'
    <2>. SUFFICES ASSUME NEW j \in Jobs, lock'[j] > 0, j \notin orphaned
                  PROVE  \E f \in Execs : ex'[f].job = j /\ ex'[f].pc \in {"insert", "run"}
      BY DEF LockHasRunner
    <2>1. j # ex[e].job /\ lock[j] > 0  BY <1>0
    <2>2. PICK f \in Execs : ex[f].job = j /\ ex[f].pc \in {"insert", "run"}
      BY <2>1 DEF LockHasRunner
    <2>3. f # e  BY <2>1, <2>2
    <2>. QED  BY <2>2, <2>3
  <1>4. WaitersInGap'  BY DEF WaitersInGap
  <1>5. RunnerHasLock'
    <2>. SUFFICES ASSUME NEW f \in Execs, ex'[f].pc \in {"insert", "run"}, ex'[f].job \notin gap
                  PROVE  lock'[ex'[f].job] > 0
      BY DEF RunnerHasLock
    <2>1. f # e /\ ex'[f] = ex[f]  OBVIOUS
    <2>2. ex[f].job # ex[e].job  BY <2>1 DEF OverlapNeedsGap
    <2>3. lock[ex[f].job] > 0  BY <2>1 DEF RunnerHasLock
    <2>. QED  BY <1>0, <2>1, <2>2, <2>3
  <1>. QED  BY <1>1, <1>2, <1>3, <1>4, <1>5

-----------------------------------------------------------------------------
(* Steps that change a lock or put an execution beyond the check.           *)
LEMMA SafeDeleteSpec ==
  ASSUME IInv, NEW j \in Jobs, NEW b \in BOOLEAN, DeleteSpec(j, b)
  PROVE  SafeInv'
  <1>. USE DEF Of, Pc, Job, Running, Reading, IsLockFresh, IInv, SafeInv
  <1>0. /\ ex' = ex /\ upgrade' = upgrade /\ orphaned' = orphaned
        /\ gap \subseteq gap' /\ lock \in [Jobs -> 0..LockTtl]
        /\ lock' = lock \/ lock' = [lock EXCEPT ![j] = 0]
    BY DEF DeleteSpec, bot, TypeInv, TypeOK
  <1>1. UpgradeExclusive'  BY <1>0 DEF UpgradeExclusive, Readers
  <1>2. OverlapNeedsGap'  BY <1>0 DEF OverlapNeedsGap
  <1>3. LockHasRunner'  BY <1>0 DEF LockHasRunner
  <1>4. WaitersInGap'  BY <1>0 DEF WaitersInGap
  <1>5. RunnerHasLock'
    <2>. SUFFICES ASSUME NEW f \in Execs, ex[f].pc \in {"insert", "run"}, ex[f].job \notin gap'
                  PROVE  lock'[ex[f].job] > 0
      BY <1>0 DEF RunnerHasLock
    <2>1. ex[f].job \in Jobs  BY BusyType DEF TypeInv, TypeOK
    <2>2. lock[ex[f].job] > 0  BY <1>0 DEF RunnerHasLock
    <2>3. ex[f].job = j => lock' = lock  BY DEF DeleteSpec
    <2>. QED  BY <1>0, <2>1, <2>2, <2>3
  <1>. QED  BY <1>1, <1>2, <1>3, <1>4, <1>5

LEMMA SafeTick ==
  ASSUME IInv, Tick
  PROVE  SafeInv'
  <1>. USE DEF Of, Pc, Job, Running, Reading, IsLockFresh, IInv, SafeInv
  <1>0. /\ ex' = ex /\ upgrade' = upgrade /\ orphaned' = orphaned
        /\ gap \subseteq gap' /\ lock \in [Jobs -> 0..LockTtl]
        /\ \A j \in Jobs : lock'[j] = IF lock[j] > 0 THEN lock[j] - 1 ELSE 0
    BY DEF Tick, TypeInv, TypeOK
  <1>1. UpgradeExclusive'  BY <1>0 DEF UpgradeExclusive, Readers
  <1>2. OverlapNeedsGap'  BY <1>0 DEF OverlapNeedsGap
  <1>3. LockHasRunner'  BY <1>0 DEF LockHasRunner
  <1>4. WaitersInGap'  BY <1>0 DEF WaitersInGap
  <1>5. RunnerHasLock'
    <2>. SUFFICES ASSUME NEW f \in Execs, ex[f].pc \in {"insert", "run"}, ex[f].job \notin gap'
                  PROVE  lock'[ex[f].job] > 0
      BY <1>0 DEF RunnerHasLock
    <2>1. ex[f].job \in Jobs  BY BusyType DEF TypeInv, TypeOK
    <2>2. lock[ex[f].job] > 0  BY <1>0 DEF RunnerHasLock
    <2>3. lock[ex[f].job] # 1  BY DEF Tick
    <2>4. lock[ex[f].job] \in Nat  BY <1>0, <2>1, CronSchedulerAssumption
    <2>. QED  BY <1>0, <2>1, <2>2, <2>3, <2>4
  <1>. QED  BY <1>1, <1>2, <1>3, <1>4, <1>5

\* past the lock check; a runner outside the gap would have been seen
LEMMA SafePastCheck ==
  ASSUME IInv, NEW e \in Execs, LockCheck(e), ~IsLockFresh(ex[e].job)
  PROVE  SafeInv'
  <1>. USE DEF Of, Pc, Job, Running, Reading, IsLockFresh, IInv, SafeInv
  <1>0. /\ ex \in [Execs -> ExecType] /\ ex[e].pc = "start" /\ At(e, "wait")
        /\ lock' = lock /\ upgrade' = upgrade /\ orphaned' = orphaned
        /\ gap' = IF \E f \in Peers(e) : ex[f].pc = "wait" THEN gap \cup {ex[e].job} ELSE gap
    BY DEF LockCheck, others, TypeInv, TypeOK
  <1>a. /\ ex'[e].pc = "wait" /\ ex'[e].job = ex[e].job
        /\ \A f \in Execs \ {e} : ex'[f] = ex[f]
    BY <1>0, AtFacts
  <1>b. gap \subseteq gap'  BY <1>0
  <1>1. UpgradeExclusive'  BY <1>0, <1>a DEF UpgradeExclusive, Readers
  <1>2. OverlapNeedsGap'  BY <1>a, <1>b DEF OverlapNeedsGap
  <1>3. LockHasRunner'
    <2>. SUFFICES ASSUME NEW j \in Jobs, lock[j] > 0, j \notin orphaned
                  PROVE  \E f \in Execs : ex'[f].job = j /\ ex'[f].pc \in {"insert", "run"}
      BY <1>0 DEF LockHasRunner
    <2>1. PICK f \in Execs : ex[f].job = j /\ ex[f].pc \in {"insert", "run"}
      BY DEF LockHasRunner
    <2>2. f # e  BY <1>0, <2>1
    <2>. QED  BY <1>a, <2>1, <2>2
  <1>4. WaitersInGap'
    <2>1. ASSUME NEW f \in Execs \ {e}, ex[f].pc \in {"wait", "insert", "run"},
                 ex[f].job = ex[e].job
          PROVE  ex[e].job \in gap'
      <3>1. CASE ex[f].pc = "wait"  BY <1>0, <2>1, <3>1 DEF Peers
      <3>2. CASE ex[f].pc # "wait"  BY <1>b, <2>1, <3>2 DEF RunnerHasLock
      <3>. QED  BY <3>1, <3>2
    <2>. QED  BY <1>a, <1>b, <2>1 DEF WaitersInGap
  <1>5. RunnerHasLock'  BY <1>0, <1>a, <1>b DEF RunnerHasLock
  <1>. QED  BY <1>1, <1>2, <1>3, <1>4, <1>5

LEMMA SafeEnter ==
  ASSUME IInv, NEW e \in Execs, Enter(e)
  PROVE  SafeInv'
  <1>. USE DEF Of, Pc, Job, Running, Reading, IsLockFresh, IInv, SafeInv
  <1>0. /\ ex \in [Execs -> ExecType] /\ ex[e].pc = "wait" /\ At(e, "insert") /\ ~upgrade
        /\ lock \in [Jobs -> 0..LockTtl] /\ lock' = [lock EXCEPT ![ex[e].job] = LockTtl]
        /\ upgrade' = upgrade /\ orphaned' = orphaned /\ gap' = gap
    BY DEF Enter, others, ghosts, TypeInv, TypeOK
  <1>a. /\ ex'[e].pc = "insert" /\ ex'[e].job = ex[e].job
        /\ \A f \in Execs \ {e} : ex'[f] = ex[f]
    BY <1>0, AtFacts
  <1>b. ex[e].job \in Jobs  BY <1>0, BusyType
  <1>1. UpgradeExclusive'  BY <1>0 DEF UpgradeExclusive
  <1>2. OverlapNeedsGap'  BY <1>0, <1>a DEF OverlapNeedsGap, WaitersInGap
  <1>3. LockHasRunner'
    <2>. SUFFICES ASSUME NEW j \in Jobs, lock'[j] > 0, j \notin orphaned
                  PROVE  \E f \in Execs : ex'[f].job = j /\ ex'[f].pc \in {"insert", "run"}
      BY <1>0 DEF LockHasRunner
    <2>1. CASE j = ex[e].job  BY <1>a, <2>1
    <2>2. CASE j # ex[e].job
      <3>1. PICK f \in Execs : ex[f].job = j /\ ex[f].pc \in {"insert", "run"}
        BY <1>0, <2>2 DEF LockHasRunner
      <3>. QED  BY <1>0, <1>a, <3>1
    <2>. QED  BY <2>1, <2>2
  <1>4. WaitersInGap'  BY <1>0, <1>a DEF WaitersInGap
  <1>5. RunnerHasLock'  BY <1>0, <1>a, <1>b, CronSchedulerAssumption DEF RunnerHasLock
  <1>. QED  BY <1>1, <1>2, <1>3, <1>4, <1>5

\* from inserting the run to running it
LEMMA SafeInserted ==
  ASSUME IInv, NEW e \in Execs, InsertRun(e, "ok")
  PROVE  SafeInv'
  <1>. USE DEF Of, Pc, Job, Running, Reading, IsLockFresh, IInv, SafeInv
  <1>0. /\ ex \in [Execs -> ExecType] /\ ex[e].pc = "insert" /\ At(e, "run")
        /\ lock' = lock /\ upgrade' = upgrade /\ orphaned' = orphaned /\ gap' = gap
    BY DEF InsertRun, others, ghosts, TypeInv, TypeOK
  <1>a. /\ ex'[e].pc = "run" /\ ex'[e].job = ex[e].job
        /\ \A f \in Execs \ {e} : ex'[f] = ex[f]
    BY <1>0, AtFacts
  <1>1. UpgradeExclusive'  BY <1>0, <1>a DEF UpgradeExclusive, Readers
  <1>2. OverlapNeedsGap'  BY <1>0, <1>a DEF OverlapNeedsGap
  <1>3. LockHasRunner'  BY <1>0, <1>a DEF LockHasRunner
  <1>4. WaitersInGap'  BY <1>0, <1>a DEF WaitersInGap
  <1>5. RunnerHasLock'  BY <1>0, <1>a DEF RunnerHasLock
  <1>. QED  BY <1>1, <1>2, <1>3, <1>4, <1>5

\* aborted executions keep their lock file and are recorded as orphans
LEMMA SafeAbort ==
  ASSUME IInv, NEW e \in Execs, AbortExec(e)
  PROVE  SafeInv'
  <1>. USE DEF Of, Pc, Job, Running, Reading, IsLockFresh, IInv, SafeInv
  <1>0. /\ ex \in [Execs -> ExecType] /\ ex[e].pc # "free" /\ Leave(e)
        /\ lock' = lock /\ upgrade' = upgrade /\ gap' = gap
        /\ orphaned \subseteq orphaned'
        /\ ex[e].pc \in {"insert", "run"} => ex[e].job \in orphaned'
    BY DEF AbortExec, TakenByFault, others, Orphans, TypeInv, TypeOK
  <1>a. /\ ex'[e].pc \in {"free", "delete"}
        /\ \A f \in Execs \ {e} : ex'[f] = ex[f]
    BY <1>0, LeaveFacts
  <1>1. UpgradeExclusive'  BY <1>0, <1>a DEF UpgradeExclusive, Readers
  <1>2. OverlapNeedsGap'  BY <1>0, <1>a DEF OverlapNeedsGap
  <1>3. LockHasRunner'
    <2>. SUFFICES ASSUME NEW j \in Jobs, lock[j] > 0, j \notin orphaned'
                  PROVE  \E f \in Execs : ex'[f].job = j /\ ex'[f].pc \in {"insert", "run"}
      BY <1>0 DEF LockHasRunner
    <2>1. PICK f \in Execs : ex[f].job = j /\ ex[f].pc \in {"insert", "run"}
      BY <1>0 DEF LockHasRunner
    <2>2. f # e  BY <1>0, <2>1
    <2>. QED  BY <1>a, <2>1, <2>2
  <1>4. WaitersInGap'  BY <1>0, <1>a DEF WaitersInGap
  <1>5. RunnerHasLock'  BY <1>0, <1>a DEF RunnerHasLock
  <1>. QED  BY <1>1, <1>2, <1>3, <1>4, <1>5

LEMMA SafeHalt ==
  ASSUME IInv, Halt
  PROVE  SafeInv'
  <1>. USE DEF Of, Pc, Job, Running, Reading, IsLockFresh, IInv, SafeInv
  <1>0. /\ \A e \in Execs : ex'[e].pc = "free"
        /\ lock' = lock /\ upgrade' = FALSE
        /\ orphaned' = orphaned \cup {ex[e].job : e \in {f \in Execs : ex[f].pc \in {"insert", "run"}}}
    BY DEF Halt, Free, Orphans
  <1>1. UpgradeExclusive'  BY <1>0 DEF UpgradeExclusive
  <1>2. OverlapNeedsGap'  BY <1>0 DEF OverlapNeedsGap
  <1>3. LockHasRunner'  BY <1>0 DEF LockHasRunner
  <1>4. WaitersInGap'  BY <1>0 DEF WaitersInGap
  <1>5. RunnerHasLock'  BY <1>0 DEF RunnerHasLock
  <1>. QED  BY <1>1, <1>2, <1>3, <1>4, <1>5

LEMMA SafeUpgrade ==
  ASSUME IInv, StartUpgrade
  PROVE  SafeInv'
  <1>. USE DEF Of, Pc, Job, Running, Reading, IsLockFresh, IInv, SafeInv
  <1>0. ex' = ex /\ lock' = lock /\ gap' = gap /\ orphaned' = orphaned /\ Readers = {}
    BY DEF StartUpgrade, ghosts
  <1>1. UpgradeExclusive'  BY <1>0 DEF UpgradeExclusive, Readers
  <1>2. OverlapNeedsGap'  BY <1>0 DEF OverlapNeedsGap
  <1>3. LockHasRunner'  BY <1>0 DEF LockHasRunner
  <1>4. WaitersInGap'  BY <1>0 DEF WaitersInGap
  <1>5. RunnerHasLock'  BY <1>0 DEF RunnerHasLock
  <1>. QED  BY <1>1, <1>2, <1>3, <1>4, <1>5

-----------------------------------------------------------------------------
\* a new execution is only at its start
LEMMA SafeSpawn ==
  ASSUME IInv, NEW j \in Jobs, NEW v \in 1..MaxEdits, NEW o \in {"schedule", "trigger"},
         NEW b \in BOOLEAN, Spawn(j, v, o, b),
         lock' = lock, upgrade' = upgrade, gap' = gap, orphaned' = orphaned
  PROVE  SafeInv' /\ ex' \in [Execs -> ExecType]
  <1>1. ex \in [Execs -> ExecType] /\ SafeInv  BY DEF IInv, TypeInv, TypeOK
  <1>2. PICK e \in Execs :
            /\ ex[e].pc = "free"
            /\ ex' \in [Execs -> ExecType]
            /\ ex'[e].pc = "start"
            /\ \A f \in Execs \ {e} : ex'[f] = ex[f]
    BY <1>1, SpawnFacts
  <1>3. ex[e].pc \notin Running  BY <1>2 DEF Running
  <1>4. SafeInv'  BY <1>1, <1>2, <1>3, SafeWhenIdle
  <1>. QED  BY <1>2, <1>4

LEMMA SafeExecute ==
  ASSUME IInv, NEW e \in Execs, Execute(e)
  PROVE  SafeInv'
  <1>. USE DEF Of
  <1>0. SafeInv /\ ex \in [Execs -> ExecType] /\ lock \in [Jobs -> 0..LockTtl]
    BY DEF IInv, TypeInv, TypeOK
  <1>j. ex[e].pc # "free" => ex[e].job \in Jobs  BY <1>0, BusyType
  <1>i. ASSUME ex[e].pc \in {"start", "wait", "settle"}, Leave(e),
               lock' = lock, upgrade' = upgrade, gap' = gap, orphaned' = orphaned
        PROVE  SafeInv'
    BY <1>0, <1>i, LeaveFacts, SafeWhenIdle DEF Running
  <1>r. ASSUME ex[e].pc \in Running, Leave(e), Unlock(e),
               upgrade' = upgrade, gap' = gap, orphaned' = orphaned
        PROVE  SafeInv'
    <2>1. /\ ex'[e].pc \in {"free", "delete", "settle"}
          /\ \A f \in Execs \ {e} : ex'[f] = ex[f]
      BY <1>0, <1>r, LeaveFacts DEF Running
    <2>2. ex[e].job \in Jobs  BY <1>j, <1>r DEF Running
    <2>. QED  BY <1>0, <1>r, <2>1, <2>2, SafeWhenReleased
  <1>1. CASE LockCheck(e)
    <2>1. CASE IsLockFresh(ex[e].job)  BY <1>1, <1>i, <2>1 DEF LockCheck, TakenByFault, others
    <2>2. CASE ~IsLockFresh(ex[e].job)  BY <1>1, <2>2, SafePastCheck
    <2>. QED  BY <2>1, <2>2
  <1>2. CASE Enter(e)  BY <1>2, SafeEnter
  <1>3. CASE EnterFails(e)  BY <1>3, <1>i DEF EnterFails, TakenByFault, others
  <1>4. CASE RunAborts(e)  BY <1>4, <1>r DEF RunAborts, TakenByFault, others, Running
  <1>5. CASE RunEnds(e)
    <2>1. /\ ex[e].pc = "run" /\ At(e, "settle") /\ Unlock(e)
          /\ upgrade' = upgrade /\ gap' = gap /\ orphaned' = orphaned
      BY <1>5 DEF RunEnds, others, ghosts
    <2>2. ex'[e].pc = "settle" /\ \A f \in Execs \ {e} : ex'[f] = ex[f]
      BY <1>0, <2>1, AtFacts
    <2>. QED  BY <1>0, <1>j, <2>1, <2>2, SafeWhenReleased DEF Running
  <1>6. CASE Settle(e)  BY <1>6, <1>i DEF Settle, others, ghosts
  <1>7. ASSUME NEW o \in IpcOutcomes, InsertRun(e, o)
        PROVE  SafeInv'
    <2>1. CASE o = "ok"  BY <1>7, <2>1, SafeInserted
    <2>2. CASE o # "ok"  BY <1>7, <1>r, <2>2 DEF InsertRun, TakenByFault, others, Running
    <2>. QED  BY <2>1, <2>2
  <1>8. ASSUME NEW o \in IpcOutcomes, DeleteOneShot(e, o)
        PROVE  SafeInv'
    <2>1. /\ ex[e].pc = "delete" /\ ex' = [ex EXCEPT ![e] = Free]
          /\ lock' = lock /\ upgrade' = upgrade /\ gap' = gap /\ orphaned' = orphaned
      BY <1>8 DEF DeleteOneShot, others
    <2>2. ex'[e].pc = "free" /\ \A f \in Execs \ {e} : ex'[f] = ex[f]
      BY <1>0, <2>1, FreeType
    <2>. QED  BY <1>0, <2>1, <2>2, SafeWhenIdle DEF Running
  <1>. QED  BY <1>1, <1>2, <1>3, <1>4, <1>5, <1>6, <1>7, <1>8 DEF Execute

-----------------------------------------------------------------------------
(* Types.  The scheduler's own variables are split from the executions.     *)
LEMMA TypeFrame ==
  ASSUME TypeInv, UNCHANGED <<spec, trig, handles, upgrade, rec, snap, todo, picked, phase, edits,
                              triggers, stops>>,
         ex' \in [Execs -> ExecType], lock' \in [Jobs -> 0..LockTtl],
         faults' \in 0..MaxFaults,
         gap' \subseteq Jobs, orphaned' \subseteq Jobs, accounted' \subseteq Versions
  PROVE  TypeInv'
  BY DEF TypeInv, TypeOK, SnapOK, LoopsOK

LEMMA IpcFacts ==
  ASSUME faults \in 0..MaxFaults, NEW o \in IpcOutcomes, Ipc(o)
  PROVE  faults' \in 0..MaxFaults /\ UNCHANGED <<edits, triggers, stops>>
  BY CronSchedulerAssumption DEF Ipc

LEMMA TypeExecute ==
  ASSUME IInv, NEW e \in Execs, Execute(e)
  PROVE  TypeInv'
  <1>. USE DEF Of
  <1>0. /\ TypeInv /\ ex \in [Execs -> ExecType] /\ lock \in [Jobs -> 0..LockTtl]
        /\ faults \in 0..MaxFaults
        /\ gap \subseteq Jobs /\ orphaned \subseteq Jobs /\ accounted \subseteq Versions
    BY DEF IInv, TypeInv, TypeOK
  <1>j. ex[e].pc # "free" => /\ ex[e].job \in Jobs
                           /\ ex[e].ver \in 1..MaxEdits /\ ex[e].ver \in Versions
    BY <1>0, BusyType, CronSchedulerAssumption DEF Versions
  <1>t. ASSUME ex[e].pc # "free", TakenByFault(e)
        PROVE  ex' \in [Execs -> ExecType] /\ accounted' \subseteq Versions
    BY <1>0, <1>t, TakenFacts, LeaveFacts
  <1>u. ASSUME ex[e].pc # "free", Unlock(e)
        PROVE  lock' \in [Jobs -> 0..LockTtl]
    BY <1>0, <1>j, <1>u, CronSchedulerAssumption DEF Unlock
  <1>1. CASE LockCheck(e)
    <2>1. ex' \in [Execs -> ExecType] /\ accounted' \subseteq Versions
      BY <1>0, <1>1, <1>t, LeaveFacts, AtFacts DEF LockCheck
    <2>2. gap' \subseteq Jobs  BY <1>0, <1>1, <1>j DEF LockCheck
    <2>3. UNCHANGED <<spec, trig, handles, upgrade, rec, snap, todo, picked, phase, edits,
                      triggers, stops, faults, lock, orphaned>>
      BY <1>1 DEF LockCheck, others, db, bounds, reconciler
    <2>. QED  BY <1>0, <2>1, <2>2, <2>3, TypeFrame
  <1>2. CASE Enter(e)
    <2>1. ex' \in [Execs -> ExecType]  BY <1>0, <1>2, AtFacts DEF Enter
    <2>2. lock' \in [Jobs -> 0..LockTtl]
      BY <1>0, <1>2, <1>j, CronSchedulerAssumption DEF Enter
    <2>4. UNCHANGED <<spec, trig, handles, upgrade, rec, snap, todo, picked, phase, edits,
                      triggers, stops, faults, gap, orphaned, accounted>>
      BY <1>2 DEF Enter, others, db, bounds, reconciler, ghosts
    <2>. QED  BY <1>0, <2>1, <2>2, <2>4, TypeFrame
  <1>3. CASE EnterFails(e)
    <2>1. ex' \in [Execs -> ExecType] /\ accounted' \subseteq Versions
      BY <1>3, <1>t DEF EnterFails
    <2>2. faults' \in 0..MaxFaults
      BY <1>0, <1>3, CronSchedulerAssumption DEF EnterFails
    <2>3. UNCHANGED <<spec, trig, handles, upgrade, rec, snap, todo, picked, phase, edits,
                      triggers, stops, lock, gap, orphaned>>
      BY <1>3 DEF EnterFails, others, db, reconciler
    <2>. QED  BY <1>0, <2>1, <2>2, <2>3, TypeFrame
  <1>4. CASE RunAborts(e) \/ RunEnds(e) \/ Settle(e)
    <2>1. ex' \in [Execs -> ExecType]
      BY <1>0, <1>4, <1>t, LeaveFacts, AtFacts DEF RunAborts, RunEnds, Settle
    <2>4. accounted' \subseteq Versions
      BY <1>0, <1>4, <1>t, <1>j, AccountFacts DEF RunAborts, RunEnds, Settle, ghosts
    <2>2. lock' \in [Jobs -> 0..LockTtl]
      BY <1>0, <1>4, <1>u DEF RunAborts, RunEnds, Settle
    <2>3. UNCHANGED <<spec, trig, handles, upgrade, rec, snap, todo, picked, phase, edits,
                      triggers, stops, faults, gap, orphaned>>
      BY <1>4 DEF RunAborts, RunEnds, Settle, others, db, bounds, ghosts, reconciler
    <2>. QED  BY <1>0, <2>1, <2>2, <2>3, <2>4, TypeFrame
  <1>5. ASSUME NEW o \in IpcOutcomes, InsertRun(e, o)
        PROVE  TypeInv'
    <2>1. ex' \in [Execs -> ExecType] /\ accounted' \subseteq Versions
      BY <1>0, <1>5, <1>t, AtFacts DEF InsertRun
    <2>2. lock' \in [Jobs -> 0..LockTtl]  BY <1>0, <1>5, <1>u DEF InsertRun
    <2>3. faults' \in 0..MaxFaults /\ UNCHANGED <<edits, triggers, stops>>
      BY <1>0, <1>5, IpcFacts DEF InsertRun
    <2>4. UNCHANGED <<spec, trig, handles, upgrade, rec, snap, todo, picked, phase,
                      gap, orphaned>>
      BY <1>5 DEF InsertRun, others, db, reconciler
    <2>. QED  BY <1>0, <2>1, <2>2, <2>3, <2>4, TypeFrame
  <1>6. ASSUME NEW o \in IpcOutcomes, DeleteOneShot(e, o)
        PROVE  TypeInv'
    <2>1. ex' \in [Execs -> ExecType]  BY <1>0, <1>6, FreeType DEF DeleteOneShot
    <2>2. faults' \in 0..MaxFaults /\ UNCHANGED <<edits, triggers, stops>>
      BY <1>0, <1>6, IpcFacts DEF DeleteOneShot
    <2>3. spec' \in [Jobs -> Versions] /\ trig' \in [Jobs -> Triggers]
      <3>1. spec \in [Jobs -> Versions] /\ trig \in [Jobs -> Triggers]
        BY <1>0 DEF TypeInv, TypeOK
      <3>2. 0 \in Versions /\ "no" \in Triggers
        BY CronSchedulerAssumption DEF Versions, Triggers
      <3>. QED  BY <1>6, <3>1, <3>2 DEF DeleteOneShot, db
    <2>5. accounted' \subseteq Versions
      <3>1. spec[ex[e].job] \in Versions  BY <1>0, <1>6, <1>j DEF DeleteOneShot, TypeInv, TypeOK
      <3>. QED  BY <1>0, <1>6, <3>1, AccountFacts DEF DeleteOneShot
    <2>4. UNCHANGED <<handles, upgrade, rec, snap, todo, picked, phase, lock,
                      gap, orphaned>>
      BY <1>6 DEF DeleteOneShot, others, reconciler
    <2>. QED  BY <1>0, <2>1, <2>2, <2>3, <2>4, <2>5 DEF TypeInv, TypeOK, SnapOK, LoopsOK
  <1>. QED  BY <1>1, <1>2, <1>3, <1>4, <1>5, <1>6 DEF Execute

LEMMA TypeUser ==
  ASSUME IInv, User
  PROVE  TypeInv'
  <1>0. /\ TypeInv /\ spec \in [Jobs -> Versions] /\ trig \in [Jobs -> Triggers]
        /\ lock \in [Jobs -> 0..LockTtl] /\ edits \in 0..MaxEdits
        /\ triggers \in 0..MaxTriggers /\ gap \subseteq Jobs /\ accounted \subseteq Versions
    BY DEF IInv, TypeInv, TypeOK
  <1>1. 0 \in Versions /\ {"no", "plain", "forced"} \subseteq Triggers /\ 0 \in 0..LockTtl
    BY CronSchedulerAssumption DEF Versions, Triggers
  <1>2. ASSUME NEW j \in Jobs, EditSpec(j)
        PROVE  TypeInv'
    <2>1. edits' \in 0..MaxEdits /\ edits + 1 \in Versions
      BY <1>0, <1>2, CronSchedulerAssumption DEF EditSpec, Versions
    <2>2. spec' \in [Jobs -> Versions] /\ accounted' \subseteq Versions
      BY <1>0, <1>2, <2>1, AccountFacts DEF EditSpec
    <2>3. UNCHANGED <<trig, lock, handles, ex, upgrade, rec, snap, todo, picked, phase,
                      triggers, faults, stops, gap, orphaned>>
      BY <1>2 DEF EditSpec, bot, reconciler
    <2>. QED  BY <1>0, <2>1, <2>2, <2>3 DEF TypeInv, TypeOK, SnapOK, LoopsOK
  <1>3. ASSUME NEW j \in Jobs, NEW b \in BOOLEAN, DeleteSpec(j, b)
        PROVE  TypeInv'
    <2>1. /\ spec' \in [Jobs -> Versions] /\ trig' \in [Jobs -> Triggers]
          /\ lock' \in [Jobs -> 0..LockTtl] /\ gap' \subseteq Jobs
          /\ accounted' \subseteq Versions
      BY <1>0, <1>1, <1>3, AccountFacts DEF DeleteSpec
    <2>2. UNCHANGED <<handles, ex, upgrade, rec, snap, todo, picked, phase, edits,
                      triggers, faults, stops, orphaned>>
      BY <1>3 DEF DeleteSpec, bot, bounds, reconciler
    <2>. QED  BY <1>0, <2>1, <2>2 DEF TypeInv, TypeOK, SnapOK, LoopsOK
  <1>4. ASSUME NEW j \in Jobs, NEW b \in BOOLEAN, TriggerSpec(j, b)
        PROVE  TypeInv'
    <2>1. trig' \in [Jobs -> Triggers]  BY <1>0, <1>1, <1>4 DEF TriggerSpec
    <2>2. triggers' \in 0..MaxTriggers
      BY <1>0, <1>4, CronSchedulerAssumption DEF TriggerSpec
    <2>3. UNCHANGED <<spec, lock, handles, ex, upgrade, rec, snap, todo, picked, phase,
                      edits, faults, stops, gap, orphaned, accounted>>
      BY <1>4 DEF TriggerSpec, bot, ghosts, reconciler
    <2>. QED  BY <1>0, <2>1, <2>2, <2>3 DEF TypeInv, TypeOK, SnapOK, LoopsOK
  <1>. QED  BY <1>2, <1>3, <1>4 DEF User

(* The reconciler and the loops only start executions of versions that were *)
(* present when the specifications were loaded.                             *)
LEMMA StartReconcile ==
  ASSUME IInv, Reconcile
  PROVE  SafeInv' /\ ex' \in [Execs -> ExecType]
  <1>0. /\ SafeInv /\ ex \in [Execs -> ExecType] /\ SnapOK
        /\ snap \in [Jobs -> [ver : Versions, trig : Triggers]] /\ todo \subseteq Jobs
    BY DEF IInv, TypeInv, TypeOK
  <1>v. \A j \in Jobs : snap[j].ver # 0 => snap[j].ver \in 1..MaxEdits
    BY <1>0, CronSchedulerAssumption DEF Versions
  <1>1. ASSUME NEW o \in IpcOutcomes, LoadSpecs(o) \/ \E j \in Jobs : ClearTriggered(j, o)
        PROVE  SafeInv' /\ ex' \in [Execs -> ExecType]
    <2>1. UNCHANGED <<ex, lock, upgrade, gap, orphaned, accounted>>
      BY <1>1 DEF LoadSpecs, ClearTriggered, ghosts
    <2>. QED  BY <1>0, <2>1, SafeWhenStill
  <1>2. ASSUME NEW j \in Jobs, FireOneShot(j)
        PROVE  SafeInv' /\ ex' \in [Execs -> ExecType]
    <2>1. UNCHANGED <<lock, upgrade, gap, orphaned, accounted>>  BY <1>2 DEF FireOneShot, ghosts
    <2>2. snap[j].ver \in 1..MaxEdits  BY <1>0, <1>2, <1>v DEF FireOneShot, SnapOK
    <2>3. CASE ex' = ex  BY <1>0, <2>1, <2>3, SafeWhenStill
    <2>4. CASE Spawn(j, snap[j].ver, "schedule", snap[j].trig = "forced")
      BY <2>1, <2>2, <2>4, SafeSpawn
    <2>. QED  BY <1>2, <2>3, <2>4 DEF FireOneShot
  <1>3. CASE UpdateHandles \/ Reconciled
    <2>1. UNCHANGED <<ex, lock, upgrade, gap, orphaned, accounted>>
      BY <1>3 DEF UpdateHandles, Reconciled, ghosts
    <2>. QED  BY <1>0, <2>1, SafeWhenStill
  <1>4. CASE FireTriggered
    <2>1. UNCHANGED <<lock, upgrade, gap, orphaned, accounted>>  BY <1>4 DEF FireTriggered, ghosts
    <2>2. picked \in Jobs /\ snap[picked].ver \in 1..MaxEdits
      BY <1>0, <1>4, <1>v DEF FireTriggered, SnapOK
    <2>3. CASE ex' = ex  BY <1>0, <2>1, <2>3, SafeWhenStill
    <2>4. CASE Spawn(picked, snap[picked].ver, "trigger", snap[picked].trig = "forced")
      BY <2>1, <2>2, <2>4, SafeSpawn
    <2>. QED  BY <1>4, <2>3, <2>4 DEF FireTriggered
  <1>. QED  BY <1>1, <1>2, <1>3, <1>4 DEF Reconcile

LEMMA TypeReconcile ==
  ASSUME IInv, Reconcile
  PROVE  TypeInv'
  <1>0. /\ TypeInv /\ spec \in [Jobs -> Versions] /\ trig \in [Jobs -> Triggers]
        /\ snap \in [Jobs -> [ver : Versions, trig : Triggers]]
        /\ todo \subseteq Jobs /\ faults \in 0..MaxFaults
    BY DEF IInv, TypeInv, TypeOK
  <1>1. 0 \in Versions /\ "no" \in Triggers
    BY CronSchedulerAssumption DEF Versions, Triggers
  <1>x. ex' \in [Execs -> ExecType]  BY StartReconcile
  <1>2. ASSUME NEW o \in IpcOutcomes, LoadSpecs(o)
        PROVE  TypeInv'
    <2>1. faults' \in 0..MaxFaults /\ UNCHANGED <<edits, triggers, stops>>
      BY <1>0, <1>2, IpcFacts DEF LoadSpecs
    <2>2. UNCHANGED <<spec, trig, lock, handles, ex, upgrade, picked, phase, gap, orphaned, accounted>>
      BY <1>2 DEF LoadSpecs, db, ghosts, reconciler
    <2>3. /\ snap' \in [Jobs -> [ver : Versions, trig : Triggers]] /\ todo' \subseteq Jobs
          /\ rec' \in {"idle", "fire"} /\ \A j \in todo' : snap'[j].ver # 0
      BY <1>0, <1>2 DEF LoadSpecs, reconciler, Jobs, TypeInv, SnapOK
    <2>. QED  BY <1>0, <2>1, <2>2, <2>3 DEF TypeInv, TypeOK, SnapOK, LoopsOK
  <1>3. ASSUME NEW o \in IpcOutcomes, NEW j \in Jobs, ClearTriggered(j, o)
        PROVE  TypeInv'
    <2>1. faults' \in 0..MaxFaults /\ UNCHANGED <<edits, triggers, stops>>
      BY <1>0, <1>3, IpcFacts DEF ClearTriggered
    <2>2. UNCHANGED <<spec, lock, handles, ex, upgrade, snap, phase, gap, orphaned, accounted>>
      BY <1>3 DEF ClearTriggered, ghosts
    <2>3. trig' \in [Jobs -> Triggers]  BY <1>0, <1>1, <1>3 DEF ClearTriggered
    <2>4. snap[j].ver # 0 /\ rec = "trigger"  BY <1>0, <1>3 DEF ClearTriggered, TypeInv, SnapOK
    <2>5. /\ todo' \subseteq todo
          /\ \/ rec' = "cleared" /\ picked' = j
             \/ rec' = rec /\ picked' = picked
      BY <1>3 DEF ClearTriggered
    <2>. QED  BY <1>0, <2>1, <2>2, <2>3, <2>4, <2>5 DEF TypeInv, TypeOK, SnapOK, LoopsOK
  <1>4. ASSUME NEW j \in Jobs, FireOneShot(j)
        PROVE  TypeInv'
    <2>1. UNCHANGED <<spec, trig, lock, handles, upgrade, rec, snap, picked, phase, edits,
                      triggers, faults, stops, gap, orphaned, accounted>> /\ todo' \subseteq todo
      BY <1>4 DEF FireOneShot, db, bounds, ghosts
    <2>. QED  BY <1>0, <1>x, <2>1 DEF TypeInv, TypeOK, SnapOK, LoopsOK
  <1>5. CASE UpdateHandles
    <2>1. UNCHANGED <<spec, trig, lock, ex, upgrade, snap, picked, phase, edits,
                      triggers, faults, stops, gap, orphaned, accounted>> /\ rec' = "trigger"
      BY <1>5 DEF UpdateHandles, db, bounds, ghosts
    <2>2. todo' \subseteq Jobs /\ \A j \in todo' : snap'[j].ver # 0
      BY <2>1, <1>5 DEF UpdateHandles
    <2>3. ASSUME NEW j \in Jobs
          PROVE  /\ handles'[j] \in [state : {"none", "armed", "ended"}, ver : Versions, forced : BOOLEAN]
                 /\ handles'[j].state # "none" => handles'[j].ver # 0
      <3>1. /\ handles[j] \in [state : {"none", "armed", "ended"}, ver : Versions, forced : BOOLEAN]
            /\ handles[j].state # "none" => handles[j].ver # 0
        BY <1>0 DEF TypeInv, TypeOK, LoopsOK
      <3>2. /\ NoLoop \in [state : {"none", "armed", "ended"}, ver : Versions, forced : BOOLEAN]
            /\ NoLoop.state = "none"
        BY <1>1 DEF NoLoop
      <3>3. CASE handles'[j] \in {NoLoop, handles[j]}  BY <3>1, <3>2, <3>3
      <3>4. CASE /\ handles'[j] = [state |-> "armed", ver |-> snap[j].ver, forced |-> snap[j].trig = "forced"]
                 /\ snap[j].ver # 0
        <4>1. snap[j].ver \in Versions  BY <1>0
        <4>2. (snap[j].trig = "forced") \in BOOLEAN  OBVIOUS
        <4>. QED  BY <3>4, <4>1, <4>2
      <3>. QED  BY <1>5, <3>3, <3>4 DEF UpdateHandles
    <2>4. handles' = [j \in Jobs |-> handles'[j]]  BY <1>5 DEF UpdateHandles
    <2>5. handles' \in [Jobs -> [state : {"none", "armed", "ended"}, ver : Versions, forced : BOOLEAN]]
      BY <2>3, <2>4
    <2>6. LoopsOK'  BY <2>3 DEF LoopsOK
    <2>. QED  BY <1>0, <2>1, <2>2, <2>5, <2>6 DEF TypeInv, TypeOK, SnapOK
  <1>6. CASE FireTriggered
    <2>1. UNCHANGED <<spec, trig, lock, handles, upgrade, snap, todo, phase, edits, triggers,
                      faults, stops, gap, orphaned, accounted>> /\ rec' = "trigger" /\ picked' = "none"
      BY <1>6 DEF FireTriggered, db, bounds, ghosts
    <2>. QED  BY <1>0, <1>x, <2>1 DEF TypeInv, TypeOK, SnapOK, LoopsOK
  <1>7. CASE Reconciled
    <2>1. UNCHANGED <<spec, trig, lock, handles, ex, upgrade, todo, picked, phase, edits, triggers,
                      faults, stops, gap, orphaned, accounted>> /\ rec' = "idle" /\ todo = {}
      BY <1>7 DEF Reconciled, db, bounds, ghosts
    <2>2. snap' \in [Jobs -> [ver : Versions, trig : Triggers]]  BY <1>1, <1>7 DEF Reconciled
    <2>. QED  BY <1>0, <2>1, <2>2 DEF TypeInv, TypeOK, SnapOK, LoopsOK
  <1>. QED  BY <1>2, <1>3, <1>4, <1>5, <1>6, <1>7 DEF Reconcile

LEMMA LoopStep ==
  ASSUME IInv, NEW j \in Jobs, LoopFires(j)
  PROVE  IInv'
  <1>0. /\ TypeInv /\ LoopsOK
        /\ handles \in [Jobs -> [state : {"none", "armed", "ended"}, ver : Versions, forced : BOOLEAN]]
    BY DEF IInv, TypeInv, TypeOK
  <1>1. handles[j].ver \in 1..MaxEdits /\ handles[j].forced \in BOOLEAN
    <2>1. handles[j].ver \in Versions /\ handles[j].ver # 0 /\ handles[j].forced \in BOOLEAN
      BY <1>0 DEF LoopFires, LoopsOK
    <2>. QED  BY <2>1, CronSchedulerAssumption DEF Versions
  <1>2. UNCHANGED <<spec, trig, lock, upgrade, rec, snap, todo, picked, phase, edits, triggers,
                    faults, stops, gap, orphaned, accounted>>
    BY DEF LoopFires, db, bounds, ghosts, reconciler
  <1>3. Spawn(j, handles[j].ver, "schedule", handles[j].forced)  BY DEF LoopFires
  <1>4. SafeInv' /\ ex' \in [Execs -> ExecType]  BY <1>1, <1>2, <1>3, SafeSpawn
  <1>5. /\ handles' \in [Jobs -> [state : {"none", "armed", "ended"}, ver : Versions, forced : BOOLEAN]]
        /\ LoopsOK'
    <2>1. CASE handles' = handles  BY <1>0, <2>1 DEF LoopsOK
    <2>2. CASE handles' = [handles EXCEPT ![j].state = "ended"]
      BY <1>0, <1>1, <2>2 DEF LoopsOK
    <2>. QED  BY <2>1, <2>2 DEF LoopFires
  <1>. QED  BY <1>0, <1>2, <1>4, <1>5 DEF IInv, TypeInv, TypeOK, SnapOK

LEMMA HaltType ==
  ASSUME IInv, Halt, stops' \in 0..MaxStops
  PROVE  TypeInv'
  <1>0. TypeInv  BY DEF IInv
  <1>1. 0 \in Versions /\ "no" \in Triggers
    BY CronSchedulerAssumption DEF Versions, Triggers
  <1>2. snap' \in [Jobs -> [ver : Versions, trig : Triggers]]  BY <1>1 DEF Halt
  <1>3. /\ handles' \in [Jobs -> [state : {"none", "armed", "ended"}, ver : Versions, forced : BOOLEAN]]
        /\ LoopsOK'
    BY <1>1 DEF Halt, NoLoop, LoopsOK
  <1>4. ex' \in [Execs -> ExecType]  BY FreeType DEF Halt
  <1>5. orphaned' \subseteq Jobs
    <2>1. \A e \in Execs : Of(e, Running) => ex[e].job \in Jobs
      BY <1>0, BusyType DEF Of, Running, TypeInv, TypeOK
    <2>2. orphaned \subseteq Jobs  BY <1>0 DEF TypeInv, TypeOK
    <2>. QED  BY <2>1, <2>2 DEF Halt, Orphans
  <1>6. /\ UNCHANGED <<spec, trig, lock, edits, triggers, faults, gap>>
        /\ rec' = "idle" /\ todo' = {} /\ picked' = "none" /\ upgrade' = FALSE /\ phase' = "down"
    BY DEF Halt, db
  <1>7. accounted' \subseteq Versions
    <2>1. 0 \in Versions /\ 1..MaxEdits \subseteq Versions
      BY CronSchedulerAssumption DEF Versions
    <2>2. \A e \in Execs : ex[e].ver \in Versions
      BY <1>0, <2>1, BusyType DEF ExecType, Free, TypeInv, TypeOK
    <2>3. accounted \subseteq Versions  BY <1>0 DEF TypeInv, TypeOK
    <2>. QED  BY <2>2, <2>3 DEF Halt, CutRuns
  <1>. QED  BY <1>0, <1>2, <1>3, <1>4, <1>5, <1>6, <1>7 DEF TypeInv, TypeOK, SnapOK

LEMMA AbortType ==
  ASSUME IInv, NEW e \in Execs, AbortExec(e)
  PROVE  TypeInv'
  <1>0. /\ TypeInv /\ ex \in [Execs -> ExecType]
        /\ orphaned \subseteq Jobs /\ accounted \subseteq Versions
    BY DEF IInv, TypeInv, TypeOK
  <1>1. ex[e].pc # "free" /\ ex[e].job \in Jobs  BY <1>0, BusyType DEF AbortExec, Of
  <1>2. ex' \in [Execs -> ExecType] /\ accounted' \subseteq Versions
    BY <1>0, <1>1, TakenFacts, LeaveFacts DEF AbortExec
  <1>3. orphaned' \subseteq Jobs  BY <1>0, <1>1 DEF AbortExec, Orphans
  <1>4. UNCHANGED <<spec, trig, lock, handles, upgrade, rec, snap, todo, picked, phase, edits,
                    triggers, faults, stops, gap>>
    BY DEF AbortExec, others, db, bounds, reconciler
  <1>. QED  BY <1>0, <1>2, <1>3, <1>4 DEF TypeInv, TypeOK, SnapOK, LoopsOK

LEMMA TickType ==
  ASSUME IInv, Tick
  PROVE  TypeInv'
  <1>0. /\ TypeInv /\ ex \in [Execs -> ExecType] /\ gap \subseteq Jobs
        /\ lock \in [Jobs -> 0..LockTtl]
    BY DEF IInv, TypeInv, TypeOK
  <1>1. lock' \in [Jobs -> 0..LockTtl]  BY <1>0, CronSchedulerAssumption DEF Tick
  <1>2. gap' \subseteq Jobs  BY <1>0, BusyType DEF Tick, Of, Running
  <1>3. UNCHANGED <<spec, trig, handles, ex, upgrade, rec, snap, todo, picked, phase, edits,
                    triggers, faults, stops, orphaned, accounted>>
    BY DEF Tick, db, bounds, reconciler
  <1>. QED  BY <1>0, <1>1, <1>2, <1>3 DEF TypeInv, TypeOK, SnapOK, LoopsOK

\* upgrade and phases: nothing the reconciler or the executions hold changes
LEMMA PhaseType ==
  ASSUME IInv, StartUpgrade \/ EndUpgrade \/ BeginShutdown \/ StopSchedulers \/ Restart
  PROVE  TypeInv'
  <1>0. TypeInv /\ upgrade \in BOOLEAN /\ stops \in 0..MaxStops  BY DEF IInv, TypeInv, TypeOK
  <1>1. UNCHANGED <<spec, trig, lock, ex, rec, snap, todo, picked, edits, triggers, faults,
                    gap, orphaned, accounted>>
    BY DEF StartUpgrade, EndUpgrade, BeginShutdown, StopSchedulers, Restart,
           db, bounds, ghosts, reconciler
  <1>2. /\ upgrade' \in BOOLEAN /\ stops' \in 0..MaxStops
        /\ phase' \in {"up", "draining", "waiting", "down"}
    <2>1. upgrade' \in BOOLEAN
      BY <1>0, Zenon DEF StartUpgrade, EndUpgrade, BeginShutdown, StopSchedulers, Restart
    <2>2. phase' \in {"up", "draining", "waiting", "down"}
      BY <1>0 DEF StartUpgrade, EndUpgrade, BeginShutdown, StopSchedulers, Restart, TypeInv, TypeOK
    <2>3. stops' \in 0..MaxStops
      BY <1>0, CronSchedulerAssumption
      DEF StartUpgrade, EndUpgrade, BeginShutdown, StopSchedulers, Restart, bounds
    <2>. QED  BY <2>1, <2>2, <2>3
  <1>3. /\ handles' \in [Jobs -> [state : {"none", "armed", "ended"}, ver : Versions, forced : BOOLEAN]]
        /\ LoopsOK'
    <2>1. CASE handles' = handles  BY <1>0, <2>1 DEF TypeInv, TypeOK, LoopsOK
    <2>2. CASE handles' = [j \in Jobs |-> NoLoop]
      BY <2>2, CronSchedulerAssumption DEF NoLoop, LoopsOK, Versions
    <2>. QED  BY <2>1, <2>2 DEF StartUpgrade, EndUpgrade, BeginShutdown, StopSchedulers, Restart
  <1>. QED  BY <1>0, <1>1, <1>2, <1>3 DEF TypeInv, TypeOK, SnapOK

-----------------------------------------------------------------------------
(* The inductive invariant.                                                 *)
LEMMA InitIInv == Init => IInv
  <1>. SUFFICES ASSUME Init PROVE IInv  OBVIOUS
  <1>1. 0 \in Versions /\ "no" \in Triggers
    BY CronSchedulerAssumption DEF Versions, Triggers
  <1>2. ex \in [Execs -> ExecType] /\ \A e \in Execs : ex[e].pc = "free"
    BY FreeType DEF Init
  <1>3. TypeOK
    <2>1. snap \in [Jobs -> [ver : Versions, trig : Triggers]]  BY <1>1 DEF Init
    <2>2. handles \in [Jobs -> [state : {"none", "armed", "ended"}, ver : Versions, forced : BOOLEAN]]
      BY <1>1 DEF Init, NoLoop
    <2>3. spec \in [Jobs -> Versions] /\ trig \in [Jobs -> Triggers]  BY <1>1 DEF Init
    <2>4. lock \in [Jobs -> 0..LockTtl]
      BY CronSchedulerAssumption DEF Init
    <2>5. /\ edits \in 0..MaxEdits /\ triggers \in 0..MaxTriggers
          /\ faults \in 0..MaxFaults /\ stops \in 0..MaxStops
      BY CronSchedulerAssumption DEF Init
    <2>6. /\ rec = "idle" /\ upgrade = FALSE /\ todo = {} /\ picked = "none" /\ phase = "up"
          /\ gap = {} /\ orphaned = {} /\ accounted = {}
      BY DEF Init
    <2>. QED  BY <1>2, <2>1, <2>2, <2>3, <2>4, <2>5, <2>6 DEF TypeOK
  <1>4. SnapOK /\ LoopsOK  BY DEF Init, SnapOK, LoopsOK, NoLoop
  <1>5. SafeInv
    BY <1>2 DEF Init, SafeInv, UpgradeExclusive, OverlapNeedsGap, LockHasRunner, WaitersInGap,
                RunnerHasLock, Readers, Of, Pc, Job, IsLockFresh, Reading, Running
  <1>. QED  BY <1>3, <1>4, <1>5 DEF IInv, TypeInv

LEMMA NextIInv == IInv /\ [Next]_vars => IInv'
  <1>. SUFFICES ASSUME IInv, [Next]_vars PROVE IInv'  OBVIOUS
  <1>s. ASSUME UNCHANGED <<ex, lock, gap, orphaned>>, upgrade' = upgrade \/ upgrade' = FALSE
        PROVE  SafeInv'
    BY <1>s, SafeWhenStill DEF IInv
  <1>1. CASE User
    <2>1. TypeInv'  BY <1>1, TypeUser
    <2>2. ASSUME NEW j \in Jobs, EditSpec(j) \/ \E b \in BOOLEAN : TriggerSpec(j, b)
          PROVE  SafeInv'
      BY <1>s, <2>2 DEF EditSpec, TriggerSpec, bot, ghosts
    <2>3. ASSUME NEW j \in Jobs, NEW b \in BOOLEAN, DeleteSpec(j, b)
          PROVE  SafeInv'
      BY <2>3, SafeDeleteSpec
    <2>. QED  BY <1>1, <2>1, <2>2, <2>3 DEF User, IInv
  <1>2. CASE Reconcile  BY <1>2, StartReconcile, TypeReconcile DEF IInv
  <1>3. ASSUME NEW j \in Jobs, LoopFires(j) PROVE IInv'  BY <1>3, LoopStep
  <1>4. ASSUME NEW e \in Execs, Execute(e) PROVE IInv'
    BY <1>4, SafeExecute, TypeExecute DEF IInv
  <1>5. ASSUME NEW e \in Execs, AbortExec(e) PROVE IInv'
    BY <1>5, SafeAbort, AbortType DEF IInv
  <1>6. CASE StartUpgrade  BY <1>6, SafeUpgrade, PhaseType DEF IInv
  <1>7. CASE EndUpgrade \/ BeginShutdown \/ StopSchedulers \/ Restart
    <2>1. SafeInv'
      BY <1>s, <1>7 DEF EndUpgrade, BeginShutdown, StopSchedulers, Restart, ghosts
    <2>. QED  BY <1>7, <2>1, PhaseType DEF IInv
  <1>8. CASE Tick  BY <1>8, SafeTick, TickType DEF IInv
  <1>9. CASE Exit \/ Crash
    <2>1. Halt  BY <1>9 DEF Exit, Crash
    <2>2. stops' \in 0..MaxStops
      BY <1>9, CronSchedulerAssumption DEF Exit, Crash, IInv, TypeInv, TypeOK
    <2>. QED  BY <2>1, <2>2, SafeHalt, HaltType DEF IInv
  <1>10. CASE UNCHANGED vars
    <2>1. SafeInv'  BY <1>s, <1>10 DEF vars, ghosts
    <2>2. TypeInv'
      BY <1>10 DEF vars, db, reconciler, bounds, ghosts, IInv, TypeInv, TypeOK, SnapOK, LoopsOK
    <2>. QED  BY <2>1, <2>2 DEF IInv
  <1>. QED
    BY <1>1, <1>2, <1>3, <1>4, <1>5, <1>6, <1>7, <1>8, <1>9, <1>10 DEF Next

(* Every variable keeps its type: in particular the reconciler and the      *)
(* loops never start an execution of a specification they did not load.     *)
THEOREM CronTypeCorrect == Spec => []TypeOK
  <1>1. IInv => TypeOK  BY DEF IInv, TypeInv
  <1>. QED  BY <1>1, InitIInv, NextIInv, PTL DEF Spec

(* The sandbox is never upgraded under a cron execution (upgrade.rs takes   *)
(* the lock for writing, execute_job holds it for reading).                 *)
THEOREM UpgradeIsExclusive == Spec => []UpgradeExclusive
  <1>1. IInv => UpgradeExclusive  BY DEF IInv, SafeInv
  <1>. QED  BY <1>1, InitIInv, NextIInv, PTL DEF Spec

(* Two executions of a job overlap only through the gap between lock check  *)
(* and lock file, an expired TTL or a removed lock file.                    *)
THEOREM OverlapOnlyThroughGap == Spec => []OverlapNeedsGap
  <1>1. IInv => OverlapNeedsGap  BY DEF IInv, SafeInv
  <1>. QED  BY <1>1, InitIInv, NextIInv, PTL DEF Spec

(* A fresh lock file has a running execution or is left by one that died:   *)
(* no other way out of execute_job leaves a job locked.                     *)
THEOREM LocksHaveRunners == Spec => []LockHasRunner
  <1>1. IInv => LockHasRunner  BY DEF IInv, SafeInv
  <1>. QED  BY <1>1, InitIInv, NextIInv, PTL DEF Spec
=============================================================================
