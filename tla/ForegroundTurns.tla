-------------------------- MODULE ForegroundTurns --------------------------
(***************************************************************************)
(* The foreground turns of one Telegram chat: the handlers that hand a     *)
(* message to the chat's worker (telegram/handler.rs), the workers and     *)
(* their Claude invocations (telegram/worker.rs), the maps they share with *)
(* the inline buttons and the shutdown (telegram/mod.rs, dispatch.rs), and *)
(* the two other users of a session, async delivery and idle compaction,   *)
(* which meet the worker at the session lock.                              *)
(*                                                                         *)
(* A chat has at most one entry in each map: worker_map (wmap), the stop   *)
(* token (tok, its turn), the background request (bg) and the handoff gate *)
(* (gate).  Each task step between two awaits is one action.  What a turn  *)
(* says is abstracted; how it ended (end) is not.  Turn ids and session    *)
(* ids are numbers in the order they are made; 0 stands for none.          *)
(***************************************************************************)
EXTENDS Naturals, FiniteSets

CONSTANTS Workers, Handlers,
          MaxMessages,  \* messages sent to the chat
          MaxTurns,     \* turns, and sessions
          MaxEvents     \* commands, clicks, deliveries and failures

ASSUME ForegroundAssumption ==
  /\ IsFiniteSet(Workers) /\ {"none", "delivery", "compaction"} \cap Workers = {}
  /\ {MaxMessages, MaxTurns, MaxEvents} \subseteq Nat

VARIABLES
  wmap,       \* worker_map[key]: the worker whose sender it holds
  wk,         \* per worker: where its task is, the turn it works on, its token
  hnd,        \* per handler: the message it is handing over
  active,     \* the chat's active session in the database, or 0
  sessions,   \* sessions made so far
  turns,      \* turn ids handed out (NEXT_TURN_ID)
  tok,        \* stop_tokens[key]: the turn of the token, or 0
  bg,         \* bg_requests[key]: [turn, reason], turn 0 for no entry
  gate,       \* bg_handoff_gates has the key
  locks,      \* session_locks: the lock object of each session, 0 for none
  compact,    \* the idle-compaction task and its timer token
  deliv,      \* the delivery attempt to this chat
  driver,     \* the shutdown task of dispatch.rs
  life,       \* the lifecycle future of dispatch.rs
  shut,       \* worker_shutdown is cancelled
  overlap,    \* two turns of the chat were in flight together (history)
  messages,   \* messages received so far
  events      \* commands, clicks, deliveries and failures so far

vars == <<wmap, wk, hnd, active, sessions, turns, tok, bg, gate, locks,
          compact, deliv, driver, life, shut, overlap, messages, events>>

shared == <<tok, bg, gate, overlap>>
others == <<locks, compact, deliv>>
\* The bot is up, and the step is none of its shutdown.
Exited == life = "exited"
Up == ~Exited /\ UNCHANGED <<driver, life, shut>>

NoWorker == "none"
Procs == Workers \cup {"delivery", "compaction"}
Sess == 1 .. MaxTurns
\* The objects in the map and those a task refers to leave one of these free.
Objects == 1 .. Cardinality(Procs) + MaxTurns + 1
NoBg == [turn |-> 0, reason |-> "none"]
Idle == [pc |-> "recv", mail |-> 0, sess |-> 0, first |-> FALSE, turn |-> 0,
         obj |-> 0, cancelled |-> FALSE, end |-> "none",
         why |-> "none", next |-> "recv"]
Unborn == [Idle EXCEPT !.pc = "none"]
OffTask == [pc |-> "off", sess |-> 0, obj |-> 0]
NoCompaction == [pc |-> "off", sess |-> 0, obj |-> 0, cancelled |-> FALSE]
\* idle_compaction::cancel
Cancelled(c) == [c EXCEPT !.cancelled = (c.pc # "off")]

\* Inside invoke_cc after the session lock, and the handoff that keeps it.
GuardPcs == {"guarded", "registered", "tearing", "spawning", "running",
             "ended", "match", "drop", "release", "handoff", "fork"}
\* From the registration of the stop token to the end of the turn.
TurnPcs == {"registered", "tearing", "spawning", "running", "ended",
            "match", "drop", "release", "handoff", "fork"}
Ends == {"result", "error", "limited", "auth", "missing", "silent",
         "timeout", "stopped", "undelivered"}

ObjOf(p) == CASE p = "delivery" -> deliv.obj
              [] p = "compaction" -> compact.obj
              [] OTHER -> wk[p].obj
SessOf(p) == CASE p = "delivery" -> deliv.sess
               [] p = "compaction" -> compact.sess
               [] OTHER -> wk[p].sess
Holds(p) == CASE p = "delivery" -> deliv.pc = "run"
              [] p = "compaction" -> compact.pc = "run"
              [] OTHER -> wk[p].pc \in GuardPcs /\ wk[p].obj # 0
\* A live Claude process that resumes the session under its lock.
Resumes(p) == CASE p = "delivery" -> deliv.pc = "run"
                [] p = "compaction" -> compact.pc = "run"
                [] OTHER -> wk[p].pc \in {"running", "fork"}
\* The reflection and the null-reply repair: resumed without the lock.
Notices(p) == p \in Workers /\ wk[p].pc \in {"reflect", "repair"}

Init ==
  /\ wmap = NoWorker
  /\ wk = [w \in Workers |-> Unborn]
  /\ hnd = [h \in Handlers |-> [pc |-> "idle", to |-> NoWorker]]
  /\ active = 0 /\ sessions = 0 /\ turns = 0
  /\ tok = 0 /\ bg = NoBg /\ gate = FALSE
  /\ locks = [s \in Sess |-> 0]
  /\ compact = NoCompaction
  /\ deliv = OffTask
  /\ driver = "up" /\ life = "up" /\ shut = FALSE
  /\ overlap = FALSE
  /\ messages = 0 /\ events = 0

Event == events < MaxEvents /\ events' = events + 1
Fault == Event
Now(w, new) == wk' = [wk EXCEPT ![w] = new]

----------------------------------------------------------------------------
(* Handlers: handle_message's lookup loop.                                 *)

\* worker_map.get(&key), with the sender cloned.  Handlers are alike: the
\* first idle one takes the message.
Receive ==
  /\ messages < MaxMessages /\ messages' = messages + 1
  /\ \E h \in Handlers : hnd[h].pc = "idle"
  /\ LET h == CHOOSE g \in Handlers : hnd[g].pc = "idle" IN
     hnd' = [hnd EXCEPT ![h] = [pc |-> IF wmap = NoWorker THEN "spawn"
                                                          ELSE "send",
                                to |-> wmap]]
  /\ UNCHANGED <<events, wmap, wk, active, sessions, turns, shared, others>>
  /\ Up

\* spawn_worker, then worker_map.insert: the entry of a worker another
\* handler spawned meanwhile is overwritten.
SpawnWorker(h) ==
  /\ hnd[h].pc = "spawn"
  /\ \E w \in Workers : wk[w].pc = "none"
  /\ LET w == CHOOSE v \in Workers : wk[v].pc = "none" IN
       /\ wk' = [wk EXCEPT ![w] = Idle]
       /\ wmap' = w
       /\ hnd' = [hnd EXCEPT ![h] = [pc |-> "send", to |-> w]]
  /\ UNCHANGED <<messages, active, sessions, turns, shared, others, events>>
  /\ Up

Send(h) ==
  /\ hnd[h].pc = "send"
  /\ LET w == hnd[h].to IN
     IF wk[w].pc = "gone"
       THEN \* send failed: the entry is removed, whosever it is; look again
            /\ wmap' = NoWorker
            /\ hnd' = [hnd EXCEPT ![h] = [pc |-> "spawn", to |-> NoWorker]]
            /\ UNCHANGED wk
       ELSE /\ Now(w, [wk[w] EXCEPT !.mail = @ + 1])
            /\ hnd' = [hnd EXCEPT ![h] = [pc |-> "idle", to |-> NoWorker]]
            /\ UNCHANGED wmap
  /\ UNCHANGED <<messages, active, sessions, turns, shared, others, events>>
  /\ Up

\* create_session: the new session is the chat's active one.
CreateSession ==
  /\ sessions < MaxTurns
  /\ sessions' = sessions + 1 /\ active' = sessions + 1

\* /new: deactivate the session and drop the worker's sender; a name makes the
\* next session at once.
NewCommand ==
  /\ Event
  /\ wmap' = NoWorker
  /\ CreateSession \/ (active' = 0 /\ UNCHANGED sessions)
  /\ UNCHANGED <<messages, wk, hnd, turns, shared, others>>
  /\ Up

\* /switch: activate another session of the chat, drop the worker's sender.
SwitchCommand ==
  /\ Event
  /\ \E s \in 1 .. sessions : s # active /\ active' = s
  /\ wmap' = NoWorker
  /\ UNCHANGED <<messages, wk, hnd, sessions, turns, shared, others>>
  /\ Up

\* The token in the map belongs to the invocation that registered it.
Owner(t) == CHOOSE w \in Workers : wk[w].turn = t
Cancel(t) == [wk EXCEPT ![Owner(t)] = [@ EXCEPT !.cancelled = TRUE]]

\* handle_stop_callback.
StopClick ==
  /\ tok # 0 /\ Event
  /\ wk' = Cancel(tok)
  /\ UNCHANGED <<messages, wmap, hnd, active, sessions, turns, shared, others>>
  /\ Up

\* mutant: the gate is not raised
BgClickUngated ==
  /\ tok # 0 /\ Event
  /\ bg' = [turn |-> tok, reason |-> "user"] /\ wk' = Cancel(tok)
  /\ UNCHANGED <<messages, wmap, hnd, active, sessions, turns, tok, gate,
                 overlap, others>>
  /\ Up

\* handle_bg_callback: gate, request and cancellation under the guard of the
\* stop_tokens entry, so no worker removes the token in between.
BgClick ==
  /\ tok # 0 /\ Event
  /\ gate' = TRUE
  /\ bg' = [turn |-> tok, reason |-> "user"]
  /\ wk' = Cancel(tok)
  /\ UNCHANGED <<messages, wmap, hnd, active, sessions, turns, tok, overlap,
                 others>>
  /\ Up

----------------------------------------------------------------------------
(* The worker task: from a batch to a registered turn.                     *)

Move(w, pc) == Now(w, [wk[w] EXCEPT !.pc = pc])
\* Back to recv; the session guard, if it was still held, is dropped.
Rest(w) == Now(w, [Idle EXCEPT !.mail = wk[w].mail])
Quit(w) == /\ Now(w, [Unborn EXCEPT !.pc = "gone"])
           /\ wmap' = NoWorker     \* worker_map.remove(&key), whosever it is

Closed(w) == wmap # w /\ \A h \in Handlers : hnd[h].to # w

TakeBatch(w) ==
  /\ wk[w].pc = "recv"
  /\ \/ /\ wk[w].mail > 0
        /\ Now(w, [wk[w] EXCEPT !.pc = "batch", !.mail = 0])
        /\ UNCHANGED wmap
     \/ wk[w].mail = 0 /\ Closed(w) /\ Quit(w)
  /\ UNCHANGED <<messages, hnd, active, sessions, turns, shared, others,
                 events>>
  /\ Up

\* wait_for_bg_handoff_gate, then the first shutdown check.
PassGate(w) ==
  /\ wk[w].pc = "batch" /\ ~gate
  /\ IF shut THEN Quit(w) ELSE Move(w, "upgrade") /\ UNCHANGED wmap
  /\ UNCHANGED <<messages, hnd, active, sessions, turns, shared, others,
                 events>>
  /\ Up

\* The upgrade lock is ours; the second shutdown check; the refusals
\* (sandbox, credentials, bootstrap interview) end the batch here.  Otherwise
\* cancel() cancels the token of a pending or running compaction, and
\* prepare_cc_invocation reads the active session, or makes one when the
\* chat has none, and takes the next turn id; a failing call ends the batch,
\* with the session made if the turn id could not be read.
StartTurn(w) ==
  /\ wk[w].pc = "upgrade"
  /\ \/ /\ shut /\ Quit(w)
        /\ UNCHANGED <<active, sessions, turns, compact, events>>
     \/ /\ ~shut /\ Fault /\ Rest(w)
        /\ \/ /\ compact' \in {compact, Cancelled(compact)}
              /\ UNCHANGED <<active, sessions>>
           \/ active = 0 /\ CreateSession /\ compact' = Cancelled(compact)
        /\ UNCHANGED <<wmap, turns>>
     \/ /\ ~shut /\ turns < MaxTurns
        /\ compact' = Cancelled(compact)
        /\ turns' = turns + 1
        /\ IF active = 0 THEN CreateSession ELSE UNCHANGED <<active, sessions>>
        /\ Now(w, [wk[w] EXCEPT !.pc = "enter", !.sess = active',
                                !.first = (active = 0), !.turn = turns'])
        /\ UNCHANGED <<wmap, events>>
  /\ UNCHANGED <<messages, hnd, shared, locks, deliv>>
  /\ Up

\* session_locks.entry(s).or_insert_with(..).clone()
FreeObject ==
  CHOOSE o \in Objects : (\A s \in Sess : locks[s] # o)
                         /\ (\A p \in Procs : ObjOf(p) # o)
Entry(s) == IF locks[s] = 0 THEN FreeObject ELSE locks[s]
TakeEntry(s) == locks' = [locks EXCEPT ![s] = Entry(s)]
Unlocked(o) == \A p \in Procs : Holds(p) => ObjOf(p) # o

\* The empty input (no invocation) cleans a session made for it up.
EnterLock(w) ==
  /\ wk[w].pc = "enter"
  /\ \/ /\ TakeEntry(wk[w].sess) /\ UNCHANGED events
        /\ Now(w, [wk[w] EXCEPT !.pc = "lock", !.obj = Entry(wk[w].sess)])
     \/ /\ Fault /\ UNCHANGED locks
        /\ IF wk[w].first THEN Move(w, "match") ELSE Rest(w)
  /\ UNCHANGED <<messages, wmap, hnd, active, sessions, turns, shared, compact,
                 deliv>>
  /\ Up

Lock(w) ==
  /\ wk[w].pc = "lock" /\ Unlocked(wk[w].obj)
  /\ Move(w, "guarded")
  /\ UNCHANGED <<messages, wmap, hnd, active, sessions, turns, shared, others,
                 events>>
  /\ Up

\* register_stop_token_for_foreground; before it, the sandbox or the notice
\* token may fail (first-call session cleaned up) or the command may not
\* build (returned with `?`, the first-call session left active).
Register(w) ==
  /\ wk[w].pc = "guarded"
  /\ \/ /\ Move(w, "registered") /\ UNCHANGED events
        /\ tok' = wk[w].turn
        /\ overlap' = (\/ overlap
                       \/ \E v \in Workers \ {w} : wk[v].pc \in TurnPcs)
     \/ /\ Fault /\ UNCHANGED <<tok, overlap>>
        /\ IF wk[w].first THEN Move(w, "match") \/ Rest(w) ELSE Rest(w)
  /\ UNCHANGED <<messages, wmap, hnd, active, sessions, turns, bg, gate,
                 others>>
  /\ Up

\* mutant: only the turn's own token is looked at
CheckStopTokenOnly(w) ==
  /\ wk[w].pc = "registered"
  /\ Move(w, IF wk[w].cancelled THEN "tearing" ELSE "spawning")
  /\ UNCHANGED <<messages, wmap, hnd, active, sessions, turns, shared, others,
                 events>>
  /\ Up

\* ctx.shutdown.is_cancelled() || stop_token.is_cancelled(): the request is
\* consumed here, before the token is removed.
CheckStop(w) ==
  /\ wk[w].pc = "registered"
  /\ IF shut \/ wk[w].cancelled
       THEN /\ Now(w, [wk[w] EXCEPT !.pc = "tearing",
                                    !.why = IF bg.turn = wk[w].turn
                                              THEN bg.reason ELSE "none"])
            /\ bg' = NoBg
       ELSE Move(w, "spawning") /\ UNCHANGED bg
  /\ UNCHANGED <<messages, wmap, hnd, active, sessions, turns, tok, gate,
                 overlap, others, events>>
  /\ Up

\* The token is removed; a resumable turn is handed off at shutdown, any
\* other one ends without a word, its first-call session cleaned up first.
TearDown(w) ==
  /\ wk[w].pc = "tearing"
  /\ tok' = 0
  /\ Now(w, [wk[w] EXCEPT
       !.why = "shutdown", !.next = "release",
       !.pc = IF ~wk[w].first /\ (shut \/ wk[w].why = "shutdown")
                THEN "handoff"
                ELSE IF wk[w].first THEN "match" ELSE "release"])
  /\ UNCHANGED <<messages, wmap, hnd, active, sessions, turns, bg, gate,
                 overlap, others, events>>
  /\ Up

Release(w) ==
  /\ wk[w].pc = "release"
  /\ gate' = FALSE
  /\ Rest(w)
  /\ UNCHANGED <<messages, wmap, hnd, active, sessions, turns, tok, bg,
                 overlap, others, events>>
  /\ Up

\* deactivate_session_if_active: the owner is asked for the active session
\* and, when it is this turn's, told to deactivate the current one.  The way
\* on is out of invoke_cc, unless the gate is still to be released.
Leave(w) ==
  CASE wk[w].next = "release" -> Move(w, "release")
    [] wk[w].next = "reflect" ->
         Now(w, [wk[w] EXCEPT !.pc = "reflect", !.obj = 0])
    [] OTHER -> Rest(w)

Match(w) ==
  /\ wk[w].pc = "match"
  /\ IF active = wk[w].sess THEN Move(w, "drop") ELSE Leave(w)
  /\ UNCHANGED <<messages, wmap, hnd, active, sessions, turns, shared, others,
                 events>>
  /\ Up

Drop(w) ==
  /\ wk[w].pc = "drop"
  /\ active' = 0
  /\ Leave(w)
  /\ UNCHANGED <<messages, wmap, hnd, sessions, turns, shared, others, events>>
  /\ Up

----------------------------------------------------------------------------
(* The worker task: the Claude process and how its end is classified.      *)

\* clear_foreground_handoff_controls
ClearControls == tok' = 0 /\ bg' = NoBg /\ gate' = FALSE

SpawnChild(w) ==
  /\ wk[w].pc = "spawning"
  /\ \/ Move(w, "running") /\ UNCHANGED <<tok, bg, gate, events>>
     \/ /\ Fault /\ ClearControls
        /\ IF wk[w].first THEN Move(w, "match") ELSE Rest(w)
  /\ UNCHANGED <<messages, wmap, hnd, active, sessions, turns, overlap,
                 others>>
  /\ Up

\* The select loop breaks: a cancelled token kills the child; so do the ten
\* minutes, twenty seconds without progress, and rejected output ("error").
ChildEnds(w) ==
  /\ wk[w].pc = "running"
  /\ \E e \in Ends :
       /\ e = "stopped" => wk[w].cancelled
       /\ e = "missing" => ~wk[w].first
       /\ IF e \in {"result", "stopped"} THEN UNCHANGED events ELSE Fault
       /\ Now(w, [wk[w] EXCEPT !.pc = "ended", !.end = e])
  /\ UNCHANGED <<messages, wmap, hnd, active, sessions, turns, shared, others>>
  /\ Up

\* consume_bg_request: the entry goes whatever turn it is for.
Consumed(w) == IF bg.turn = wk[w].turn THEN bg.reason ELSE "none"
\* mutant: a finished turn is handed off as well
HonoredAlways(w) == Consumed(w) # "none"

\* should_honor_bg_request
Honored(w) == \/ Consumed(w) = "shutdown"
              \/ Consumed(w) = "user" /\ wk[w].end # "result"

\* From stop_tokens.remove to the return of invoke_cc.
Finish(w) ==
  /\ wk[w].pc = "ended"
  /\ tok' = 0 /\ bg' = NoBg
  /\ LET e == wk[w].end
         handed == e # "undelivered" /\ e # "silent"
                   /\ (Honored(w) \/ e = "timeout")
         why == IF Honored(w) THEN Consumed(w) ELSE "timeout"
         to(pc, next) == Now(w, [wk[w] EXCEPT !.pc = pc, !.next = next])
         leave(pc) == Now(w, [wk[w] EXCEPT !.pc = pc, !.obj = 0])
     IN /\ gate' = IF e \in {"undelivered", "silent"}
                      \/ (Consumed(w) = "user" /\ e = "result")
                     THEN FALSE ELSE gate
        /\ CASE handed -> Now(w, [wk[w] EXCEPT !.pc = "handoff", !.why = why])
             [] e = "undelivered" ->
                  IF wk[w].first THEN to("match", "recv") ELSE Rest(w)
             [] e \in {"silent", "auth"} -> to("match", "recv")
             [] e = "stopped" /\ ~handed -> Rest(w)
             [] e = "limited" ->
                  IF wk[w].first THEN to("match", "recv") ELSE Rest(w)
             [] e = "missing" -> to("match", "reflect")
             [] e = "error" -> IF wk[w].first THEN to("match", "reflect")
                                              ELSE leave("reflect")
             [] e = "result" -> leave("reply")
             [] OTHER -> FALSE
  /\ UNCHANGED <<messages, wmap, hnd, active, sessions, turns, overlap, others,
                 events>>
  /\ Up

\* The reply is sent, or a null reply repaired by one more resume first;
\* on_turn_end then arms or cancels the compaction timer.
Reply(w) ==
  /\ wk[w].pc \in {"reply", "repair"}
  /\ \/ wk[w].pc = "reply" /\ Move(w, "repair") /\ UNCHANGED compact
     \/ /\ Rest(w)
        /\ \/ compact' = Cancelled(compact)
           \/ /\ compact.pc = "off"
              /\ compact' = [compact EXCEPT !.pc = "armed"]
  /\ UNCHANGED <<messages, wmap, hnd, active, sessions, turns, shared, locks,
                 deliv, events>>
  /\ Up

\* reflect_on_failure; the turn is over when it returns.
Reflected(w) ==
  /\ wk[w].pc = "reflect"
  /\ Rest(w)
  /\ UNCHANGED <<messages, wmap, hnd, active, sessions, turns, shared, others,
                 events>>
  /\ Up

\* mutant: an early return of the handoff leaves the gate up
HandoffKeepsGate(w) ==
  /\ wk[w].pc = "handoff"
  /\ \/ Move(w, "fork") /\ UNCHANGED events
     \/ Fault /\ Rest(w)
  /\ UNCHANGED <<messages, wmap, hnd, active, sessions, turns, shared, others>>
  /\ Up

\* The Backgrounded arm: notice token and queued row, with the gate released
\* on every way out (BgHandoffGateRelease).
Handoff(w) ==
  /\ wk[w].pc = "handoff"
  /\ \/ Move(w, "fork") /\ UNCHANGED <<gate, events>>
     \/ Fault /\ gate' = FALSE /\ Rest(w)
  /\ UNCHANGED <<messages, wmap, hnd, active, sessions, turns, tok, bg,
                 overlap, others>>
  /\ Up

\* spawn_background_continuation: system/init seen, or any of its failures.
ForkConfirmed(w) ==
  /\ wk[w].pc = "fork"
  /\ gate' = FALSE
  /\ Rest(w)
  /\ UNCHANGED <<messages, wmap, hnd, active, sessions, turns, tok, bg,
                 overlap, others, events>>
  /\ Up

----------------------------------------------------------------------------
(* Compaction, delivery, the sweep of the locks.                           *)

CompactionFires ==
  /\ compact.pc = "armed"
  /\ compact' = IF compact.cancelled \/ active = 0
                  THEN NoCompaction
                  ELSE [compact EXCEPT !.pc = "fired", !.sess = active]
  /\ UNCHANGED <<messages, wmap, wk, hnd, active, sessions, turns, shared,
                 locks, deliv, events>>
  /\ Up

\* try_lock_owned: a busy session is skipped.
CompactionLocks ==
  /\ compact.pc = "fired"
  /\ TakeEntry(compact.sess)
  /\ LET o == Entry(compact.sess) IN
     compact' = IF Unlocked(o) THEN [compact EXCEPT !.pc = "run", !.obj = o]
                               ELSE NoCompaction
  /\ UNCHANGED <<messages, wmap, wk, hnd, active, sessions, turns, shared,
                 deliv, events>>
  /\ Up

\* /compact returned, timed out or was aborted by the token.
CompactionEnds ==
  /\ compact.pc = "run"
  /\ compact' = NoCompaction
  /\ UNCHANGED <<messages, wmap, wk, hnd, active, sessions, turns, shared,
                 locks, deliv, events>>
  /\ Up

\* active_delivery_session_id; without a session there is nothing to lock.
DeliveryPicks ==
  /\ deliv.pc = "off" /\ active # 0 /\ Event
  /\ deliv' = [pc |-> "enter", sess |-> active, obj |-> 0]
  /\ UNCHANGED <<messages, wmap, wk, hnd, active, sessions, turns, shared,
                 locks, compact>>
  /\ Up

DeliveryEnters ==
  /\ deliv.pc = "enter"
  /\ TakeEntry(deliv.sess)
  /\ deliv' = [deliv EXCEPT !.pc = "lock", !.obj = Entry(deliv.sess)]
  /\ UNCHANGED <<messages, wmap, wk, hnd, active, sessions, turns, shared,
                 compact, events>>
  /\ Up

DeliveryLocks ==
  /\ deliv.pc = "lock" /\ Unlocked(deliv.obj)
  /\ deliv' = [deliv EXCEPT !.pc = "run"]
  /\ UNCHANGED <<messages, wmap, wk, hnd, active, sessions, turns, shared,
                 locks, compact, events>>
  /\ Up

\* Delivered, failed, past its deadline; at shutdown the waits end too.
DeliveryEnds ==
  /\ deliv.pc = "run" \/ (deliv.pc \in {"enter", "lock"} /\ driver # "up")
  /\ deliv' = OffTask
  /\ UNCHANGED <<messages, wmap, wk, hnd, active, sessions, turns, shared,
                 locks, compact, events>>
  /\ Up

\* mutant: the sweep does not ask whether an entry is in use
SweepAll ==
  /\ locks' = [s \in Sess |-> 0] /\ locks' # locks
  /\ UNCHANGED <<messages, wmap, wk, hnd, active, sessions, turns, shared,
                 compact, deliv, events>>
  /\ Up

\* The hourly sweep keeps the entries someone else has a clone of.
Sweep ==
  /\ locks' = [s \in Sess |->
                 IF \E p \in Procs : ObjOf(p) # 0 /\ ObjOf(p) = locks[s]
                   THEN locks[s] ELSE 0]
  /\ locks' # locks
  /\ UNCHANGED <<messages, wmap, wk, hnd, active, sessions, turns, shared,
                 compact, deliv, events>>
  /\ Up

----------------------------------------------------------------------------
(* Shutdown.                                                               *)

Signal ==
  /\ driver = "up"
  /\ driver' = "signal"
  /\ UNCHANGED <<messages, wmap, wk, hnd, active, sessions, turns, shared,
                 others, life, shut, events>>

\* The signal task cancels worker_shutdown ...
CancelWorkers ==
  /\ driver = "signal" /\ ~Exited
  /\ driver' = "cancelling" /\ shut' = TRUE
  /\ UNCHANGED <<messages, wmap, wk, hnd, active, sessions, turns, shared,
                 others, life, events>>

\* ... and then request_shutdown_backgrounding goes over stop_tokens.
RequestHandoffs ==
  /\ driver = "cancelling" /\ ~Exited
  /\ driver' = "done"
  /\ IF tok = 0 THEN UNCHANGED <<gate, bg, wk>>
                ELSE /\ gate' = TRUE
                     /\ bg' = [turn |-> tok, reason |-> "shutdown"]
                     /\ wk' = Cancel(tok)
  /\ UNCHANGED <<messages, wmap, hnd, active, sessions, turns, tok, overlap,
                 others, life, shut, events>>

\* The lifecycle future, woken by the same signal, waits until no gate is up
\* or for thirty seconds.
Drained ==
  /\ life = "up" /\ driver # "up" /\ ~gate
  /\ life' = "ending" /\ shut' = TRUE
  /\ UNCHANGED <<messages, wmap, wk, hnd, active, sessions, turns, shared,
                 others, driver, events>>

DrainTimeout ==
  /\ life = "up" /\ driver # "up" /\ gate
  /\ life' = "ending" /\ shut' = TRUE
  /\ UNCHANGED <<messages, wmap, wk, hnd, active, sessions, turns, shared,
                 others, driver, events>>

\* The tear-down of lib.rs and the exit follow: all but the sessions is lost.
Exit ==
  /\ life = "ending" /\ life' = "exited"
  /\ wmap' = NoWorker /\ wk' = [w \in Workers |-> Unborn]
  /\ hnd' = [h \in Handlers |-> [pc |-> "idle", to |-> NoWorker]]
  /\ ClearControls /\ locks' = [s \in Sess |-> 0]
  /\ compact' = NoCompaction /\ deliv' = OffTask
  /\ UNCHANGED <<messages, active, sessions, turns, overlap, driver, shut, events>>

----------------------------------------------------------------------------
WorkerStep(w) ==
  \/ TakeBatch(w) \/ PassGate(w) \/ StartTurn(w)
  \/ EnterLock(w) \/ Lock(w) \/ Register(w) \/ CheckStop(w) \/ TearDown(w)
  \/ Release(w) \/ Match(w) \/ Drop(w) \/ SpawnChild(w)
  \/ ChildEnds(w) \/ Finish(w) \/ Reply(w) \/ Reflected(w) \/ Handoff(w)
  \/ ForkConfirmed(w)

HandlerStep(h) == SpawnWorker(h) \/ Send(h)

SessionStep == \/ CompactionLocks \/ CompactionEnds
               \/ DeliveryEnters \/ DeliveryLocks \/ DeliveryEnds

Next ==
  \/ Receive \/ \E h \in Handlers : HandlerStep(h)
  \/ NewCommand \/ SwitchCommand \/ StopClick \/ BgClick
  \/ \E w \in Workers : WorkerStep(w)
  \/ CompactionFires \/ DeliveryPicks \/ SessionStep \/ Sweep
  \/ Signal \/ CancelWorkers \/ RequestHandoffs
  \/ Drained \/ DrainTimeout \/ Exit

Spec == Init /\ [][Next]_vars

\* A worker task is scheduled as long as it can move, and every Claude process
\* it waits for ends (its deadlines kill it).  Nobody has to send or click, and
\* nothing is assumed of delivery, compaction, the sweep or the shutdown.
Fairness == \A w \in Workers : WF_vars(WorkerStep(w))

FairSpec == Spec /\ Fairness

----------------------------------------------------------------------------
WorkerType ==
  [pc : {"none", "recv", "batch", "upgrade", "enter", "lock",
         "reply", "repair", "reflect", "gone"} \cup GuardPcs,
   mail : Nat, sess : 0 .. MaxTurns, first : BOOLEAN,
   turn : 0 .. MaxTurns, obj : {0} \cup Objects,
   cancelled : BOOLEAN, end : Ends \cup {"none"},
   why : {"none", "user", "shutdown", "timeout"},
   next : {"recv", "release", "reflect"}]

\* Every variable has its type, and the active session is one that was made.
TypeOK ==
  /\ wmap \in Workers \cup {NoWorker}
  /\ wk \in [Workers -> WorkerType]
  /\ hnd \in [Handlers -> [pc : {"idle", "spawn", "send"},
                           to : Workers \cup {NoWorker}]]
  /\ turns \in 0 .. MaxTurns /\ sessions \in 0 .. MaxTurns
  /\ active \in 0 .. sessions /\ tok \in 0 .. turns
  /\ bg \in [turn : 0 .. turns, reason : {"none", "user", "shutdown"}]
  /\ gate \in BOOLEAN /\ shut \in BOOLEAN /\ overlap \in BOOLEAN
  /\ locks \in [Sess -> {0} \cup Objects]
  /\ compact \in [pc : {"off", "armed", "fired", "run"},
                  sess : 0 .. MaxTurns, obj : {0} \cup Objects,
                  cancelled : BOOLEAN]
  /\ deliv \in [pc : {"off", "enter", "lock", "run"},
                sess : 0 .. MaxTurns, obj : {0} \cup Objects]
  /\ driver \in {"up", "signal", "cancelling", "done"}
  /\ life \in {"up", "ending", "exited"}
  /\ messages \in 0 .. MaxMessages /\ events \in 0 .. MaxEvents

\* Two Claude processes that resume one session are never alive together,
\* although the hourly sweep takes lock objects out of the map while tasks wait
\* for them: turn, background fork, delivery and compaction hold the session
\* lock.  The reflection and the null-reply repair do not, and are excepted.
LockedExclusive ==
  \A p, q \in Procs :
    /\ p # q /\ SessOf(p) = SessOf(q)
    /\ Resumes(p) \/ Notices(p)
    /\ Resumes(q) \/ Notices(q)
    => Notices(p) \/ Notices(q)

\* Once the shutdown task went over the stop tokens, every turn it found or
\* that registered later has been cancelled or will not spawn its process.
ShutdownReachesTurn ==
  driver = "done" /\ ~overlap =>
    \A w \in Workers :
      wk[w].pc \in {"spawning", "running"} => wk[w].cancelled

\* A turn that has its result is handed to the background only by a
\* shutdown: a late Background click does not cost the user the reply.
ReplySurvivesClick ==
  \A w \in Workers :
    wk[w].pc \in {"handoff", "fork"} /\ wk[w].end = "result" => driver = "done"

\* The gate the Background click raised stays up until the fork is confirmed
\* or given up: the chat's next batch cannot start before.
GateCoversHandoff ==
  ~overlap => \A w \in Workers :
    wk[w].pc \in {"handoff", "fork"} /\ wk[w].why = "user" => gate

\* A raised gate comes down again, so the chat's next messages are served;
\* turns that were in flight together are the exception (see the README).
GateReleases == gate ~> (~gate \/ overlap)
=============================================================================
