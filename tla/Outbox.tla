-------------------------------- MODULE Outbox --------------------------------
(***************************************************************************)
(* What the run ledger and its delivery promise, without tasks, polls,     *)
(* requests, memory or restarts: a result waits until it is settled once,  *)
(* its body is posted at most once and only while it waits, and it is      *)
(* settled as delivered after that.  Two kinds of runs are excepted, as    *)
(* the faults that cannot be seen make them: those that may be posted      *)
(* again, and those with an outcome the ledger did not confirm.            *)
(* AsyncRuns implements this specification.                                *)
(***************************************************************************)
EXTENDS Naturals

CONSTANT Runs

VARIABLES out,     \* run -> where its result stands
          posts,   \* run -> how often its body was posted (once it is in again: 1)
          again,   \* runs that may be posted again
          missed   \* runs with an outcome that the ledger did not confirm

vars == <<out, posts, again, missed>>

Init ==
    /\ out = [r \in Runs |-> "none"] /\ posts = [r \in Runs |-> 0]
    /\ again = {} /\ missed = {}

(* Results are recorded; only the record of a second result of a run opens  *)
(* what was settled, or what waits, and that run may be posted again.       *)
Record(S) ==
    /\ out' = [r \in Runs |-> IF r \in S THEN "pending" ELSE out[r]]
    /\ again \cup {r \in S : out[r] # "none"} \subseteq again' /\ again' \subseteq again \cup S
    /\ missed \ S \subseteq missed' /\ missed' \subseteq missed \cup S
    /\ UNCHANGED posts

Post(r) ==
    /\ out[r] = "pending" /\ (posts[r] = 0 \/ r \in again)
    /\ posts' = [posts EXCEPT ![r] = 1]
    /\ again' \in {again, again \cup {r}}
    /\ UNCHANGED <<out, missed>>

Settle(r, s) ==
    /\ out[r] = "pending" /\ out' = [out EXCEPT ![r] = s]
    /\ s = "delivered" => posts[r] > 0 \/ r \in missed
    /\ missed' \in {missed, missed \cup {r}}
    /\ UNCHANGED <<posts, again>>

(* Results give way to another one, which goes on waiting.                  *)
Supersede(S, k) ==
    /\ \A r \in S \cup {k} : out[r] = "pending"
    /\ out' = [r \in Runs |-> IF r \in S THEN "superseded" ELSE out[r]]
    /\ UNCHANGED <<posts, again, missed>>

(* What is known of an attempt, or of a mark that was not confirmed, is     *)
(* lost, or Telegram took a request that it reported as failed.             *)
Forget(S) ==
    /\ \A r \in S : out[r] = "pending" \/ posts[r] > 0 \/ r \in missed
    /\ again' = again \cup S
    /\ UNCHANGED <<out, posts, missed>>

Miss(r) == missed' = missed \cup {r} /\ UNCHANGED <<out, posts, again>>

Next ==
    \/ \E r \in Runs :
          Post(r) \/ Miss(r) \/ \E s \in {"delivered", "denied", "failed"} : Settle(r, s)
    \/ \E S \in SUBSET Runs :
          Record(S) \/ Forget(S) \/ \E k \in Runs \ S : Supersede(S, k)

Spec == Init /\ [][Next]_vars
=============================================================================
