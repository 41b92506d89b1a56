----------------------------- MODULE PendingRows -----------------------------
(***************************************************************************)
(* What the queue of pending retains promises, without leases, drainers,   *)
(* crashes or circuits: a row stays until Hindsight took it (stored it or  *)
(* refused its content), until it is late, or until newer rows push it out *)
(* of a full queue, the oldest first.  A row that was taken may be posted  *)
(* again before it leaves.  RetainQueue implements this specification at   *)
(* the owner and its drainers, MemoryClient behind the circuit breaker.    *)
(***************************************************************************)
EXTENDS Naturals, FiniteSets

CONSTANT Cap   \* QUEUE_CAP

VARIABLES pending,  \* rows in the queue, numbered in insertion order
          last,     \* the last row that was inserted
          taken,    \* pending rows that Hindsight stored or refused
          late      \* pending rows past the age cap

vars == <<pending, last, taken, late>>

Init ==
    /\ last \in Nat /\ pending = 1..last
    /\ taken = {} /\ late = {}

\* The rows that stay behind when those of S leave.
Without(S) ==
    /\ pending' = pending \ S /\ UNCHANGED last
    /\ taken' = taken \ S /\ late' = late \ S

\* Only a full queue pushes rows out, and then the oldest ones.
Insert(S) ==
    /\ last' = last + 1
    /\ S # {} => Cardinality(pending) >= Cap
    /\ \A i \in S, j \in pending \ S : i < j
    /\ pending' = (pending \ S) \cup {last + 1}
    /\ taken' = taken \ S /\ late' = late \ S
    /\ Cardinality(pending') <= Cap

Take(i) ==
    /\ taken' = taken \cup {i}
    /\ UNCHANGED <<pending, last, late>>

Settle(i) == i \in taken /\ Without({i})

Expire(S) == S \subseteq late /\ Without(S)

Age(S) ==
    /\ late' = late \cup S
    /\ UNCHANGED <<pending, last, taken>>

Next ==
    \/ \E S \in SUBSET pending : Insert(S) \/ Expire(S) \/ Age(S)
    \/ \E i \in pending : Take(i) \/ Settle(i)

Spec == Init /\ [][Next]_vars
=============================================================================
