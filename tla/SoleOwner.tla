------------------------------- MODULE SoleOwner -------------------------------
(***************************************************************************)
(* What the owners of the agents' databases promise, without registries,   *)
(* queues or reloads: the tenures of an agent follow one another, an       *)
(* operation is admitted by an open tenure only, and a tenure that was     *)
(* shut never opens again, although an operation it admitted may still be  *)
(* at work.  AgentOwner implements this specification.                     *)
(***************************************************************************)
EXTENDS Naturals

CONSTANTS Agents, Clients

VARIABLES open,    \* the open tenure of an agent, 0 when there is none
          inside,  \* the tenure that admitted the operation of a client, or 0
          last     \* the last tenure that was opened

vars == <<open, inside, last>>

\* The process starts: every registered agent gets a tenure of its own, and no
\* operation of an earlier process is left.
Restart ==
    /\ inside' = [c \in Clients |-> 0]
    /\ last' \in Nat /\ last' >= last
    /\ open' \in [Agents -> {0} \cup (last + 1)..last']
    /\ \A a, b \in Agents : open'[a] = open'[b] /\ open'[a] # 0 => a = b

Init ==
    /\ inside = [c \in Clients |-> 0]
    /\ last \in Nat
    /\ open \in [Agents -> 0..last]
    /\ \A a, b \in Agents : open[a] = open[b] /\ open[a] # 0 => a = b

Open(a) ==
    /\ open[a] = 0
    /\ last' = last + 1 /\ open' = [open EXCEPT ![a] = last + 1]
    /\ UNCHANGED inside

Shut(a) ==
    /\ open[a] # 0
    /\ open' = [open EXCEPT ![a] = 0]
    /\ UNCHANGED <<inside, last>>

Admit(c, a) ==
    /\ inside[c] = 0 /\ open[a] # 0
    /\ inside' = [inside EXCEPT ![c] = open[a]]
    /\ UNCHANGED <<open, last>>

Leave(c) ==
    /\ inside[c] # 0
    /\ inside' = [inside EXCEPT ![c] = 0]
    /\ UNCHANGED <<open, last>>

Next ==
    \/ Restart
    \/ \E a \in Agents : Open(a) \/ Shut(a) \/ \E c \in Clients : Admit(c, a)
    \/ \E c \in Clients : Leave(c)

Spec == Init /\ [][Next]_vars
===============================================================================
