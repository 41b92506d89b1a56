------------------------------ MODULE MCAgentOwner ------------------------------
(* Small instances of AgentOwner.  Agents are strings, so that the "none" of the *)
(* model stays outside them.                                                     *)
EXTENDS AgentOwner

MCAgents == {"a", "b"}
===============================================================================
