----------------------------- MODULE MCMcpTokens -----------------------------
(* The instances of McpTokens that TLC checks. *)
EXTENDS McpTokens, TLC

CONSTANTS q1, q2

ReqSymmetry == Permutations(Reqs)
=============================================================================
