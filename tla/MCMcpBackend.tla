---------------------------- MODULE MCMcpBackend -----------------------------
(* The instances of McpBackend that TLC checks. *)
EXTENDS McpBackend
=============================================================================
