----------------------------- MODULE MCPrdLock -----------------------------
(* The recursive lock with the period thread and two callers, nested twice. *)
EXTENDS PrdLock
=============================================================================
