---------------------------- MODULE MCPeriodTask ----------------------------
(* Two tasks; timeouts of zero, below and above the longest sleep. *)
EXTENDS PeriodTask
=============================================================================
