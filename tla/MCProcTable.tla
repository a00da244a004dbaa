---------------------------- MODULE MCProcTable ----------------------------
(* ProcTable on two CPUs (model values). *)
EXTENDS ProcTable, TLC

CONSTANTS c1, c2

MCCPUs == {c1, c2}
=============================================================================
