-------------------------- MODULE MCExecutionEngine --------------------------
(* ExecutionEngine for TLC: jobs are model values.                          *)
EXTENDS ExecutionEngine

CONSTANTS j1, j2
=============================================================================
