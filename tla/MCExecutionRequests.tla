------------------------- MODULE MCExecutionRequests -------------------------
(***************************************************************************)
(* ExecutionRequests for TLC: two clients, the first of which may          *)
(* reconnect and run code twice.  The further status "timeout" would not   *)
(* be told from "completed" here.                                          *)
(***************************************************************************)
EXTENDS ExecutionRequests

CONSTANTS a, b

TwoForA == [c \in Client |-> IF c = a THEN 2 ELSE 1]
=============================================================================
