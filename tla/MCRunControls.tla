---------------------------- MODULE MCRunControls ----------------------------
(* RunControls for TLC: one client, which may run code twice.               *)
EXTENDS RunControls

Twice == [c \in Client |-> 2]
Once == [c \in Client |-> 1]
=============================================================================
