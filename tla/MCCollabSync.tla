---------------------------- MODULE MCCollabSync ----------------------------
(* CollabSync for TLC: two clients, one of which may reconnect.             *)
EXTENDS CollabSync

CONSTANTS a, b

OneReconnects == [c \in Client |-> IF c = a THEN 2 ELSE 1]
=============================================================================
