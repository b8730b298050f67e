----------------------------- MODULE MCPresence -----------------------------
(* Presence for TLC: both clients move; b, who moves twice or answers its   *)
(* removal by a, also reconnects.                                           *)
EXTENDS Presence, TLC

CONSTANTS a, b

OneReconnects == (a :> 1) @@ (b :> 2)
OneMovesTwice == (a :> 2) @@ (b :> 3)
=============================================================================
