-------------------------------- MODULE YDoc --------------------------------
(***************************************************************************)
(* The Yjs operations the collaboration code calls, on documents reduced   *)
(* to what synchronisation can tell apart.  Yjs is a library outside this  *)
(* repository; the operators are its observable behaviour at the call      *)
(* sites in packages/collaboration and apps/sync-server.                   *)
(*                                                                         *)
(* A document is the set of facts it has received: the insertion of struct *)
(* number "clock" of an author, or the deletion of that struct.  Authors   *)
(* number their structs 1, 2, ... and an insertion takes effect only when  *)
(* all earlier insertions of its author are present; until then Yjs keeps  *)
(* it in pendingStructs.  Dependencies of an insertion on structs of other *)
(* authors are abstracted away.                                            *)
(***************************************************************************)
EXTENDS Naturals

CONSTANTS
  Client,     \* the authors: one per mounted editor (Yjs clientID)
  MaxClock    \* bound on the number of insertions of one author

ASSUME MaxClockAssumption == MaxClock \in Nat

Fact == [kind : {"ins", "del"}, author : Client, clock : 1 .. MaxClock]

Ins(a, k) == [kind |-> "ins", author |-> a, clock |-> k]
Del(a, k) == [kind |-> "del", author |-> a, clock |-> k]

\* Y.encodeStateVector: per author the highest clock below which nothing is
\* missing, represented by the set of insertions it stands for.
StateVector(d) ==
  {f \in d : f.kind = "ins" /\ \A k \in 1 .. f.clock : Ins(f.author, k) \in d}

\* Y.encodeStateAsUpdate(doc, sv): the structs beyond the state vector, the
\* pending ones included, and the whole delete set.
EncodeStateAsUpdate(d, sv) == d \ sv

\* Y.applyUpdate: what cannot be integrated yet is kept.
ApplyUpdate(d, u) == d \cup u

\* The facts that are in effect: integrated insertions and their deletions.
Integrated(d) ==
  StateVector(d) \cup
  {f \in d : f.kind = "del" /\ Ins(f.author, f.clock) \in StateVector(d)}

\* Payload of the "update" event of a transaction: what the transaction put
\* into effect.  The event is not fired when this is empty.
UpdateEvent(old, new) == Integrated(new) \ Integrated(old)

\* The visible text.
Text(d) == {f \in StateVector(d) : Del(f.author, f.clock) \notin d}
=============================================================================
