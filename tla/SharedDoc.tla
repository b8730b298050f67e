----------------------------- MODULE SharedDoc ------------------------------
(***************************************************************************)
(* What the collaboration code promises to the people who edit a room's    *)
(* document together: CollabSync without sockets, handshakes and packets.  *)
(* A replica gains what its owner writes and what exists elsewhere, and    *)
(* loses nothing while its page is open.  The room loses nothing while     *)
(* anybody is in it.  Nothing is made up on the way, and no insertion is   *)
(* ever made twice: Yjs takes two with one id for the same.                *)
(***************************************************************************)
EXTENDS YDoc

VARIABLES
  here,      \* the clients whose page is open
  replica,   \* replica[c]: the document that client c shows
  room,      \* the room's document on the server
  present,   \* the room has participants
  transit    \* the facts under way from one document to another

vars == <<here, replica, room, present, transit>>

Documents == room \cup UNION {replica[c] : c \in Client}

Init ==
  /\ here = Client
  /\ replica = [c \in Client |-> {}]
  /\ room = {}
  /\ present = FALSE
  /\ transit = {}

\* What c can write: text of its own, or the deletion of text it has.
Writable(c) ==
  {f \in Fact : IF f.kind = "ins" THEN f.author = c /\ f \notin transit \cup Documents
                                  ELSE Ins(f.author, f.clock) \in replica[c]}

\* Replica c gains what is in S.
Gains(c, S) ==
  /\ UNCHANGED <<here, room, present>>
  /\ c \in here
  /\ \E u \in SUBSET S : replica' = [replica EXCEPT ![c] = @ \cup u]

Write(c) == Gains(c, Writable(c))

Learn(c) == Gains(c, transit)

RoomLearns ==
  /\ UNCHANGED <<here, replica, present>>
  /\ present
  /\ \E u \in SUBSET transit : room' = room \cup u

Leave(c) ==
  /\ here' = here \ {c}
  /\ replica' = [replica EXCEPT ![c] = {}]
  /\ UNCHANGED <<room, present>>

RoomOpens == present' = TRUE /\ UNCHANGED <<here, replica, room>>

\* The last participant has left, or the server has stopped.
RoomCloses ==
  /\ present' = FALSE
  /\ room' = {}
  /\ UNCHANGED <<here, replica>>

\* What is in a document can be sent at any time, and lost on its way.
Network == \A f \in transit' \ Documents' : f \in transit

Next ==
  /\ Network
  /\ \/ UNCHANGED <<here, replica, room, present>>
     \/ RoomLearns \/ RoomOpens \/ RoomCloses
     \/ \E c \in Client : Learn(c) \/ Leave(c) \/ Write(c)

Spec == Init /\ [][Next]_vars

\* What a page shows or the room has stays, as long as the page is open or
\* somebody is in the room.
Keeps ==
  /\ \A c \in here' : replica[c] \subseteq replica'[c]
  /\ present' => room \subseteq room'

LosesNothing == [][Keeps]_vars

\* What an author has typed is on the author's page while that is open,
\* wherever else it has got to.
KeepsOwn ==
  \A c \in here : \A f \in transit \cup Documents :
    f.kind = "ins" /\ f.author = c => f \in replica[c]
=============================================================================
