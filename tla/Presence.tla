------------------------------ MODULE Presence ------------------------------
(***************************************************************************)
(* Who is seen in the room: the awareness states of the clients, the       *)
(* throttle of the TesseraSocketProvider through which they are sent, and  *)
(* the relay in sync-server.  Awareness itself (y-protocols) is external.  *)
(*                                                                         *)
(* Connections are those of CollabSync: a socket <<client, n>> for every   *)
(* "connect", whose two ends notice its loss independently; each "connect" *)
(* adds a provider.  The state that a client has at a clock is known by    *)
(* the clock.  A client that unmounts is one that does not connect again:  *)
(* cleanup lets nobody know, since the document, and with it the local     *)
(* state, is destroyed when the socket is disconnected already.            *)
(*                                                                         *)
(* room.awareness is not here: the server applies updates to it, but sends *)
(* nothing of it and nothing listens to it.                                *)
(*                                                                         *)
(* An operator X_Y is X with the bug Y; nothing uses it.                   *)
(***************************************************************************)
EXTENDS Naturals, Sequences

CONSTANTS
  Client,
  MaxConn,   \* MaxConn[c]: bound on the connections of client c
  MaxClock   \* MaxClock[c]: bound on c's awareness clock

ASSUME MaxConnAssumption == MaxConn \in [Client -> Nat]
ASSUME MaxClockAssumption == MaxClock \in [Client -> Nat \ {0}]

VARIABLES
  clock,    \* clock[c][p]: meta of p in c's Awareness, 0 when there is none
  shown,    \* shown[c]: the clients whose states c's Awareness has
  pending,  \* pending[c][n]: pendingAwarenessClients of c's n-th provider;
            \* the timer is set when there are any
  conns,    \* conns[c]: number of "connect" events of c's socket so far
  up,       \* up[c]: socket.connected, as the client sees it
  buffer,   \* buffer[c]: packets emitted while disconnected
  open,     \* sockets whose "disconnect" the server has not handled
  joined,   \* sockets with currentRoomId set
  c2s,      \* c2s[s]: packets on their way to the server
  s2c       \* s2c[s]: packets on their way to the client

awarenessVars == <<clock, shown, pending>>
serverVars == <<open, joined>>
vars == <<awarenessVars, conns, up, buffer, serverVars, c2s, s2c>>

Socket == UNION {{c} \X (1 .. MaxConn[c]) : c \in Client}

\* What an awareness update says of one client; its state is null or not.
Entry == UNION {[who : {p}, clock : 1 .. MaxClock[p], live : BOOLEAN] : p \in Client}

Message == [type : {"join-room", "awareness-update"}, data : SUBSET Entry]

TypeOK ==
  /\ clock \in [Client -> [Client -> Nat]]
  /\ \A c, p \in Client : clock[c][p] <= MaxClock[p]
  /\ shown \in [Client -> SUBSET Client]
  /\ DOMAIN pending = Client
  /\ \A c \in Client : pending[c] \in [1 .. MaxConn[c] -> SUBSET Client]
  /\ conns \in [Client -> Nat]
  /\ \A c \in Client : conns[c] <= MaxConn[c]
  /\ up \in [Client -> BOOLEAN]
  /\ buffer \in [Client -> Seq(Message)]
  /\ open \in SUBSET Socket
  /\ joined \in SUBSET open
  /\ c2s \in [Socket -> Seq(Message)]
  /\ s2c \in [Socket -> Seq(Message)]

-----------------------------------------------------------------------------
(* Messages, sockets and the Awareness of a client.                        *)

Msg(t, d) == [type |-> t, data |-> d]

\* The socket a client is using, once it has connected.
Cur(c) == <<c, conns[c]>>

\* The client end of s is connected, so what the server emits can arrive.
Live(s) == up[s[1]] /\ conns[s[1]] = s[2]

Emit(c, m) ==
  IF up[c]
  THEN /\ c2s' = IF Cur(c) \in open THEN [c2s EXCEPT ![Cur(c)] = Append(@, m)] ELSE c2s
       /\ UNCHANGED buffer
  ELSE /\ buffer' = [buffer EXCEPT ![c] = Append(@, m)]
       /\ UNCHANGED c2s

\* encodeAwarenessUpdate: what c's Awareness has of the clients in P, now.
EncodeAwarenessUpdate(c, P) ==
  {[who |-> p, clock |-> clock[c][p], live |-> p \in shown[c]] : p \in P}

\* The entries of an update that applyAwarenessUpdate does not ignore.
News(c, u) ==
  {e \in u : \/ clock[c][e.who] < e.clock
             \/ clock[c][e.who] = e.clock /\ ~e.live /\ e.who \in shown[c]}

HandleAwarenessLocalUpdate_WhenIdle(c, P) ==
  pending' = [pending EXCEPT ![c] = [n \in DOMAIN @ |->
                IF n <= conns[c] /\ @[n] = {} THEN P ELSE @[n]]]

\* handleAwarenessLocalUpdate of every provider of c, after an "update" event
\* about the clients in P.
HandleAwarenessLocalUpdate(c, P) ==
  pending' = [pending EXCEPT ![c] = [n \in DOMAIN @ |->
                IF n <= conns[c] THEN @[n] \cup P ELSE @[n]]]

-----------------------------------------------------------------------------
\* createAwareness and setLocalParticipant make the first two states of a
\* client, with the clocks 0 and 1.
CreateAwareness ==
  /\ clock = [c \in Client |-> [p \in Client |-> IF p = c THEN 1 ELSE 0]]
  /\ shown = [c \in Client |-> {c}]

\* There is no provider then.
Init ==
  /\ CreateAwareness
  /\ pending = [c \in Client |-> [n \in 1 .. MaxConn[c] |-> {}]]
  /\ conns = [c \in Client |-> 0]
  /\ up = [c \in Client |-> FALSE]
  /\ buffer = [c \in Client |-> <<>>]
  /\ open = {}
  /\ joined = {}
  /\ c2s = [s \in Socket |-> <<>>]
  /\ s2c = [s \in Socket |-> <<>>]

-----------------------------------------------------------------------------
(* The client: connection life cycle (useCollaboration).                   *)

HandleConnect_NewAwareness(c) ==
  LET s == <<c, conns[c] + 1>> IN
  /\ ~up[c] /\ conns[c] < MaxConn[c]
  /\ conns' = [conns EXCEPT ![c] = @ + 1]
  /\ up' = [up EXCEPT ![c] = TRUE]
  /\ buffer' = [buffer EXCEPT ![c] = <<>>]
  /\ open' = open \cup {s}
  /\ c2s' = [c2s EXCEPT ![s] = buffer[c] \o <<Msg("join-room", {})>>]
  /\ clock' = [clock EXCEPT ![c] = [p \in Client |-> IF p = c THEN 1 ELSE 0]]
  /\ shown' = [shown EXCEPT ![c] = {c}]
  /\ UNCHANGED <<pending, joined, s2c>>

\* "connect": the buffer is flushed, then join-room.  A new provider says
\* nothing of the awareness.
HandleConnect(c) ==
  LET s == <<c, conns[c] + 1>> IN
  /\ ~up[c] /\ conns[c] < MaxConn[c]
  /\ conns' = [conns EXCEPT ![c] = @ + 1]
  /\ up' = [up EXCEPT ![c] = TRUE]
  /\ buffer' = [buffer EXCEPT ![c] = <<>>]
  /\ open' = open \cup {s}
  /\ c2s' = [c2s EXCEPT ![s] = buffer[c] \o <<Msg("join-room", {})>>]
  /\ UNCHANGED <<awarenessVars, joined, s2c>>

HandleDisconnect(c) ==
  /\ up[c]
  /\ up' = [up EXCEPT ![c] = FALSE]
  /\ s2c' = [s2c EXCEPT ![Cur(c)] = <<>>]
  /\ UNCHANGED <<awarenessVars, conns, buffer, serverVars, c2s>>

-----------------------------------------------------------------------------
(* The client: awareness.                                                  *)

\* The cursor moves, or Awareness renews its own state after 15 s.
SetLocalState(c) ==
  /\ clock[c][c] < MaxClock[c]
  /\ clock' = [clock EXCEPT ![c][c] = @ + 1]
  /\ HandleAwarenessLocalUpdate(c, {c})
  /\ UNCHANGED <<shown, conns, up, buffer, serverVars, c2s, s2c>>

\* Awareness removes p, of whom it has not heard for 30 s: p has left, is
\* disconnected for a while, packets are late, or the browser has held up
\* timers.  MaxClock bounds p's answers, and hence how often this happens.
RemoveOutdated(c, p) ==
  /\ p \in shown[c] \ {c}
  /\ clock[c][p] < MaxClock[p]
  /\ shown' = [shown EXCEPT ![c] = @ \ {p}]
  /\ HandleAwarenessLocalUpdate(c, {p})
  /\ UNCHANGED <<clock, conns, up, buffer, serverVars, c2s, s2c>>

\* The timer of 50 ms of c's n-th provider: what the clients that changed
\* meanwhile have now.
SendPending(c, n) ==
  /\ pending[c][n] # {}
  /\ pending' = [pending EXCEPT ![c][n] = {}]
  /\ Emit(c, Msg("awareness-update", EncodeAwarenessUpdate(c, pending[c][n])))
  /\ UNCHANGED <<clock, shown, conns, up, serverVars, s2c>>

\* handleAwarenessRemoteUpdate: the first provider finds the news, the others
\* none.  A client answers the removal of its own state with a higher clock.
\* Every provider takes note, whatever the origin; of a client not known that
\* is removed there is no event.
HandleAwarenessRemoteUpdate(c) ==
  LET news == News(c, Head(s2c[Cur(c)]).data) IN
  /\ up[c] /\ s2c[Cur(c)] # <<>>
  /\ s2c' = [s2c EXCEPT ![Cur(c)] = Tail(@)]
  /\ clock' = [clock EXCEPT ![c] = [p \in Client |->
                 IF \E e \in news : e.who = p
                 THEN LET e == CHOOSE e \in news : e.who = p IN
                      IF p = c /\ ~e.live THEN e.clock + 1 ELSE e.clock
                 ELSE @[p]]]
  /\ shown' = [shown EXCEPT ![c] =
                 (@ \ {e.who : e \in {x \in news : ~x.live /\ x.who # c}})
                   \cup {e.who : e \in {x \in news : x.live}}]
  /\ HandleAwarenessLocalUpdate(c,
       {e.who : e \in {x \in news : x.live \/ clock[c][x.who] > 0}})
  /\ UNCHANGED <<conns, up, buffer, serverVars, c2s>>

-----------------------------------------------------------------------------
(* The server's handlers.                                                  *)

ServerReceives(s, type) ==
  /\ s \in open
  /\ c2s[s] # <<>>
  /\ Head(c2s[s]).type = type
  /\ c2s' = [c2s EXCEPT ![s] = Tail(@)]

OnJoinRoom(s) ==
  /\ ServerReceives(s, "join-room")
  /\ joined' = joined \cup {s}
  /\ UNCHANGED <<awarenessVars, conns, up, buffer, open, s2c>>

\* "if (!currentRoomId) return".
DropBeforeJoin(s) ==
  /\ s \notin joined
  /\ ServerReceives(s, "awareness-update")
  /\ UNCHANGED <<awarenessVars, conns, up, buffer, serverVars, s2c>>

\* The update is sent to everybody else in the room.
OnAwarenessUpdate(s) ==
  /\ s \in joined
  /\ ServerReceives(s, "awareness-update")
  /\ s2c' = [t \in Socket |-> IF t \in joined \ {s} /\ Live(t)
                              THEN Append(s2c[t], Head(c2s[s])) ELSE s2c[t]]
  /\ UNCHANGED <<awarenessVars, conns, up, buffer, serverVars>>

OnDisconnect_StaysJoined(s) ==
  /\ s \in open
  /\ open' = open \ {s}
  /\ c2s' = [c2s EXCEPT ![s] = <<>>]
  /\ UNCHANGED <<awarenessVars, conns, up, buffer, joined, s2c>>

\* Nobody is told.
OnDisconnect(s) ==
  /\ s \in open
  /\ open' = open \ {s}
  /\ joined' = joined \ {s}
  /\ c2s' = [c2s EXCEPT ![s] = <<>>]
  /\ UNCHANGED <<awarenessVars, conns, up, buffer, s2c>>

-----------------------------------------------------------------------------
ServerStep(s) == OnJoinRoom(s) \/ DropBeforeJoin(s) \/ OnAwarenessUpdate(s)

ClientNext(c) ==
  \/ HandleConnect(c)
  \/ HandleDisconnect(c)
  \/ SetLocalState(c)
  \/ \E p \in Client : RemoveOutdated(c, p)
  \/ \E n \in 1 .. MaxConn[c] : SendPending(c, n)
  \/ HandleAwarenessRemoteUpdate(c)

Next ==
  \/ \E c \in Client : ClientNext(c)
  \/ \E s \in Socket : ServerStep(s) \/ OnDisconnect(s)

Spec == Init /\ [][Next]_vars

\* The event loops of the browsers and of the server go on, timers included,
\* and each end of a connection whose other end is gone finds out.  A loop may
\* take what waits in any order: no callback is promised a turn of its own.
ClientLoop(c) ==
  \/ HandleAwarenessRemoteUpdate(c)
  \/ SetLocalState(c)
  \/ \E n \in 1 .. MaxConn[c] : SendPending(c, n)
  \/ Cur(c) \notin open /\ HandleDisconnect(c)

ServerLoop == \E s \in Socket : ServerStep(s) \/ (~Live(s) /\ OnDisconnect(s))

Fairness == (\A c \in Client : WF_vars(ClientLoop(c))) /\ WF_vars(ServerLoop)

FairSpec == Spec /\ Fairness

-----------------------------------------------------------------------------
(* Properties.                                                             *)

InRoom(c) == up[c] /\ Cur(c) \in joined

Together(c, p) == InRoom(c) /\ InRoom(p)

\* While two clients stay in the room, each state that one makes, or a later
\* one, is seen by the other in the end: the throttle does not lose the last
\* change before a pause, one who joined late catches up, and so does one who
\* has taken the other for gone, by mistake or because somebody else did.
StateSeen ==
  \A p \in Client : \A c \in Client \ {p} : \A k \in 1 .. MaxClock[p] - 1 :
    Together(c, p) /\ clock[p][p] = k
    ~> (p \in shown[c] /\ clock[c][p] > k) \/ ~Together(c, p)

\* However often others take a client for gone, it has its own state, and
\* nobody has a later one.
OwnStateRules ==
  \A p \in Client :
    p \in shown[p] /\ \A c \in Client : clock[c][p] <= clock[p][p]

-----------------------------------------------------------------------------
(* What makes OwnStateRules inductive.                                     *)

\* The clocks that the clients' own states have.
OwnClock == [p \in Client |-> clock[p][p]]

\* An entry is no later than its client's state, which has clock own[e.who];
\* one that says "gone" leaves the client a clock to answer with.
Fresh(e, own) ==
  /\ e.clock <= own[e.who]
  /\ ~e.live => e.clock < MaxClock[e.who]

FreshPackets(q, own) == \A i \in 1 .. Len(q) : \A e \in q[i].data : Fresh(e, own)

PacketsFresh ==
  /\ \A c \in Client : FreshPackets(buffer[c], OwnClock)
  /\ \A s \in Socket : FreshPackets(c2s[s], OwnClock) /\ FreshPackets(s2c[s], OwnClock)

\* Whom a client sees, or is about to send news of, it has heard of.
Heard(c, p) ==
  p \in shown[c] \/ (\E n \in 1 .. MaxConn[c] : p \in pending[c][n]) => clock[c][p] >= 1

\* A client that has been removed can still answer.
CanAnswer(c, p) ==
  p \notin shown[c] /\ clock[c][p] > 0 => clock[c][p] < MaxClock[p]

\* The inductive invariant: nothing about a client is ahead of it, in any
\* channel, buffer or Awareness.
PresenceInv ==
  /\ \A c \in Client : up[c] => conns[c] >= 1
  /\ \A c, p \in Client : Heard(c, p) /\ CanAnswer(c, p)
  /\ PacketsFresh
  /\ OwnStateRules
=============================================================================
