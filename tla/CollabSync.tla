----------------------------- MODULE CollabSync -----------------------------
(***************************************************************************)
(* Document synchronisation of one room, end to end: the hook              *)
(* useCollaboration and the TesseraSocketProvider in every browser, the    *)
(* socket.io connections between them, and the handlers of sync-server.    *)
(*                                                                         *)
(* A client may lose its connection and reconnect; each connection is a    *)
(* new socket <<client, n>> with a FIFO channel in each direction.  The    *)
(* two ends of a socket notice its loss independently.  The web client     *)
(* joins one fixed room (DEFAULT_ROOM), hence one room here.               *)
(*                                                                         *)
(* An operator X_Y is X with the bug Y.  Nothing uses it: PROJECT.json     *)
(* names the property that fails when it takes the place of X.             *)
(***************************************************************************)
EXTENDS YDoc, Sequences

CONSTANTS
  MaxConn,    \* MaxConn[c]: bound on the connections of client c
  MaxEdit,    \* bound on the changes the users make
  MaxRestart  \* bound on the restarts of the server

ASSUME MaxConnAssumption == MaxConn \in [Client -> Nat]
ASSUME MaxEditAssumption == MaxEdit \in Nat
ASSUME MaxRestartAssumption == MaxRestart \in Nat

VARIABLES
  mounted,     \* mounted[c]: the component using the hook is mounted
  doc,         \* doc[c]: the client's Y.Doc
  conns,       \* conns[c]: number of "connect" events of c's socket so far
  up,          \* up[c]: socket.connected, as the client sees it
  synced,      \* synced[c]: isSynced of the provider in providerRef
  sendBuffer,  \* sendBuffer[c]: packets emitted while disconnected
  open,        \* sockets whose "disconnect" the server has not handled
  joined,      \* sockets with currentRoomId set: the room's participants
  roomDoc,     \* the room's Y.Doc on the server; empty when there is no room
  c2s,         \* c2s[s]: packets on their way to the server
  s2c,         \* s2c[s]: packets on their way to the client
  silent,      \* history: what the room got, not sent on to client c
  edits,       \* number of changes the users have made so far
  restarts     \* number of server restarts so far

clientVars == <<mounted, doc, conns, up, synced, sendBuffer, silent, edits>>
serverVars == <<open, joined, roomDoc, restarts>>
vars == <<clientVars, serverVars, c2s, s2c>>

Socket == UNION {{c} \X (1 .. MaxConn[c]) : c \in Client}
MessageType == {"join-room", "sync-step-1", "sync-step-2", "sync-update"}
Message == [type : MessageType, data : SUBSET Fact]

TypeOK ==
  /\ mounted \in [Client -> BOOLEAN]
  /\ doc \in [Client -> SUBSET Fact]
  /\ conns \in [Client -> Nat]
  /\ \A c \in Client : conns[c] <= MaxConn[c]
  /\ up \in [Client -> BOOLEAN]
  /\ synced \in [Client -> BOOLEAN]
  /\ sendBuffer \in [Client -> Seq(Message)]
  /\ open \in SUBSET Socket
  /\ joined \in SUBSET Socket
  /\ roomDoc \in SUBSET Fact
  /\ c2s \in [Socket -> Seq(Message)]
  /\ s2c \in [Socket -> Seq(Message)]
  /\ silent \in [Client -> SUBSET Fact]
  /\ edits \in 0 .. MaxEdit
  /\ restarts \in 0 .. MaxRestart

-----------------------------------------------------------------------------
(* Messages, channels and sockets.                                         *)

Msg(t, d) == [type |-> t, data |-> d]

Copies(n, m) == [i \in 1 .. n |-> m]

\* The socket a client is using, once it has connected.
Cur(c) == <<c, conns[c]>>

\* The client end of s is connected, so what the server emits can arrive.
Live(s) == up[s[1]] /\ conns[s[1]] = s[2]

\* Every "connect" event creates a provider and overwrites providerRef; none
\* is destroyed before the component unmounts, so all of them stay bound to
\* the socket and to the document.
Providers(c) == conns[c]

\* c's socket emits the packets ms: to the server, into a pipe the server has
\* already closed, or into the buffer kept while disconnected.
Emit(c, ms) ==
  IF up[c]
  THEN /\ c2s' = IF Cur(c) \in open THEN [c2s EXCEPT ![Cur(c)] = @ \o ms] ELSE c2s
       /\ UNCHANGED sendBuffer
  ELSE /\ sendBuffer' = [sendBuffer EXCEPT ![c] = @ \o ms]
       /\ UNCHANGED c2s

ServerEmit_WrongEvent(S, m) ==
  s2c' = [s \in Socket |-> IF s \in S /\ Live(s)
                          THEN Append(s2c[s], Msg("room-joined", m.data)) ELSE s2c[s]]

\* The server emits m to each socket in S.
ServerEmit(S, m) ==
  s2c' = [s \in Socket |-> IF s \in S /\ Live(s) THEN Append(s2c[s], m) ELSE s2c[s]]

-----------------------------------------------------------------------------
Init ==
  /\ mounted = [c \in Client |-> TRUE]
  /\ doc = [c \in Client |-> {}]
  /\ conns = [c \in Client |-> 0]
  /\ up = [c \in Client |-> FALSE]
  /\ synced = [c \in Client |-> FALSE]
  /\ sendBuffer = [c \in Client |-> <<>>]
  /\ open = {}
  /\ joined = {}
  /\ roomDoc = {}
  /\ c2s = [s \in Socket |-> <<>>]
  /\ s2c = [s \in Socket |-> <<>>]
  /\ silent = [c \in Client |-> {}]
  /\ edits = 0
  /\ restarts = 0

-----------------------------------------------------------------------------
(* The client: connection life cycle (useCollaboration).                   *)

HandleConnect_ProviderFirst(c) ==
  LET s == <<c, conns[c] + 1>> IN
  /\ mounted[c] /\ ~up[c] /\ conns[c] < MaxConn[c]
  /\ conns' = [conns EXCEPT ![c] = @ + 1]
  /\ up' = [up EXCEPT ![c] = TRUE]
  /\ synced' = [synced EXCEPT ![c] = FALSE]
  /\ sendBuffer' = [sendBuffer EXCEPT ![c] = <<>>]
  /\ open' = open \cup {s}
  /\ c2s' = [c2s EXCEPT ![s] =
               sendBuffer[c] \o <<Msg("sync-step-1", StateVector(doc[c])),
                                  Msg("join-room", {})>>]
  /\ s2c' = [s2c EXCEPT ![s] = <<>>]
  /\ UNCHANGED <<mounted, doc, silent, edits, joined, roomDoc, restarts>>

HandleConnect_FreshDoc(c) ==
  LET s == <<c, conns[c] + 1>> IN
  /\ mounted[c] /\ ~up[c] /\ conns[c] < MaxConn[c]
  /\ conns' = [conns EXCEPT ![c] = @ + 1]
  /\ up' = [up EXCEPT ![c] = TRUE]
  /\ doc' = [doc EXCEPT ![c] = {}]
  /\ synced' = [synced EXCEPT ![c] = FALSE]
  /\ sendBuffer' = [sendBuffer EXCEPT ![c] = <<>>]
  /\ open' = open \cup {s}
  /\ c2s' = [c2s EXCEPT ![s] = <<Msg("join-room", {}), Msg("sync-step-1", {})>>]
  /\ s2c' = [s2c EXCEPT ![s] = <<>>]
  /\ UNCHANGED <<mounted, silent, edits, joined, roomDoc, restarts>>

\* "connect": socket.io flushes the send buffer first, then the handler emits
\* join-room and constructs a provider, which emits sync-step-1.
HandleConnect(c) ==
  LET s == <<c, conns[c] + 1>> IN
  /\ mounted[c] /\ ~up[c] /\ conns[c] < MaxConn[c]
  /\ conns' = [conns EXCEPT ![c] = @ + 1]
  /\ up' = [up EXCEPT ![c] = TRUE]
  /\ synced' = [synced EXCEPT ![c] = FALSE]
  /\ sendBuffer' = [sendBuffer EXCEPT ![c] = <<>>]
  /\ open' = open \cup {s}
  /\ c2s' = [c2s EXCEPT ![s] =
               sendBuffer[c] \o <<Msg("join-room", {}),
                                  Msg("sync-step-1", StateVector(doc[c]))>>]
  /\ s2c' = [s2c EXCEPT ![s] = <<>>]
  /\ UNCHANGED <<mounted, doc, silent, edits, joined, roomDoc, restarts>>

\* "disconnect" at the client; what was under way to it is lost.
HandleDisconnect(c) ==
  /\ up[c]
  /\ up' = [up EXCEPT ![c] = FALSE]
  /\ s2c' = [s2c EXCEPT ![Cur(c)] = <<>>]
  /\ silent' = [silent EXCEPT ![c] = {}]
  /\ UNCHANGED <<mounted, doc, conns, synced, sendBuffer, edits, serverVars, c2s>>

\* Unmount runs cleanup: the provider is destroyed, the socket disconnected
\* and the document dropped.
Cleanup(c) ==
  /\ mounted[c]
  /\ mounted' = [mounted EXCEPT ![c] = FALSE]
  /\ up' = [up EXCEPT ![c] = FALSE]
  /\ synced' = [synced EXCEPT ![c] = FALSE]
  /\ doc' = [doc EXCEPT ![c] = {}]
  /\ sendBuffer' = [sendBuffer EXCEPT ![c] = <<>>]
  /\ s2c' = IF up[c] THEN [s2c EXCEPT ![Cur(c)] = <<>>] ELSE s2c
  /\ silent' = [silent EXCEPT ![c] = {}]
  /\ UNCHANGED <<conns, edits, serverVars, c2s>>

-----------------------------------------------------------------------------
(* The client: local changes and incoming packets (TesseraSocketProvider). *)

\* A transaction of the editor, whose origin is no provider: handleDocUpdate
\* of every provider emits the update.
LocalChange(c, u) ==
  LET new == ApplyUpdate(doc[c], u) IN
  /\ edits < MaxEdit
  /\ edits' = edits + 1
  /\ doc' = [doc EXCEPT ![c] = new]
  /\ Emit(c, Copies(Providers(c), Msg("sync-update", UpdateEvent(doc[c], new))))
  /\ UNCHANGED <<mounted, conns, up, synced, silent, serverVars, s2c>>

\* The user types: the author's next struct.
Type(c) ==
  \E k \in 1 .. MaxClock :
    /\ mounted[c]
    /\ Ins(c, k) \notin doc[c]
    /\ \A j \in 1 .. k - 1 : Ins(c, j) \in doc[c]
    /\ LocalChange(c, {Ins(c, k)})

\* clearLocalDoc: delete the whole text in one transaction.
ClearLocalDoc(c) ==
  /\ mounted[c] /\ Providers(c) > 0
  /\ Text(doc[c]) # {}
  /\ LocalChange(c, {Del(f.author, f.clock) : f \in Text(doc[c])})

\* Packet m is the next one for client c.
ClientReceives(c, type) ==
  /\ up[c]
  /\ s2c[Cur(c)] # <<>>
  /\ Head(s2c[Cur(c)]).type = type
  /\ s2c' = [s2c EXCEPT ![Cur(c)] = Tail(@)]

HandleSyncStep1_NoDeletes(c) ==
  /\ ClientReceives(c, "sync-step-1")
  /\ Emit(c, Copies(Providers(c),
            Msg("sync-step-2", StateVector(doc[c]) \ Head(s2c[Cur(c)]).data)))
  /\ UNCHANGED <<mounted, doc, conns, up, synced, silent, edits, serverVars>>

\* handleSyncStep1: every provider answers with what the server lacks.
HandleSyncStep1(c) ==
  /\ ClientReceives(c, "sync-step-1")
  /\ Emit(c, Copies(Providers(c),
            Msg("sync-step-2", EncodeStateAsUpdate(doc[c], Head(s2c[Cur(c)]).data))))
  /\ UNCHANGED <<mounted, doc, conns, up, synced, silent, edits, serverVars>>

ApplyRemote_ForwardsAll(c, u) ==
  /\ doc' = [doc EXCEPT ![c] = ApplyUpdate(doc[c], u)]
  /\ Emit(c, <<Msg("sync-update", u)>>)

\* Y.applyUpdate with origin "this" in the first provider; the others find
\* nothing new.  handleDocUpdate of the first skips its own origin, that of
\* every other provider emits the update event, if there is one.
ApplyRemote(c, u) ==
  LET new   == ApplyUpdate(doc[c], u)
      event == UpdateEvent(doc[c], new)
      echo  == IF event = {} THEN 0 ELSE Providers(c) - 1
  IN  /\ doc' = [doc EXCEPT ![c] = new]
      /\ Emit(c, Copies(echo, Msg("sync-update", event)))

HandleSyncStep2(c) ==
  /\ ClientReceives(c, "sync-step-2")
  /\ ApplyRemote(c, Head(s2c[Cur(c)]).data)
  /\ synced' = [synced EXCEPT ![c] = TRUE]
  /\ UNCHANGED <<mounted, conns, up, silent, edits, serverVars>>

HandleSyncUpdate(c) ==
  /\ ClientReceives(c, "sync-update")
  /\ ApplyRemote(c, Head(s2c[Cur(c)]).data)
  /\ UNCHANGED <<mounted, conns, up, synced, silent, edits, serverVars>>

-----------------------------------------------------------------------------
(* The server's handlers.                                                  *)

ServerReceives(s, type) ==
  /\ s \in open
  /\ c2s[s] # <<>>
  /\ Head(c2s[s]).type = type
  /\ c2s' = [c2s EXCEPT ![s] = Tail(@)]

OnJoinRoom_NoVector(s) ==
  /\ ServerReceives(s, "join-room")
  /\ joined' = joined \cup {s}
  /\ UNCHANGED <<clientVars, open, roomDoc, restarts, s2c>>

\* join-room: getOrCreateRoom, then the room's state vector to the socket.
OnJoinRoom(s) ==
  /\ ServerReceives(s, "join-room")
  /\ joined' = joined \cup {s}
  /\ ServerEmit({s}, Msg("sync-step-1", StateVector(roomDoc)))
  /\ UNCHANGED <<clientVars, open, roomDoc, restarts>>

\* "if (!currentRoomId) return" of the three sync handlers.
DropBeforeJoin(s) ==
  /\ s \notin joined
  /\ \E type \in MessageType \ {"join-room"} : ServerReceives(s, type)
  /\ UNCHANGED <<clientVars, serverVars, s2c>>

OnSyncStep1_OwnVector(s) ==
  /\ s \in joined
  /\ ServerReceives(s, "sync-step-1")
  /\ ServerEmit({s}, Msg("sync-step-2", EncodeStateAsUpdate(roomDoc, StateVector(roomDoc))))
  /\ UNCHANGED <<clientVars, serverVars>>

OnSyncStep1(s) ==
  /\ s \in joined
  /\ ServerReceives(s, "sync-step-1")
  /\ ServerEmit({s},
       Msg("sync-step-2", EncodeStateAsUpdate(roomDoc, Head(c2s[s]).data)))
  /\ UNCHANGED <<clientVars, serverVars>>

\* sync-step-2 is applied and not broadcast.  silent[c] records what the room
\* learns this way while c is in it.
OnSyncStep2(s) ==
  LET u == Head(c2s[s]).data IN
  /\ s \in joined
  /\ ServerReceives(s, "sync-step-2")
  /\ roomDoc' = ApplyUpdate(roomDoc, u)
  /\ silent' = [c \in Client |-> IF up[c] /\ Cur(c) \in joined \ {s}
                                 THEN silent[c] \cup (u \ roomDoc) ELSE silent[c]]
  /\ UNCHANGED <<mounted, doc, conns, up, synced, sendBuffer, edits, open, joined, restarts, s2c>>

OnSyncUpdate_ToSender(s) ==
  LET u == Head(c2s[s]).data IN
  /\ s \in joined
  /\ ServerReceives(s, "sync-update")
  /\ roomDoc' = ApplyUpdate(roomDoc, u)
  /\ ServerEmit({s}, Msg("sync-update", u))
  /\ UNCHANGED <<clientVars, open, joined, restarts>>

\* sync-update is applied and sent to everybody else in the room.
OnSyncUpdate(s) ==
  LET u == Head(c2s[s]).data IN
  /\ s \in joined
  /\ ServerReceives(s, "sync-update")
  /\ roomDoc' = ApplyUpdate(roomDoc, u)
  /\ ServerEmit(joined \ {s}, Msg("sync-update", u))
  /\ UNCHANGED <<clientVars, open, joined, restarts>>

OnDisconnect_AlwaysDestroys(s) ==
  /\ s \in open
  /\ open' = open \ {s}
  /\ joined' = joined \ {s}
  /\ roomDoc' = IF s \in joined THEN {} ELSE roomDoc
  /\ c2s' = [c2s EXCEPT ![s] = <<>>]
  /\ UNCHANGED <<clientVars, restarts, s2c>>

\* "disconnect" at the server: the participant leaves, and the last one takes
\* the room and its document along.  Packets not yet handled are lost.
OnDisconnect(s) ==
  /\ s \in open
  /\ open' = open \ {s}
  /\ joined' = joined \ {s}
  /\ roomDoc' = IF s \in joined /\ joined = {s} THEN {} ELSE roomDoc
  /\ c2s' = [c2s EXCEPT ![s] = <<>>]
  /\ UNCHANGED <<clientVars, restarts, s2c>>

\* The process stops and is started again: rooms live in memory only.
ServerRestart ==
  /\ restarts < MaxRestart
  /\ restarts' = restarts + 1
  /\ open' = {}
  /\ joined' = {}
  /\ roomDoc' = {}
  /\ c2s' = [s \in Socket |-> <<>>]
  /\ UNCHANGED <<clientVars, s2c>>

-----------------------------------------------------------------------------
ClientStep(c) == HandleSyncStep1(c) \/ HandleSyncStep2(c) \/ HandleSyncUpdate(c)

ServerStep(s) ==
  \/ OnJoinRoom(s)
  \/ DropBeforeJoin(s)
  \/ OnSyncStep1(s)
  \/ OnSyncStep2(s)
  \/ OnSyncUpdate(s)

ClientNext(c) ==
  \/ HandleConnect(c)
  \/ HandleDisconnect(c)
  \/ Cleanup(c)
  \/ Type(c)
  \/ ClearLocalDoc(c)
  \/ ClientStep(c)

ServerNext(s) == ServerStep(s) \/ OnDisconnect(s)

Next ==
  \/ \E c \in Client : ClientNext(c)
  \/ \E s \in Socket : ServerNext(s)
  \/ ServerRestart

Spec == Init /\ [][Next]_vars

\* The event loops of the browsers and of the server go on: they handle what
\* has arrived, and an end of a connection whose other end is gone finds out
\* (transport close or ping timeout).  A loop may take what waits in any
\* order.  Users and the network owe nothing.
ClientLoop(c) == ClientStep(c) \/ (Cur(c) \notin open /\ HandleDisconnect(c))

ServerLoop == \E s \in Socket : ServerStep(s) \/ (~Live(s) /\ OnDisconnect(s))

Fairness == (\A c \in Client : WF_vars(ClientLoop(c))) /\ WF_vars(ServerLoop)

FairSpec == Spec /\ Fairness

-----------------------------------------------------------------------------
(* Properties.                                                             *)

\* The facts that the document packets of a channel carry.
Carried(q) ==
  UNION {q[i].data : i \in {j \in 1 .. Len(q) : q[j].type \in {"sync-step-2", "sync-update"}}}

\* A packet of this type is still to be handled.
Awaiting(q, type) == \E i \in 1 .. Len(q) : q[i].type = type

\* c is connected and the server has handled its join-room.
InRoom(c) == up[c] /\ Cur(c) \in joined

Covered(c) ==
  InRoom(c) /\ ~Awaiting(s2c[Cur(c)], "sync-step-1")
    => doc[c] \subseteq roomDoc \cup Carried(c2s[Cur(c)])

\* Once a client has answered the server's sync-step-1, the room has, or is
\* being sent, everything in the client's document: edits made offline,
\* edits whose packets the server dropped before join-room, and edits
\* received from a room that is gone.
ServerCovers == \A c \in Client : Covered(c)

OnlySilentMissing(c) ==
  InRoom(c) /\ ~Awaiting(c2s[Cur(c)], "sync-step-1")
    => roomDoc \subseteq doc[c] \cup Carried(s2c[Cur(c)]) \cup silent[c]

\* Conversely, once the server has answered a client's sync-step-1, the
\* client has, or is being sent, everything in the room except what the room
\* learnt from the sync-step-2 of others: that is the only gap.
MissingOnlySilent == \A c \in Client : OnlySilentMissing(c)

\* A room loses nothing while one participant stays, however the others come
\* and go.
RoomDocSurvives == [][joined \cap joined' # {} => roomDoc \subseteq roomDoc']_vars

\* Every connection that lasts gets the client to the synced state.
ConnectLeadsToSync == \A c \in Client : up[c] ~> (synced[c] \/ ~up[c])

\* Every edit of a client whose connection lasts reaches the room, the edits
\* made before the connection or between two of them included.
EditReachesRoom ==
  \A f \in Fact : up[f.author] /\ f \in doc[f.author] ~> (f \in roomDoc \/ ~up[f.author])

\* No packet is under way.
Quiet ==
  /\ \A c \in Client : up[c] => InRoom(c) /\ s2c[Cur(c)] = <<>>
  /\ \A s \in Socket : c2s[s] = <<>>

\* When the users and the network stop acting the traffic dies down: the
\* providers left bound by earlier connections do not echo for ever.
EventuallyQuiet == <>[]Quiet

\* README.md, Features: "deterministic, conflict-free state resolution across
\* clients".  When nothing is under way, the clients in the room show the
\* same text.  The code does not provide this: see OnSyncStep2.
Convergence ==
  Quiet => \A c, d \in Client : up[c] /\ up[d] => Text(doc[c]) = Text(doc[d])

\* That gap is all there is: when nothing is under way, two clients in the
\* room from which no sync-step-2 was kept have the same document, pending and
\* deleted structs included, whatever connections and rooms were lost before.
ConvergesUnlessSilent ==
  Quiet => \A c, d \in Client :
    up[c] /\ up[d] /\ silent[c] = {} /\ silent[d] = {} => doc[c] = doc[d]

\* The facts under way, or waiting for a connection.
Transit ==
  UNION ({Carried(sendBuffer[c]) : c \in Client}
         \cup {Carried(c2s[s]) \cup Carried(s2c[s]) : s \in Socket})

Doc == INSTANCE SharedDoc WITH
  here <- {c \in Client : mounted[c]}, replica <- doc, room <- roomDoc,
  present <- joined # {}, transit <- Transit

\* Together the clients, the server and the packets between them are one
\* shared document: a page loses nothing it shows while it is open, not even
\* in a reconnect to a server that has lost the room; nobody gets what nobody
\* wrote; and the struct ids a client gives out are new wherever an earlier
\* one has got to.
DocSpec == Doc!Spec

-----------------------------------------------------------------------------
(* What makes ServerCovers and MissingOnlySilent inductive.                *)

\* A socket joins at most once open, with a serial number already used.
SocketsInv ==
  /\ joined \subseteq open
  /\ \A s \in open : s[2] <= conns[s[1]]
  /\ \A c \in Client : up[c] => conns[c] >= 1

\* All the packets of channel q carry parts of document d.
DataWithin(q, d) == \A i \in 1 .. Len(q) : q[i].data \subseteq d

\* What waits for a connection is updates of the client's own document.
BufferInv(c) ==
  /\ \A i \in 1 .. Len(sendBuffer[c]) : sendBuffer[c][i].type = "sync-update"
  /\ DataWithin(sendBuffer[c], doc[c])

\* The handshake is on its way: join-room, sync-step-1 right behind it, and
\* nothing but flushed updates before them.
Joining(q) ==
  \E i \in 1 .. Len(q) :
    /\ i + 1 <= Len(q)
    /\ q[i].type = "join-room"
    /\ q[i + 1].type = "sync-step-1"
    /\ \A j \in 1 .. Len(q) : j < i => q[j].type = "sync-update"

HandshakeInv(c) ==
  up[c] /\ Cur(c) \in open \ joined
    => s2c[Cur(c)] = <<>> /\ Joining(c2s[Cur(c)])

\* Each side sends only what it has.
ChannelInv(c) ==
  /\ up[c] => DataWithin(c2s[Cur(c)], doc[c])
  /\ InRoom(c) => DataWithin(s2c[Cur(c)], roomDoc)

ClientInv(c) ==
  /\ BufferInv(c)
  /\ HandshakeInv(c)
  /\ ChannelInv(c)
  /\ Covered(c)
  /\ OnlySilentMissing(c)

\* The inductive invariant: the two guarantees above together with the reason
\* why they hold, that no handshake is overtaken or cut short and that neither
\* side sends facts it does not have.
SyncInv == SocketsInv /\ \A c \in Client : ClientInv(c)

\* What makes every step one of the shared document: a page that is gone is
\* not connected, and an open one has all that its user has typed, in spite of
\* reconnects, of rooms that are gone and of what others send.  The next
\* insertion is then new to the room, the packets and the other clients.
PageInv == (\A c \in Client : up[c] => mounted[c]) /\ Doc!KeepsOwn
=============================================================================
