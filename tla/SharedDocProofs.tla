--------------------------- MODULE SharedDocProofs ---------------------------
(***************************************************************************)
(* The clients, the server and the packets between them implement one      *)
(* shared document: CollabSync implements SharedDoc, for any number of     *)
(* clients, connections, edits and restarts.                               *)
(*                                                                         *)
(*   - What a step puts on the way is in a document already (Network).     *)
(*   - Every step is one of SharedDoc's, if the authors have their own     *)
(*     text (PageInv); and a step of SharedDoc leaves them their own text. *)
(*   - A step of SharedDoc loses nothing that a page or the room has.      *)
(***************************************************************************)
EXTENDS CollabSyncProofs

-----------------------------------------------------------------------------
(* What is under way.                                                      *)

LEMMA InTransit ==
  \A f : f \in Transit <=>
    \/ \E c \in Client : f \in Carried(sendBuffer[c])
    \/ \E s \in Socket : f \in Carried(c2s[s]) \/ f \in Carried(s2c[s])
BY DEF Transit

LEMMA InDocuments ==
  \A f : f \in Doc!Documents <=> f \in roomDoc \/ \E c \in Client : f \in doc[c]
BY DEF Doc!Documents

\* A channel carries data of its packets, an empty one nothing.
LEMMA CarriedWithin ==
  ASSUME NEW q \in Seq(Message), NEW d, DataWithin(q, d)
  PROVE  Carried(q) \subseteq d
BY InCarried DEF DataWithin

LEMMA EmptyChannel == Carried(<<>>) = {}
<1>1. Len(<<>>) = 0
  BY EmptySeq
<1> QED
  BY <1>1 DEF Carried

\* A step that adds nothing to the channels but parts of documents.
LEMMA NetworkHolds ==
  ASSUME \A c \in Client : Carried(sendBuffer'[c]) \subseteq Transit \cup Doc!Documents',
         \A s \in Socket : /\ Carried(c2s'[s]) \subseteq Transit \cup Doc!Documents'
                           /\ Carried(s2c'[s]) \subseteq Transit \cup Doc!Documents'
  PROVE  Doc!Network
<1>1. Transit' \subseteq Transit \cup Doc!Documents'
  BY DEF Transit, Carried
<1> QED
  BY <1>1 DEF Doc!Network

\* What is in the channels and the buffers is under way.
LEMMA Under ==
  /\ \A c \in Client : Carried(sendBuffer[c]) \subseteq Transit
  /\ \A s \in Socket : Carried(c2s[s]) \subseteq Transit /\ Carried(s2c[s]) \subseteq Transit
BY InTransit

\* A client emits packets with data of d.
LEMMA EmitWithin ==
  ASSUME TypeOK, NEW c \in Client, NEW ms \in Seq(Message), Emit(c, ms),
         NEW d, Carried(ms) \subseteq d
  PROVE  /\ \A x \in Client : Carried(sendBuffer'[x]) \subseteq Transit \cup d
         /\ \A s \in Socket : Carried(c2s'[s]) \subseteq Transit \cup d
<1>1. /\ sendBuffer \in [Client -> Seq(Message)]
      /\ c2s \in [Socket -> Seq(Message)]
  BY DEF TypeOK
<1>2. ASSUME NEW x \in Client
      PROVE  Carried(sendBuffer'[x]) \subseteq Transit \cup d
  <2>1. CASE sendBuffer'[x] = sendBuffer[x]
    BY <2>1, Under
  <2>2. CASE sendBuffer'[x] = sendBuffer[x] \o ms
    <3>1. Carried(sendBuffer[x] \o ms) = Carried(sendBuffer[x]) \cup Carried(ms)
      BY <1>1, ConcatChannel
    <3> QED
      BY <2>2, <3>1, Under
  <2> QED
    BY <1>1, <2>1, <2>2 DEF Emit
<1>3. ASSUME NEW s \in Socket
      PROVE  Carried(c2s'[s]) \subseteq Transit \cup d
  <2>1. CASE c2s'[s] = c2s[s]
    BY <2>1, Under
  <2>2. CASE c2s'[s] = c2s[s] \o ms
    <3>1. Carried(c2s[s] \o ms) = Carried(c2s[s]) \cup Carried(ms)
      BY <1>1, ConcatChannel
    <3> QED
      BY <2>2, <3>1, Under
  <2> QED
    BY <1>1, <2>1, <2>2 DEF Emit
<1> QED
  BY <1>2, <1>3

\* The server emits a packet with data of d, or without an update.
LEMMA ServerEmitWithin ==
  ASSUME TypeOK, NEW S, NEW m \in Message, ServerEmit(S, m),
         NEW d, IsUpdate(m) => m.data \subseteq d
  PROVE  \A s \in Socket : Carried(s2c'[s]) \subseteq Transit \cup d
<1>1. s2c \in [Socket -> Seq(Message)]
  BY DEF TypeOK
<1>2. ASSUME NEW s \in Socket
      PROVE  Carried(s2c'[s]) \subseteq Transit \cup d
  <2>1. CASE s2c'[s] = s2c[s]
    BY <2>1, Under
  <2>2. CASE s2c'[s] = Append(s2c[s], m)
    <3>1. Carried(Append(s2c[s], m)) = Carried(s2c[s]) \cup IF IsUpdate(m) THEN m.data ELSE {}
      BY <1>1, AppendChannel
    <3> QED
      BY <2>2, <3>1, Under
  <2> QED
    BY <2>1, <2>2 DEF ServerEmit
<1> QED
  BY <1>2

\* A packet is taken off a channel.
LEMMA ClientTakes ==
  ASSUME TypeOK, NEW c \in Client, NEW type, ClientReceives(c, type), Cur(c) \in Socket
  PROVE  /\ \A s \in Socket : Carried(s2c'[s]) \subseteq Transit
         /\ IsUpdate(Head(s2c[Cur(c)])) => Head(s2c[Cur(c)]).data \subseteq Transit
<1> DEFINE q == s2c[Cur(c)]
<1>1. q \in Seq(Message) /\ q # <<>>
  BY DEF ClientReceives, TypeOK
<1>2. Carried(q) = Carried(Tail(q)) \cup IF IsUpdate(Head(q)) THEN Head(q).data ELSE {}
  BY <1>1, TailChannel
<1>3. Carried(q) \subseteq Transit
  BY Under
<1>4. Carried(Tail(q)) \subseteq Transit /\ (IsUpdate(Head(q)) => Head(q).data \subseteq Transit)
  BY <1>2, <1>3
<1>5. ASSUME NEW s \in Socket
      PROVE  Carried(s2c'[s]) \subseteq Transit
  <2>1. CASE s2c'[s] = s2c[s]
    BY <2>1, Under
  <2>2. CASE s2c'[s] = Tail(q)
    BY <2>2, <1>4
  <2> QED
    BY <2>1, <2>2 DEF ClientReceives, TypeOK
<1> QED
  BY <1>4, <1>5

LEMMA ServerTakes ==
  ASSUME TypeOK, NEW s \in Socket, NEW type, ServerReceives(s, type)
  PROVE  /\ \A x \in Socket : Carried(c2s'[x]) \subseteq Transit
         /\ IsUpdate(Head(c2s[s])) => Head(c2s[s]).data \subseteq Transit
<1> DEFINE q == c2s[s]
<1>1. q \in Seq(Message) /\ q # <<>>
  BY DEF ServerReceives, TypeOK
<1>2. Carried(q) = Carried(Tail(q)) \cup IF IsUpdate(Head(q)) THEN Head(q).data ELSE {}
  BY <1>1, TailChannel
<1>3. Carried(q) \subseteq Transit
  BY Under
<1>4. Carried(Tail(q)) \subseteq Transit /\ (IsUpdate(Head(q)) => Head(q).data \subseteq Transit)
  BY <1>2, <1>3
<1>5. ASSUME NEW x \in Socket
      PROVE  Carried(c2s'[x]) \subseteq Transit
  <2>1. CASE c2s'[x] = c2s[x]
    BY <2>1, Under
  <2>2. CASE c2s'[x] = Tail(q)
    BY <2>2, <1>4
  <2> QED
    BY <2>1, <2>2 DEF ServerReceives, TypeOK
<1> QED
  BY <1>4, <1>5


-----------------------------------------------------------------------------
(* Authors keep their own text.                                            *)

LEMMA OwnStep ==
  ASSUME TypeOK, Doc!KeepsOwn, Doc!Next
  PROVE  Doc!KeepsOwn'
<1> DEFINE Known == Transit \cup Doc!Documents
           Page(c) == c \in {x \in Client : mounted[x]}
           Keeps(c) == Page(c) /\ doc[c] \subseteq doc'[c]
           Own(f) == f.kind = "ins" => f.author \in Client /\ f \in doc'[f.author]
<1>0. doc \in [Client -> SUBSET Fact]
  BY DEF TypeOK
<1>1. /\ \A c \in Client : Page(c)' => Keeps(c)
      /\ \A f \in Doc!Documents' : f \in Known \/ Own(f)
  <2>1. CASE UNCHANGED <<{c \in Client : mounted[c]}, doc, roomDoc, joined # {}>>
    BY <2>1 DEF Doc!Documents
  <2>2. CASE Doc!RoomLearns \/ Doc!RoomOpens \/ Doc!RoomCloses
    BY <2>2 DEF Doc!RoomLearns, Doc!RoomOpens, Doc!RoomCloses, Doc!Documents
  <2>3. ASSUME NEW c \in Client, NEW u, doc' = [doc EXCEPT ![c] = @ \cup u],
               UNCHANGED <<{x \in Client : mounted[x]}, roomDoc>>,
               \A f \in u : f \in Known \/ (f.kind = "ins" => f.author = c)
        PROVE  <1>1
    <3>1. doc'[c] = doc[c] \cup u /\ \A x \in Client : x # c => doc'[x] = doc[x]
      BY <1>0, <2>3
    <3>2. \A f \in Doc!Documents' : f \in Doc!Documents \/ f \in u
      BY <2>3, <3>1 DEF Doc!Documents
    <3>3. \A f \in u : f \in Known \/ Own(f)
      BY <2>3, <3>1
    <3> QED
      BY <2>3, <3>1, <3>2, <3>3
  <2>4. ASSUME NEW c \in Client, Doc!Learn(c)
        PROVE  <1>1
    <3>1. PICK u \in SUBSET Transit : doc' = [doc EXCEPT ![c] = @ \cup u]
      BY <2>4 DEF Doc!Learn, Doc!Gains
    <3>2. UNCHANGED <<{x \in Client : mounted[x]}, roomDoc>>
      BY <2>4 DEF Doc!Learn, Doc!Gains
    <3>3. \A f \in u : f \in Known \/ (f.kind = "ins" => f.author = c)
      OBVIOUS
    <3> QED
      BY <2>3, <3>1, <3>2, <3>3
  <2>5. ASSUME NEW c \in Client, Doc!Write(c)
        PROVE  <1>1
    <3>1. PICK u \in SUBSET Doc!Writable(c) : doc' = [doc EXCEPT ![c] = @ \cup u]
      BY <2>5 DEF Doc!Write, Doc!Gains
    <3>2. UNCHANGED <<{x \in Client : mounted[x]}, roomDoc>>
      BY <2>5 DEF Doc!Write, Doc!Gains
    <3>3. \A f \in u : f \in Known \/ (f.kind = "ins" => f.author = c)
      BY DEF Doc!Writable
    <3> QED
      BY <2>3, <3>1, <3>2, <3>3
  <2>6. ASSUME NEW c \in Client, Doc!Leave(c)
        PROVE  <1>1
    <3>1. doc'[c] = {} /\ \A x \in Client : x # c => doc'[x] = doc[x]
      BY <1>0, <2>6 DEF Doc!Leave
    <3>2. \A x \in Client : Page(x)' => Page(x) /\ x # c
      BY <2>6 DEF Doc!Leave
    <3>3. \A f \in Doc!Documents' : f \in Doc!Documents
      BY <2>6, <3>1 DEF Doc!Documents, Doc!Leave
    <3> QED
      BY <3>1, <3>2, <3>3
  <2> QED
    BY <2>1, <2>2, <2>4, <2>5, <2>6 DEF Doc!Next
<1>2. \A f \in Transit' \cup Doc!Documents' : f \in Known \/ Own(f)
  BY <1>1 DEF Doc!Next, Doc!Network
<1>3. ASSUME NEW c \in Client, Page(c)', NEW f \in Transit' \cup Doc!Documents',
             f.kind = "ins", f.author = c
      PROVE  f \in doc'[c]
  <2>1. Page(c) /\ doc[c] \subseteq doc'[c]
    BY <1>1, <1>3
  <2>2. f \in Known => f \in doc[c]
    BY <1>3, <2>1 DEF Doc!KeepsOwn
  <2> QED
    BY <1>2, <1>3, <2>1, <2>2
<1> QED
  BY <1>3 DEF Doc!KeepsOwn


-----------------------------------------------------------------------------
(* Every step is a step of the shared document.                            *)

\* What a document has, Doc!Documents has.
LEMMA DocumentsHold ==
  /\ roomDoc \subseteq Doc!Documents
  /\ \A c \in Client : doc[c] \subseteq Doc!Documents
BY InDocuments

\* Nothing but the packets changes.
LEMMA Stutters ==
  ASSUME Doc!Network, UNCHANGED <<mounted, doc, roomDoc, joined>>
  PROVE  Doc!Next
BY DEF Doc!Next

\* A client's replica gains u, and what it emits is from its document.
LEMMA ClientEmits ==
  ASSUME TypeOK, NEW c \in Client, NEW n \in Nat, NEW m \in Message, IsUpdate(m),
         Emit(c, Copies(n, m)), m.data \subseteq Doc!Documents',
         \A s \in Socket : Carried(s2c'[s]) \subseteq Transit
  PROVE  Doc!Network
<1> DEFINE ms == Copies(n, m)
           D == Doc!Documents'
<1>1. ms \in Seq(Message) /\ DataWithin(ms, m.data)
  BY CopiesChannel
<1>2. Carried(ms) \subseteq m.data
  BY <1>1, CarriedWithin
<1>3. Carried(ms) \subseteq D
  BY <1>2
<1>4. /\ \A x \in Client : Carried(sendBuffer'[x]) \subseteq Transit \cup m.data
      /\ \A s \in Socket : Carried(c2s'[s]) \subseteq Transit \cup m.data
  BY <1>1, <1>2, EmitWithin
<1> QED
  BY <1>4, NetworkHolds

\* A local change is on its way with the next packets.
LEMMA LocalChangeRefines ==
  ASSUME TypeOK, NEW c \in Client, mounted[c], NEW u \in SUBSET Doc!Writable(c),
         u \subseteq Fact, LocalChange(c, u)
  PROVE  Doc!Next
<1> DEFINE new == doc[c] \cup u
           m == Msg("sync-update", UpdateEvent(doc[c], new))
<1>1. /\ doc' = [doc EXCEPT ![c] = new] /\ UNCHANGED <<mounted, roomDoc, joined, s2c>>
      /\ Emit(c, Copies(conns[c], m))
  BY DEF LocalChange, ApplyUpdate, Providers, serverVars
<1>2. new \subseteq Fact /\ conns[c] \in Nat /\ doc'[c] = new
  BY <1>1 DEF TypeOK
<1>3. UpdateEvent(doc[c], new) \subseteq new
  BY UpdateEventWithin
<1>4. m \in Message /\ IsUpdate(m) /\ m.data = UpdateEvent(doc[c], new)
  BY <1>2, <1>3, MsgType DEF MessageType, IsUpdate
<1>5. new \subseteq Doc!Documents'
  BY <1>2 DEF Doc!Documents
<1>6. \A s \in Socket : Carried(s2c'[s]) \subseteq Transit
  BY <1>1, Under
<1> HIDE DEF m
<1>7. Doc!Network
  BY <1>1, <1>2, <1>3, <1>4, <1>5, <1>6, ClientEmits
<1>8. Doc!Write(c)
  BY <1>1 DEF Doc!Write, Doc!Gains
<1> QED
  BY <1>7, <1>8 DEF Doc!Next

LEMMA TypeRefines ==
  ASSUME TypeOK, PageInv, NEW c \in Client, Type(c)
  PROVE  Doc!Next
<1>1. PICK k \in 1 .. MaxClock :
        mounted[c] /\ Ins(c, k) \notin doc[c] /\ LocalChange(c, {Ins(c, k)})
  BY DEF Type
<1>2. Ins(c, k) \in Fact /\ Ins(c, k).kind = "ins" /\ Ins(c, k).author = c
  BY DEF Ins, Fact
<1>3. Ins(c, k) \notin Transit \cup Doc!Documents
  BY <1>1, <1>2 DEF PageInv, Doc!KeepsOwn
<1>4. Ins(c, k) \in Doc!Writable(c)
  BY <1>2, <1>3 DEF Doc!Writable, Doc!Fact, Fact
<1> QED
  BY <1>1, <1>2, <1>4, LocalChangeRefines

LEMMA ClearLocalDocRefines ==
  ASSUME TypeOK, NEW c \in Client, ClearLocalDoc(c)
  PROVE  Doc!Next
<1> DEFINE u == {Del(f.author, f.clock) : f \in Text(doc[c])}
<1>1. ASSUME NEW f \in Text(doc[c])
      PROVE  Del(f.author, f.clock) \in Fact /\ Del(f.author, f.clock) \in Doc!Writable(c)
  <2>1. f \in doc[c] /\ f \in Fact /\ f.kind = "ins"
    BY DEF Text, StateVector, TypeOK
  <2>2. f = Doc!Ins(f.author, f.clock)
    BY <2>1 DEF Doc!Ins, Fact
  <2>3. /\ Del(f.author, f.clock) \in Fact
        /\ Del(f.author, f.clock).kind = "del"
        /\ Del(f.author, f.clock).author = f.author
        /\ Del(f.author, f.clock).clock = f.clock
    BY <2>1 DEF Del, Fact
  <2> QED
    BY <2>1, <2>2, <2>3 DEF Doc!Writable, Doc!Fact, Fact
<1>2. u \in SUBSET Doc!Writable(c) /\ u \subseteq Fact
  BY <1>1
<1>3. mounted[c] /\ LocalChange(c, u)
  BY DEF ClearLocalDoc
<1> HIDE DEF u
<1> QED
  BY <1>2, <1>3, LocalChangeRefines


LEMMA HandleSyncStep1Refines ==
  ASSUME TypeOK, SocketsInv, NEW c \in Client, HandleSyncStep1(c)
  PROVE  Doc!Next
<1> DEFINE u == EncodeStateAsUpdate(doc[c], Head(s2c[Cur(c)]).data)
           m == Msg("sync-step-2", u)
<1>1. /\ Emit(c, Copies(conns[c], m)) /\ ClientReceives(c, "sync-step-1")
      /\ UNCHANGED <<mounted, doc, roomDoc, joined>>
  BY DEF HandleSyncStep1, Providers, serverVars
<1>2. u \subseteq doc[c] /\ doc[c] \subseteq Fact /\ conns[c] \in Nat
  BY DEF EncodeStateAsUpdate, TypeOK
<1>3. m \in Message /\ IsUpdate(m) /\ m.data = u
  BY <1>2, MsgType DEF MessageType, IsUpdate
<1>4. doc[c] \subseteq Doc!Documents'
  BY <1>1 DEF Doc!Documents
<1>5. \A s \in Socket : Carried(s2c'[s]) \subseteq Transit
  BY <1>1, CurSocket, ClientTakes DEF ClientReceives
<1> HIDE DEF u, m
<1> QED
  BY <1>1, <1>2, <1>3, <1>4, <1>5, ClientEmits, Stutters

\* What a client applies was under way, and what it echoes it now has.
LEMMA RemoteRefines ==
  ASSUME TypeOK, PageInv, SocketsInv, NEW c \in Client, HandleSyncStep2(c) \/ HandleSyncUpdate(c)
  PROVE  Doc!Next
<1> DEFINE u == Head(s2c[Cur(c)]).data
           new == doc[c] \cup u
           n == IF UpdateEvent(doc[c], new) = {} THEN 0 ELSE conns[c] - 1
           m == Msg("sync-update", UpdateEvent(doc[c], new))
<1>1. PICK type \in {"sync-step-2", "sync-update"} : ClientReceives(c, type)
  BY DEF HandleSyncStep2, HandleSyncUpdate
<1>2. /\ doc' = [doc EXCEPT ![c] = new] /\ Emit(c, Copies(n, m))
      /\ UNCHANGED <<mounted, roomDoc, joined>>
  BY DEF HandleSyncStep2, HandleSyncUpdate, ApplyRemote, ApplyUpdate, Providers, serverVars
<1>3. up[c] /\ mounted[c] /\ Cur(c) \in Socket
  BY <1>1, CurSocket DEF ClientReceives, PageInv
<1>4. u \subseteq Transit /\ \A s \in Socket : Carried(s2c'[s]) \subseteq Transit
  BY <1>1, <1>3, ClientTakes DEF ClientReceives, IsUpdate
<1>5. u \subseteq Fact
  BY <1>1, <1>3, ClientReceivesType DEF Message
<1>6. new \subseteq Fact /\ n \in Nat /\ doc'[c] = new
  BY <1>2, <1>3, <1>5 DEF TypeOK, SocketsInv
<1>7. UpdateEvent(doc[c], new) \subseteq new
  BY UpdateEventWithin
<1>8. m \in Message /\ IsUpdate(m) /\ m.data = UpdateEvent(doc[c], new)
  BY <1>6, <1>7, MsgType DEF MessageType, IsUpdate
<1>9. new \subseteq Doc!Documents'
  BY <1>6 DEF Doc!Documents
<1> HIDE DEF n, m
<1>10. Doc!Network
  BY <1>2, <1>4, <1>6, <1>7, <1>8, <1>9, ClientEmits
<1>11. Doc!Learn(c)
  BY <1>2, <1>3, <1>4 DEF Doc!Learn, Doc!Gains
<1> QED
  BY <1>10, <1>11 DEF Doc!Next

\* A connection sends what waited for it.
LEMMA HandleConnectRefines ==
  ASSUME TypeOK, NEW c \in Client, HandleConnect(c)
  PROVE  Doc!Next
<1> DEFINE s == <<c, conns[c] + 1>>
           j == Msg("join-room", {})
           v == Msg("sync-step-1", StateVector(doc[c]))
           q == sendBuffer[c]
<1>1. /\ sendBuffer' = [sendBuffer EXCEPT ![c] = <<>>]
      /\ c2s' = [c2s EXCEPT ![s] = q \o <<j, v>>]
      /\ s2c' = [s2c EXCEPT ![s] = <<>>]
      /\ UNCHANGED <<mounted, doc, roomDoc, joined>>
  BY DEF HandleConnect
<1>2. /\ sendBuffer \in [Client -> Seq(Message)] /\ q \in Seq(Message)
      /\ c2s \in [Socket -> Seq(Message)] /\ s2c \in [Socket -> Seq(Message)]
  BY DEF TypeOK
<1>3. j \in Message /\ ~IsUpdate(j) /\ v \in Message /\ ~IsUpdate(v)
  <2>1. StateVector(doc[c]) \subseteq Fact
    BY StateVectorWithin DEF TypeOK
  <2> QED
    BY <2>1, MsgType DEF MessageType, IsUpdate
<1> HIDE DEF j, v
<1>4. <<j, v>> \in Seq(Message) /\ Carried(<<j, v>>) = {}
  <2>1. <<j, v>> \in Seq(Message) /\ Len(<<j, v>>) = 2
    BY <1>3
  <2>2. \A i \in 1 .. 2 : ~IsUpdate(<<j, v>>[i])
    <3>1. \A i \in 1 .. 2 : <<j, v>>[i] = j \/ <<j, v>>[i] = v
      OBVIOUS
    <3> QED
      BY <1>3, <3>1
  <2> QED
    BY <2>1, <2>2, InCarried
<1>5. Carried(q \o <<j, v>>) \subseteq Transit
  <2>1. Carried(q \o <<j, v>>) = Carried(q) \cup Carried(<<j, v>>)
    BY <1>2, <1>4, ConcatChannel
  <2> QED
    BY <1>4, <2>1, Under
<1>6. ASSUME NEW x \in Client
      PROVE  Carried(sendBuffer'[x]) \subseteq Transit
  <2>1. sendBuffer'[x] = sendBuffer[x] \/ sendBuffer'[x] = <<>>
    BY <1>1, <1>2
  <2> QED
    BY <2>1, EmptyChannel, Under
<1>7. ASSUME NEW x \in Socket
      PROVE  Carried(c2s'[x]) \subseteq Transit /\ Carried(s2c'[x]) \subseteq Transit
  <2>1. c2s'[x] = c2s[x] \/ c2s'[x] = q \o <<j, v>>
    BY <1>1, <1>2
  <2>2. s2c'[x] = s2c[x] \/ s2c'[x] = <<>>
    BY <1>1, <1>2
  <2>3. Carried(c2s'[x]) \subseteq Transit
    BY <2>1, <1>5, Under
  <2>4. Carried(s2c'[x]) \subseteq Transit
    BY <2>2, EmptyChannel, Under
  <2> QED
    BY <2>3, <2>4
<1> QED
  BY <1>1, <1>6, <1>7, NetworkHolds, Stutters

\* Nothing gets under way in a disconnect at the client.
LEMMA ClientGoesRefines ==
  ASSUME TypeOK, NEW c \in Client, HandleDisconnect(c) \/ Cleanup(c)
  PROVE  Doc!Next
<1>1. ASSUME NEW x \in Client
      PROVE  Carried(sendBuffer'[x]) \subseteq Transit
  <2>1. sendBuffer'[x] = sendBuffer[x] \/ sendBuffer'[x] = <<>>
    BY DEF HandleDisconnect, Cleanup, TypeOK
  <2> QED
    BY <2>1, EmptyChannel, Under
<1>2. ASSUME NEW s \in Socket
      PROVE  Carried(c2s'[s]) \subseteq Transit /\ Carried(s2c'[s]) \subseteq Transit
  <2>1. c2s'[s] = c2s[s]
    BY DEF HandleDisconnect, Cleanup
  <2>2. s2c'[s] = s2c[s] \/ s2c'[s] = <<>>
    BY DEF HandleDisconnect, Cleanup, TypeOK
  <2>3. Carried(s2c'[s]) \subseteq Transit
    BY <2>2, EmptyChannel, Under
  <2> QED
    BY <2>1, <2>3, Under
<1>3. Doc!Network
  BY <1>1, <1>2, NetworkHolds
<1>4. CASE HandleDisconnect(c)
  BY <1>3, <1>4, Stutters DEF HandleDisconnect, serverVars
<1>5. CASE Cleanup(c)
  <2>1. /\ mounted' = [mounted EXCEPT ![c] = FALSE] /\ doc' = [doc EXCEPT ![c] = {}]
        /\ UNCHANGED <<roomDoc, joined>>
    BY <1>5 DEF Cleanup, serverVars
  <2>2. {x \in Client : mounted'[x]} = {x \in Client : mounted[x]} \ {c}
    BY <2>1 DEF TypeOK
  <2>3. Doc!Leave(c)
    BY <2>1, <2>2 DEF Doc!Leave
  <2> QED
    BY <1>3, <2>3 DEF Doc!Next
<1> QED
  BY <1>4, <1>5


\* The server handles a packet: what it emits is in the room's document.
LEMMA ServerNetwork ==
  ASSUME TypeOK, NEW s \in Socket, NEW type, ServerReceives(s, type),
         sendBuffer' = sendBuffer,
         \A x \in Socket : Carried(s2c'[x]) \subseteq Transit \cup roomDoc'
  PROVE  Doc!Network
<1>1. \A x \in Socket : Carried(c2s'[x]) \subseteq Transit
  BY ServerTakes
<1>2. \A x \in Client : Carried(sendBuffer'[x]) \subseteq Transit
  BY Under
<1>3. roomDoc' \subseteq Doc!Documents'
  BY DEF Doc!Documents
<1> QED
  BY <1>1, <1>2, <1>3, NetworkHolds

LEMMA OnJoinRoomRefines ==
  ASSUME TypeOK, NEW s \in Socket, OnJoinRoom(s)
  PROVE  Doc!Next
<1> DEFINE m == Msg("sync-step-1", StateVector(roomDoc))
<1>1. /\ ServerReceives(s, "join-room") /\ joined' = joined \cup {s} /\ ServerEmit({s}, m)
      /\ UNCHANGED <<mounted, doc, sendBuffer, roomDoc>>
  BY DEF OnJoinRoom, clientVars
<1>2. m \in Message /\ ~IsUpdate(m)
  <2>1. StateVector(roomDoc) \subseteq Fact
    BY StateVectorWithin DEF TypeOK
  <2> QED
    BY <2>1, MsgType DEF MessageType, IsUpdate
<1> HIDE DEF m
<1>3. \A x \in Socket : Carried(s2c'[x]) \subseteq Transit \cup roomDoc'
  BY <1>1, <1>2, ServerEmitWithin
<1>4. Doc!Network
  BY <1>1, <1>3, ServerNetwork
<1>5. Doc!RoomOpens
  BY <1>1 DEF Doc!RoomOpens
<1> QED
  BY <1>4, <1>5 DEF Doc!Next

LEMMA DropBeforeJoinRefines ==
  ASSUME TypeOK, NEW s \in Socket, DropBeforeJoin(s)
  PROVE  Doc!Next
<1>1. UNCHANGED <<mounted, doc, sendBuffer, roomDoc, joined, s2c>>
  BY DEF DropBeforeJoin, clientVars, serverVars
<1>2. \A x \in Socket : Carried(s2c'[x]) \subseteq Transit \cup roomDoc'
  BY <1>1, Under
<1>3. Doc!Network
  BY <1>1, <1>2, ServerNetwork DEF DropBeforeJoin
<1> QED
  BY <1>1, <1>3, Stutters

LEMMA OnSyncStep1Refines ==
  ASSUME TypeOK, NEW s \in Socket, OnSyncStep1(s)
  PROVE  Doc!Next
<1> DEFINE u == EncodeStateAsUpdate(roomDoc, Head(c2s[s]).data)
           m == Msg("sync-step-2", u)
<1>1. /\ ServerReceives(s, "sync-step-1") /\ ServerEmit({s}, m)
      /\ UNCHANGED <<mounted, doc, sendBuffer, roomDoc, joined>>
  BY DEF OnSyncStep1, clientVars, serverVars
<1>2. u \subseteq roomDoc' /\ roomDoc \subseteq Fact
  BY <1>1 DEF EncodeStateAsUpdate, TypeOK
<1>3. m \in Message /\ m.data = u
  BY <1>1, <1>2, MsgType DEF MessageType
<1> HIDE DEF m, u
<1>4. \A x \in Socket : Carried(s2c'[x]) \subseteq Transit \cup roomDoc'
  BY <1>1, <1>2, <1>3, ServerEmitWithin
<1>5. Doc!Network
  BY <1>1, <1>4, ServerNetwork
<1> QED
  BY <1>1, <1>5, Stutters

\* The room learns what was under way; a sync-update goes on to the others.
LEMMA RoomLearnsRefines ==
  ASSUME TypeOK, NEW s \in Socket, OnSyncStep2(s) \/ OnSyncUpdate(s)
  PROVE  Doc!Next
<1> DEFINE u == Head(c2s[s]).data
           m == Msg("sync-update", u)
<1>1. PICK type \in {"sync-step-2", "sync-update"} : ServerReceives(s, type)
  BY DEF OnSyncStep2, OnSyncUpdate
<1>2. /\ s \in joined /\ roomDoc' = roomDoc \cup u
      /\ UNCHANGED <<mounted, doc, sendBuffer, joined>>
      /\ s2c' = s2c \/ ServerEmit(joined \ {s}, m)
  BY DEF OnSyncStep2, OnSyncUpdate, ApplyUpdate, clientVars
<1>3. u \subseteq Transit /\ u \subseteq Fact
  BY <1>1, ServerTakes, ServerReceivesType DEF ServerReceives, IsUpdate, Message
<1>4. m \in Message /\ m.data = u
  BY <1>3, MsgType DEF MessageType
<1> HIDE DEF m, u
<1>5. \A x \in Socket : Carried(s2c'[x]) \subseteq Transit \cup roomDoc'
  <2>1. CASE s2c' = s2c
    BY <2>1, Under
  <2>2. CASE ServerEmit(joined \ {s}, m)
    BY <2>2, <1>2, <1>4, ServerEmitWithin
  <2> QED
    BY <1>2, <2>1, <2>2
<1>6. Doc!Network
  BY <1>1, <1>2, <1>5, ServerNetwork
<1>7. Doc!RoomLearns
  BY <1>2, <1>3 DEF Doc!RoomLearns
<1> QED
  BY <1>6, <1>7 DEF Doc!Next

\* A participant leaves, or all do at once: the packets it sent are lost.
LEMMA OnDisconnectRefines ==
  ASSUME TypeOK, NEW s \in Socket, OnDisconnect(s)
  PROVE  Doc!Next
<1>1. /\ joined' = joined \ {s} /\ c2s' = [c2s EXCEPT ![s] = <<>>]
      /\ roomDoc' = IF s \in joined /\ joined = {s} THEN {} ELSE roomDoc
      /\ UNCHANGED <<mounted, doc, sendBuffer, s2c>>
  BY DEF OnDisconnect, clientVars
<1>2. ASSUME NEW x \in Socket
      PROVE  Carried(c2s'[x]) \subseteq Transit /\ Carried(s2c'[x]) \subseteq Transit
  <2>1. c2s'[x] = c2s[x] \/ c2s'[x] = <<>>
    BY <1>1 DEF TypeOK
  <2>2. Carried(c2s'[x]) \subseteq Transit
    BY <2>1, EmptyChannel, Under
  <2>3. Carried(s2c'[x]) \subseteq Transit
    BY <1>1, Under
  <2> QED
    BY <2>2, <2>3
<1>3. \A x \in Client : Carried(sendBuffer'[x]) \subseteq Transit
  BY <1>1, Under
<1>4. Doc!Network
  BY <1>2, <1>3, NetworkHolds
<1>5. CASE joined = {s}
  <2>1. Doc!RoomCloses
    BY <1>1, <1>5 DEF Doc!RoomCloses
  <2> QED
    BY <1>4, <2>1 DEF Doc!Next
<1>6. CASE joined # {s}
  <2>1. roomDoc' = roomDoc /\ (joined' # {} <=> joined # {})
    BY <1>1, <1>6
  <2> QED
    BY <1>1, <1>4, <2>1 DEF Doc!Next
<1> QED
  BY <1>5, <1>6

LEMMA ServerRestartRefines ==
  ASSUME TypeOK, ServerRestart
  PROVE  Doc!Next
<1>1. /\ joined' = {} /\ roomDoc' = {} /\ c2s' = [s \in Socket |-> <<>>]
      /\ UNCHANGED <<mounted, doc, sendBuffer, s2c>>
  BY DEF ServerRestart, clientVars
<1>2. ASSUME NEW x \in Socket
      PROVE  Carried(c2s'[x]) \subseteq Transit /\ Carried(s2c'[x]) \subseteq Transit
  <2>1. c2s'[x] = <<>>
    BY <1>1
  <2> QED
    BY <1>1, <2>1, EmptyChannel, Under
<1>3. \A x \in Client : Carried(sendBuffer'[x]) \subseteq Transit
  BY <1>1, Under
<1>4. Doc!Network
  BY <1>2, <1>3, NetworkHolds
<1>5. Doc!RoomCloses
  BY <1>1 DEF Doc!RoomCloses
<1> QED
  BY <1>4, <1>5 DEF Doc!Next

LEMMA StepRefines ==
  ASSUME TypeOK, SocketsInv, PageInv, [Next]_vars
  PROVE  Doc!Next
<1>1. ASSUME NEW c \in Client, ClientNext(c)
      PROVE  Doc!Next
  BY <1>1, HandleConnectRefines, ClientGoesRefines, TypeRefines, ClearLocalDocRefines,
     HandleSyncStep1Refines, RemoteRefines DEF ClientNext, ClientStep
<1>2. ASSUME NEW s \in Socket, ServerNext(s)
      PROVE  Doc!Next
  BY <1>2, OnJoinRoomRefines, DropBeforeJoinRefines, OnSyncStep1Refines, RoomLearnsRefines,
     OnDisconnectRefines DEF ServerNext, ServerStep
<1>3. ASSUME UNCHANGED vars
      PROVE  Doc!Next
  <2>1. UNCHANGED <<mounted, doc, sendBuffer, roomDoc, joined, c2s, s2c>>
    BY <1>3 DEF vars, clientVars, serverVars
  <2>2. Doc!Network
    BY <2>1, Under, NetworkHolds
  <2> QED
    BY <2>1, <2>2, Stutters
<1> QED
  BY <1>1, <1>2, <1>3, ServerRestartRefines DEF Next

-----------------------------------------------------------------------------
(* The theorems.                                                           *)

LEMMA InitRefines == Init => Doc!Init /\ PageInv
<1> SUFFICES ASSUME Init PROVE Doc!Init /\ PageInv
  OBVIOUS
<1>1. Transit = {}
  BY EmptyChannel DEF Init, Transit
<1>2. Doc!Init
  BY <1>1 DEF Init, Doc!Init
<1>3. Doc!KeepsOwn
  BY <1>1 DEF Init, Doc!KeepsOwn, Doc!Documents
<1> QED
  BY <1>2, <1>3 DEF Init, PageInv

LEMMA PageStep ==
  ASSUME TypeOK, SocketsInv, PageInv, [Next]_vars
  PROVE  PageInv'
<1>1. Doc!KeepsOwn'
  BY StepRefines, OwnStep DEF PageInv
<1>2. ASSUME NEW c \in Client
      PROVE  (up[c] => mounted[c])'
  <2>1. up[c] => mounted[c]
    BY DEF PageInv
  <2>2. ASSUME NEW x \in Client, HandleConnect(x) \/ HandleDisconnect(x) \/ Cleanup(x)
        PROVE  (up[c] => mounted[c])'
    BY <2>1, <2>2 DEF HandleConnect, HandleDisconnect, Cleanup, TypeOK
  <2>3. ASSUME NEW x \in Client, Type(x) \/ ClearLocalDoc(x) \/ ClientStep(x)
        PROVE  UNCHANGED <<up, mounted>>
    BY <2>3 DEF Type, ClearLocalDoc, LocalChange, ClientStep, HandleSyncStep1, HandleSyncStep2,
                HandleSyncUpdate
  <2>4. ASSUME NEW s \in Socket, ServerNext(s)
        PROVE  UNCHANGED <<up, mounted>>
    BY <2>4 DEF ServerNext, ServerStep, OnJoinRoom, DropBeforeJoin, OnSyncStep1, OnSyncStep2,
                OnSyncUpdate, OnDisconnect, clientVars
  <2>5. ASSUME ServerRestart \/ UNCHANGED vars
        PROVE  UNCHANGED <<up, mounted>>
    BY <2>5 DEF ServerRestart, vars, clientVars
  <2> QED
    BY <2>1, <2>2, <2>3, <2>4, <2>5 DEF Next, ClientNext
<1> QED
  BY <1>1, <1>2 DEF PageInv

LEMMA Sockets == Spec => [](TypeOK /\ SocketsInv)
<1>1. SyncInv => SocketsInv
  BY DEF SyncInv
<1> QED
  BY <1>1, Typing, Synchronisation, PTL

\* What a user has typed is in the page's document as long as it is open, in
\* spite of reconnects, restarts and of all that others send
\* (useCollaboration.ts, one document for all connections).
THEOREM OwnTextKept == Spec => []PageInv
<1>1. Init => PageInv
  BY InitRefines
<1>2. TypeOK /\ SocketsInv /\ PageInv /\ [Next]_vars => PageInv'
  BY PageStep
<1> QED
  BY <1>1, <1>2, Sockets, PTL DEF Spec

\* The clients, the server and the packets between them are one shared
\* document (provider.ts, server.ts): what CollabSync does, SharedDoc allows.
THEOREM SharedDocument == Spec => DocSpec
<1>1. Init => Doc!Init
  BY InitRefines
<1>2. TypeOK /\ SocketsInv /\ PageInv /\ [Next]_vars => [Doc!Next]_Doc!vars
  BY StepRefines
<1> QED
  BY <1>1, <1>2, Sockets, OwnTextKept, PTL DEF Spec, DocSpec, Doc!Spec


\* What the refinement means to a user: whatever happens to connections and to
\* the server, nothing vanishes from an open page, nor from a room that
\* somebody is in (useCollaboration.ts, server.ts).
THEOREM NothingLost == Spec => Doc!LosesNothing
<1>1. ASSUME TypeOK, Doc!Next
      PROVE  Doc!Keeps
  <2>1. doc \in [Client -> SUBSET Fact]
    BY <1>1 DEF TypeOK
  <2>2. CASE UNCHANGED <<{c \in Client : mounted[c]}, doc, roomDoc, joined # {}>>
    BY <2>2 DEF Doc!Keeps
  <2>3. CASE Doc!RoomLearns \/ Doc!RoomOpens \/ Doc!RoomCloses
    BY <2>3 DEF Doc!RoomLearns, Doc!RoomOpens, Doc!RoomCloses, Doc!Keeps
  <2>4. ASSUME NEW c \in Client, Doc!Learn(c) \/ Doc!Write(c)
        PROVE  Doc!Keeps
    BY <2>1, <2>4 DEF Doc!Learn, Doc!Write, Doc!Gains, Doc!Keeps
  <2>5. ASSUME NEW c \in Client, Doc!Leave(c)
        PROVE  Doc!Keeps
    BY <2>1, <2>5 DEF Doc!Leave, Doc!Keeps
  <2> QED
    BY <1>1, <2>2, <2>3, <2>4, <2>5 DEF Doc!Next
<1>2. TypeOK /\ SocketsInv /\ PageInv /\ [Next]_vars => [Doc!Keeps]_Doc!vars
  BY <1>1, StepRefines
<1> QED
  BY <1>2, Sockets, OwnTextKept, PTL DEF Spec, Doc!LosesNothing

=============================================================================
