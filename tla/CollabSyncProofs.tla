-------------------------- MODULE CollabSyncProofs --------------------------
(***************************************************************************)
(* Proofs about CollabSync, for any number of clients, connections, edits  *)
(* and restarts:                                                           *)
(*                                                                         *)
(*   - Typing: the type invariant;                                         *)
(*   - Synchronisation: SyncInv is inductive, hence ServerCovers,          *)
(*     MissingOnlySilent and ConvergesUnlessSilent;                        *)
(*   - Survival: a room loses nothing while a participant stays.           *)
(*                                                                         *)
(* The first two sections are lemmas about documents and about channels.   *)
(***************************************************************************)
EXTENDS CollabSync, SequenceTheorems, TLAPS

-----------------------------------------------------------------------------
(* Documents.                                                              *)

\* A state vector stands for facts of the document it was computed from.
LEMMA StateVectorWithin == \A d : StateVector(d) \subseteq d
BY DEF StateVector

\* An update event carries facts of the new document only.
LEMMA UpdateEventWithin == \A d, e : UpdateEvent(d, e) \subseteq e
BY StateVectorWithin DEF UpdateEvent, Integrated

\* The answer to a state vector completes whoever holds what it stands for.
LEMMA DiffCompletes == \A d, sv, e : sv \subseteq e => d \subseteq e \cup EncodeStateAsUpdate(d, sv)
BY DEF EncodeStateAsUpdate

-----------------------------------------------------------------------------
(* Channels.                                                               *)

\* The packets whose data is applied to a document.
IsUpdate(m) == m.type \in {"sync-step-2", "sync-update"}

\* Membership in Carried, without UNION.
LEMMA InCarried ==
  ASSUME NEW q \in Seq(Message), NEW f
  PROVE  f \in Carried(q) <=> \E i \in 1 .. Len(q) : IsUpdate(q[i]) /\ f \in q[i].data
BY DEF Carried, IsUpdate

\* What a copied packet amounts to.
LEMMA CopiesSeq ==
  ASSUME NEW n \in Nat, NEW m \in Message
  PROVE  /\ Copies(n, m) \in Seq(Message)
         /\ Len(Copies(n, m)) = n
         /\ \A i \in 1 .. n : Copies(n, m)[i] = m
BY DEF Copies

\* Appending packets to a channel.
LEMMA ConcatChannel ==
  ASSUME NEW q \in Seq(Message), NEW r \in Seq(Message)
  PROVE  /\ q \o r \in Seq(Message)
         /\ Carried(q \o r) = Carried(q) \cup Carried(r)
         /\ \A type : Awaiting(q \o r, type) <=> Awaiting(q, type) \/ Awaiting(r, type)
         /\ \A d : DataWithin(q \o r, d) <=> DataWithin(q, d) /\ DataWithin(r, d)
<1> DEFINE qr == q \o r
<1>1. /\ qr \in Seq(Message)
      /\ Len(qr) = Len(q) + Len(r)
      /\ \A i \in 1 .. Len(q) + Len(r) : qr[i] = IF i <= Len(q) THEN q[i] ELSE r[i - Len(q)]
  BY ConcatProperties
<1>2. Len(q) \in Nat /\ Len(r) \in Nat
  BY LenProperties
<1>3. \A i \in 1 .. Len(q) : i \in 1 .. Len(qr) /\ qr[i] = q[i]
  BY <1>1, <1>2
<1>4. \A i \in 1 .. Len(r) : Len(q) + i \in 1 .. Len(qr) /\ qr[Len(q) + i] = r[i]
  BY <1>1, <1>2
<1>5. \A i \in 1 .. Len(qr) :
        \/ i \in 1 .. Len(q) /\ qr[i] = q[i]
        \/ i - Len(q) \in 1 .. Len(r) /\ qr[i] = r[i - Len(q)]
  BY <1>1, <1>2
<1> HIDE DEF qr
<1>6. ASSUME NEW f
      PROVE  f \in Carried(qr) <=> f \in Carried(q) \/ f \in Carried(r)
  <2> DEFINE In(x) == \E i \in 1 .. Len(x) : IsUpdate(x[i]) /\ f \in x[i].data
  <2>1. (f \in Carried(qr) <=> In(qr)) /\ (f \in Carried(q) <=> In(q)) /\ (f \in Carried(r) <=> In(r))
    BY <1>1, InCarried
  <2>2. In(q) => In(qr)
    BY <1>3
  <2>3. In(r) => In(qr)
    BY <1>4
  <2>4. In(qr) => In(q) \/ In(r)
    BY <1>5
  <2> QED
    BY <2>1, <2>2, <2>3, <2>4
<1>7. \A type : Awaiting(qr, type) <=> Awaiting(q, type) \/ Awaiting(r, type)
  BY <1>3, <1>4, <1>5 DEF Awaiting
<1>8. \A d : DataWithin(qr, d) <=> DataWithin(q, d) /\ DataWithin(r, d)
  BY <1>3, <1>4, <1>5 DEF DataWithin
<1> QED
  BY <1>1, <1>6, <1>7, <1>8 DEF qr

\* Appending one packet.
LEMMA AppendChannel ==
  ASSUME NEW q \in Seq(Message), NEW m \in Message
  PROVE  /\ Append(q, m) \in Seq(Message)
         /\ Carried(Append(q, m)) = Carried(q) \cup IF IsUpdate(m) THEN m.data ELSE {}
         /\ \A type : Awaiting(Append(q, m), type) <=> Awaiting(q, type) \/ m.type = type
         /\ \A d : DataWithin(Append(q, m), d) <=> DataWithin(q, d) /\ m.data \subseteq d
<1>1. <<m>> \in Seq(Message) /\ Append(q, m) = q \o <<m>>
  BY AppendIsConcat
<1>2. Len(<<m>>) = 1 /\ <<m>>[1] = m
  OBVIOUS
<1>3. ASSUME NEW f
      PROVE  f \in Carried(<<m>>) <=> IsUpdate(m) /\ f \in m.data
  <2>1. f \in Carried(<<m>>) <=> \E i \in 1 .. Len(<<m>>) : IsUpdate(<<m>>[i]) /\ f \in <<m>>[i].data
    BY <1>1, InCarried
  <2> QED
    BY <1>2, <2>1
<1>4. \A type : Awaiting(<<m>>, type) <=> m.type = type
  BY <1>2 DEF Awaiting
<1>5. \A d : DataWithin(<<m>>, d) <=> m.data \subseteq d
  BY <1>2 DEF DataWithin
<1>6. Carried(Append(q, m)) = Carried(q) \cup Carried(<<m>>)
  BY <1>1, ConcatChannel
<1>7. \A type : Awaiting(Append(q, m), type) <=> Awaiting(q, type) \/ Awaiting(<<m>>, type)
  BY <1>1, ConcatChannel
<1>8. \A d : DataWithin(Append(q, m), d) <=> DataWithin(q, d) /\ DataWithin(<<m>>, d)
  BY <1>1, ConcatChannel
<1>9. Append(q, m) \in Seq(Message)
  BY AppendProperties
<1> QED
  BY <1>3, <1>4, <1>5, <1>6, <1>7, <1>8, <1>9

\* Taking the first packet off a channel.
LEMMA TailChannel ==
  ASSUME NEW q \in Seq(Message), q # <<>>
  PROVE  /\ Head(q) \in Message
         /\ Tail(q) \in Seq(Message)
         /\ Carried(q) = Carried(Tail(q)) \cup IF IsUpdate(Head(q)) THEN Head(q).data ELSE {}
         /\ \A type : Awaiting(q, type) <=> Awaiting(Tail(q), type) \/ Head(q).type = type
         /\ \A d : DataWithin(q, d) <=> DataWithin(Tail(q), d) /\ Head(q).data \subseteq d
<1> DEFINE h == Head(q)
           t == Tail(q)
<1>1. /\ h \in Message /\ t \in Seq(Message)
      /\ Len(t) = Len(q) - 1
      /\ \A i \in 1 .. Len(t) : t[i] = q[i + 1]
      /\ h = q[1]
  BY HeadTailProperties
<1>2. Len(q) \in Nat /\ Len(q) > 0
  BY LenProperties, EmptySeq
<1>3. 1 \in 1 .. Len(q) /\ q[1] = h
  BY <1>1, <1>2
<1>4. \A i \in 1 .. Len(t) : i + 1 \in 1 .. Len(q) /\ q[i + 1] = t[i]
  BY <1>1, <1>2
<1>5. \A i \in 1 .. Len(q) : i = 1 \/ (i - 1 \in 1 .. Len(t) /\ q[i] = t[i - 1])
  BY <1>1, <1>2
<1> HIDE DEF h, t
<1>6. ASSUME NEW f
      PROVE  f \in Carried(q) <=> f \in Carried(t) \/ (IsUpdate(h) /\ f \in h.data)
  <2> DEFINE In(x) == \E i \in 1 .. Len(x) : IsUpdate(x[i]) /\ f \in x[i].data
  <2>1. (f \in Carried(q) <=> In(q)) /\ (f \in Carried(t) <=> In(t))
    BY <1>1, InCarried
  <2>2. In(t) => In(q)
    BY <1>4
  <2>3. IsUpdate(h) /\ f \in h.data => In(q)
    BY <1>3
  <2>4. In(q) => In(t) \/ (IsUpdate(h) /\ f \in h.data)
    BY <1>3, <1>5
  <2> QED
    BY <2>1, <2>2, <2>3, <2>4
<1>7. \A type : Awaiting(q, type) <=> Awaiting(t, type) \/ h.type = type
  BY <1>3, <1>4, <1>5 DEF Awaiting
<1>8. \A d : DataWithin(q, d) <=> DataWithin(t, d) /\ h.data \subseteq d
  BY <1>3, <1>4, <1>5 DEF DataWithin
<1> QED
  BY <1>1, <1>6, <1>7, <1>8 DEF h, t

\* A document that grows still holds what the channel carries.
LEMMA DataWithinGrows == \A q, d, e : DataWithin(q, d) /\ d \subseteq e => DataWithin(q, e)
BY DEF DataWithin

\* n > 0 copies of an update carry its data; copies of an update are nothing else.
LEMMA CopiesChannel ==
  ASSUME NEW n \in Nat, NEW m \in Message, IsUpdate(m)
  PROVE  /\ Copies(n, m) \in Seq(Message)
         /\ n > 0 => Carried(Copies(n, m)) = m.data
         /\ ~Awaiting(Copies(n, m), "sync-step-1")
         /\ \A d : m.data \subseteq d => DataWithin(Copies(n, m), d)
<1>1. /\ Copies(n, m) \in Seq(Message)
      /\ Len(Copies(n, m)) = n
      /\ \A i \in 1 .. n : Copies(n, m)[i] = m
  BY CopiesSeq
<1>2. n > 0 => \A f : f \in Carried(Copies(n, m)) <=> f \in m.data
  BY <1>1, InCarried
<1>3. ~Awaiting(Copies(n, m), "sync-step-1")
  BY <1>1 DEF Awaiting, IsUpdate
<1> QED
  BY <1>1, <1>2, <1>3 DEF DataWithin

\* The handshake stays in its channel while packets are appended, ...
LEMMA JoiningConcat ==
  ASSUME NEW q \in Seq(Message), NEW r \in Seq(Message), Joining(q)
  PROVE  Joining(q \o r)
<1>1. /\ Len(q) \in Nat /\ Len(r) \in Nat
      /\ Len(q \o r) = Len(q) + Len(r)
      /\ \A i \in 1 .. Len(q) : (q \o r)[i] = q[i]
  BY ConcatProperties, LenProperties
<1> DEFINE qr == q \o r
<1> HIDE DEF qr
<1>2. PICK i \in 1 .. Len(q) :
        /\ i + 1 <= Len(q)
        /\ q[i].type = "join-room"
        /\ q[i + 1].type = "sync-step-1"
        /\ \A j \in 1 .. Len(q) : j < i => q[j].type = "sync-update"
  BY DEF Joining
<1>3. /\ i \in 1 .. Len(qr) /\ i + 1 <= Len(qr)
      /\ qr[i].type = "join-room"
      /\ qr[i + 1].type = "sync-step-1"
      /\ \A j \in 1 .. Len(qr) : j < i => qr[j].type = "sync-update"
  BY <1>1, <1>2 DEF qr
<1> QED
  BY <1>3 DEF Joining, qr

\* ... while packets other than join-room are handled, ...
LEMMA JoiningTail ==
  ASSUME NEW q \in Seq(Message), q # <<>>, Joining(q), Head(q).type # "join-room"
  PROVE  Joining(Tail(q))
<1> DEFINE t == Tail(q)
<1>1. /\ Len(q) \in Nat
      /\ Len(t) = Len(q) - 1
      /\ \A i \in 1 .. Len(t) : t[i] = q[i + 1]
      /\ Head(q) = q[1]
  BY HeadTailProperties, LenProperties
<1> HIDE DEF t
<1>2. PICK i \in 1 .. Len(q) :
        /\ i + 1 <= Len(q)
        /\ q[i].type = "join-room"
        /\ q[i + 1].type = "sync-step-1"
        /\ \A j \in 1 .. Len(q) : j < i => q[j].type = "sync-update"
  BY DEF Joining
<1>3. i # 1
  BY <1>1, <1>2
<1>4. /\ i - 1 \in 1 .. Len(t) /\ (i - 1) + 1 <= Len(t)
      /\ t[i - 1].type = "join-room"
      /\ t[(i - 1) + 1].type = "sync-step-1"
      /\ \A j \in 1 .. Len(t) : j < i - 1 => t[j].type = "sync-update"
  BY <1>1, <1>2, <1>3
<1> QED
  BY <1>4 DEF Joining, t

\* ... and join-room leaves a sync-step-1 behind it.
LEMMA JoiningJoined ==
  ASSUME NEW q \in Seq(Message), q # <<>>, Joining(q), Head(q).type = "join-room"
  PROVE  Awaiting(Tail(q), "sync-step-1")
<1> DEFINE t == Tail(q)
<1>1. /\ Len(q) \in Nat
      /\ Len(t) = Len(q) - 1
      /\ \A i \in 1 .. Len(t) : t[i] = q[i + 1]
      /\ Head(q) = q[1]
  BY HeadTailProperties, LenProperties
<1> HIDE DEF t
<1>2. PICK i \in 1 .. Len(q) :
        /\ i + 1 <= Len(q)
        /\ q[i].type = "join-room"
        /\ q[i + 1].type = "sync-step-1"
        /\ \A j \in 1 .. Len(q) : j < i => q[j].type = "sync-update"
  BY DEF Joining
<1>3. i = 1
  BY <1>1, <1>2
<1>4. 1 \in 1 .. Len(t) /\ t[1].type = "sync-step-1"
  BY <1>1, <1>2, <1>3
<1> QED
  BY <1>4 DEF Awaiting, t

\* The packets a connection starts with are a handshake.
LEMMA JoiningStarts ==
  ASSUME NEW q \in Seq(Message), NEW m \in Message, NEW n \in Message,
         \A i \in 1 .. Len(q) : q[i].type = "sync-update",
         m.type = "join-room", n.type = "sync-step-1"
  PROVE  Joining(q \o <<m, n>>)
<1> DEFINE r == <<m, n>>
           i == Len(q) + 1
<1>1. r \in Seq(Message) /\ Len(r) = 2 /\ r[1] = m /\ r[2] = n
  OBVIOUS
<1> HIDE DEF r
<1>2. /\ Len(q) \in Nat
      /\ Len(q \o r) = Len(q) + 2
      /\ \A j \in 1 .. Len(q) + 2 : (q \o r)[j] = IF j <= Len(q) THEN q[j] ELSE r[j - Len(q)]
  <2>1. /\ Len(q \o r) = Len(q) + Len(r)
        /\ \A j \in 1 .. Len(q) + Len(r) : (q \o r)[j] = IF j <= Len(q) THEN q[j] ELSE r[j - Len(q)]
    BY <1>1, ConcatProperties
  <2>2. Len(q) \in Nat
    BY LenProperties
  <2> QED
    BY <1>1, <2>1, <2>2
<1>4. (q \o r)[i] = m /\ (q \o r)[i + 1] = n
  <2>1. i \in 1 .. Len(q) + 2 /\ i + 1 \in 1 .. Len(q) + 2 /\ i - Len(q) = 1 /\ (i + 1) - Len(q) = 2
        /\ ~(i <= Len(q)) /\ ~(i + 1 <= Len(q))
    BY <1>2
  <2> QED
    BY <1>1, <1>2, <2>1
<1>3. /\ i \in 1 .. Len(q \o r) /\ i + 1 <= Len(q \o r)
      /\ \A j \in 1 .. Len(q \o r) : j < i => (q \o r)[j].type = "sync-update"
  BY <1>2
<1> QED
  BY <1>2, <1>3, <1>4 DEF Joining, r

-----------------------------------------------------------------------------
(* The type invariant.                                                     *)

\* What the members of Socket are.
LEMMA SocketShape ==
  /\ \A c \in Client : \A n \in 1 .. MaxConn[c] : <<c, n>> \in Socket
  /\ \A s \in Socket : s[1] \in Client /\ s[2] \in Nat /\ s = <<s[1], s[2]>>
BY MaxConnAssumption DEF Socket

\* Messages built from facts are messages.
LEMMA MsgType ==
  ASSUME NEW type \in MessageType, NEW d \in SUBSET Fact
  PROVE  Msg(type, d) \in Message /\ Msg(type, d).type = type /\ Msg(type, d).data = d
BY DEF Msg, Message

\* Updating a function keeps its type, whatever the argument.
LEMMA ExceptType ==
  ASSUME NEW S, NEW T, NEW f \in [S -> T], NEW x, NEW e, x \in S => e \in T
  PROVE  [f EXCEPT ![x] = e] \in [S -> T]
OBVIOUS

\* Emptying a channel keeps the channels typed.
LEMMA EmptiedType ==
  ASSUME NEW S, NEW f \in [S -> Seq(Message)], NEW x
  PROVE  [f EXCEPT ![x] = <<>>] \in [S -> Seq(Message)]
<1>1. <<>> \in Seq(Message)
  BY EmptySeq
<1> QED
  BY <1>1

\* Emitting messages keeps channels and buffers typed.
LEMMA EmitType ==
  ASSUME TypeOK, NEW c \in Client, NEW ms \in Seq(Message), Emit(c, ms)
  PROVE  /\ sendBuffer' \in [Client -> Seq(Message)]
         /\ c2s' \in [Socket -> Seq(Message)]
<1>1. \A q \in Seq(Message) : q \o ms \in Seq(Message)
  BY ConcatProperties
<1>2. CASE up[c]
  <2>1. c2s \in [Socket -> Seq(Message)] /\ sendBuffer \in [Client -> Seq(Message)]
    BY DEF TypeOK
  <2> DEFINE q == c2s[Cur(c)] \o ms
  <2>2. Cur(c) \in Socket => q \in Seq(Message)
    BY <1>1, <2>1
  <2>3. c2s' = IF Cur(c) \in open THEN [c2s EXCEPT ![Cur(c)] = q] ELSE c2s
    BY <1>2 DEF Emit
  <2> HIDE DEF q
  <2>4. [c2s EXCEPT ![Cur(c)] = q] \in [Socket -> Seq(Message)]
    BY <2>1, <2>2
  <2> QED
    BY <1>2, <2>1, <2>3, <2>4 DEF Emit
<1>3. CASE ~up[c]
  <2>1. c2s \in [Socket -> Seq(Message)] /\ sendBuffer \in [Client -> Seq(Message)]
    BY DEF TypeOK
  <2>2. sendBuffer[c] \o ms \in Seq(Message)
    BY <1>1, <2>1
  <2>3. [sendBuffer EXCEPT ![c] = sendBuffer[c] \o ms] \in [Client -> Seq(Message)]
    BY <2>1, <2>2, ExceptType, Zenon
  <2> QED
    BY <1>3, <2>1, <2>3 DEF Emit
<1> QED
  BY <1>2, <1>3

LEMMA ServerEmitType ==
  ASSUME TypeOK, NEW S, NEW m \in Message, ServerEmit(S, m)
  PROVE  s2c' \in [Socket -> Seq(Message)]
BY AppendProperties DEF ServerEmit, TypeOK

\* Taking a message off a channel keeps it typed and yields a message.
LEMMA ClientReceivesType ==
  ASSUME TypeOK, NEW c \in Client, NEW type, ClientReceives(c, type), Cur(c) \in Socket
  PROVE  /\ s2c' \in [Socket -> Seq(Message)]
         /\ s2c[Cur(c)] \in Seq(Message) /\ s2c[Cur(c)] # <<>>
         /\ Head(s2c[Cur(c)]) \in Message
BY HeadTailProperties DEF ClientReceives, TypeOK

LEMMA ServerReceivesType ==
  ASSUME TypeOK, NEW s \in Socket, NEW type, ServerReceives(s, type)
  PROVE  /\ c2s' \in [Socket -> Seq(Message)]
         /\ c2s[s] \in Seq(Message) /\ c2s[s] # <<>>
         /\ Head(c2s[s]) \in Message
BY HeadTailProperties DEF ServerReceives, TypeOK

\* The current socket of a connected client is one.
LEMMA CurSocket ==
  ASSUME TypeOK, SocketsInv, NEW c \in Client, up[c]
  PROVE  Cur(c) \in Socket
<1>1. conns[c] \in 1 .. MaxConn[c]
  BY MaxConnAssumption DEF TypeOK, SocketsInv
<1> QED
  BY <1>1, SocketShape DEF Cur

\* A transaction, local or remote, keeps the client's variables typed.
LEMMA EmitUpdatesType ==
  ASSUME TypeOK, NEW c \in Client, NEW n \in Nat, NEW d, NEW e \in SUBSET Fact,
         Emit(c, Copies(n, Msg("sync-update", UpdateEvent(d, e))))
  PROVE  /\ sendBuffer' \in [Client -> Seq(Message)]
         /\ c2s' \in [Socket -> Seq(Message)]
<1>1. UpdateEvent(d, e) \in SUBSET Fact
  BY UpdateEventWithin
<1>2. Msg("sync-update", UpdateEvent(d, e)) \in Message
  BY <1>1, MsgType DEF MessageType
<1>3. Copies(n, Msg("sync-update", UpdateEvent(d, e))) \in Seq(Message)
  BY <1>2, CopiesSeq
<1> QED
  BY <1>3, EmitType

LEMMA LocalChangeType ==
  ASSUME TypeOK, NEW c \in Client, NEW u \in SUBSET Fact, LocalChange(c, u)
  PROVE  TypeOK'
<1>1. doc[c] \cup u \in SUBSET Fact /\ conns[c] \in Nat
  BY DEF TypeOK
<1>2. /\ sendBuffer' \in [Client -> Seq(Message)]
      /\ c2s' \in [Socket -> Seq(Message)]
  BY <1>1, EmitUpdatesType DEF LocalChange, ApplyUpdate, Providers
<1>3. doc' \in [Client -> SUBSET Fact]
  BY <1>1 DEF LocalChange, ApplyUpdate, TypeOK
<1>4. edits' \in 0 .. MaxEdit
  BY MaxEditAssumption DEF LocalChange, TypeOK
<1> QED
  BY <1>2, <1>3, <1>4 DEF LocalChange, TypeOK, serverVars

LEMMA ApplyRemoteType ==
  ASSUME TypeOK, SocketsInv, NEW c \in Client, up[c], NEW u \in SUBSET Fact, ApplyRemote(c, u)
  PROVE  /\ doc' \in [Client -> SUBSET Fact]
         /\ sendBuffer' \in [Client -> Seq(Message)]
         /\ c2s' \in [Socket -> Seq(Message)]
<1> DEFINE new == doc[c] \cup u
           echo == IF UpdateEvent(doc[c], new) = {} THEN 0 ELSE conns[c] - 1
<1>1. new \in SUBSET Fact
  BY DEF TypeOK
<1>2. echo \in Nat
  BY DEF TypeOK, SocketsInv
<1>3. doc' = [doc EXCEPT ![c] = new]
  BY DEF ApplyRemote, ApplyUpdate
<1>4. Emit(c, Copies(echo, Msg("sync-update", UpdateEvent(doc[c], new))))
  BY DEF ApplyRemote, ApplyUpdate, Providers
<1> HIDE DEF new, echo
<1>5. doc' \in [Client -> SUBSET Fact]
  BY <1>1, <1>3 DEF TypeOK
<1> QED
  BY <1>1, <1>2, <1>4, <1>5, EmitUpdatesType

\* Every step keeps the types.
LEMMA TypeStep ==
  ASSUME TypeOK, SocketsInv, [Next]_vars
  PROVE  TypeOK'
<1>1. ASSUME NEW c \in Client, HandleConnect(c)
      PROVE  TypeOK'
  <2> DEFINE s == <<c, conns[c] + 1>>
             hello == <<Msg("join-room", {}), Msg("sync-step-1", StateVector(doc[c]))>>
  <2>1. /\ mounted' = mounted /\ doc' = doc /\ silent' = silent /\ edits' = edits
        /\ joined' = joined /\ roomDoc' = roomDoc /\ restarts' = restarts
        /\ conns' = [conns EXCEPT ![c] = @ + 1] /\ conns[c] < MaxConn[c]
        /\ up' = [up EXCEPT ![c] = TRUE]
        /\ synced' = [synced EXCEPT ![c] = FALSE]
        /\ sendBuffer' = [sendBuffer EXCEPT ![c] = <<>>]
        /\ open' = open \cup {s}
        /\ c2s' = [c2s EXCEPT ![s] = sendBuffer[c] \o hello]
        /\ s2c' = [s2c EXCEPT ![s] = <<>>]
    BY <1>1 DEF HandleConnect
  <2>2. conns[c] + 1 \in 1 .. MaxConn[c] /\ s \in Socket
    <3>1. conns[c] + 1 \in 1 .. MaxConn[c]
      <4>1. conns[c] < MaxConn[c] /\ conns[c] \in Nat /\ MaxConn[c] \in Nat
        BY <1>1, MaxConnAssumption DEF HandleConnect, TypeOK
      <4> QED
        BY <4>1
    <3> QED
      BY <3>1, SocketShape
  <2>3. hello \in Seq(Message)
    <3>1. Msg("join-room", {}) \in Message
      BY MsgType DEF MessageType
    <3>2. Msg("sync-step-1", StateVector(doc[c])) \in Message
      BY StateVectorWithin, MsgType DEF MessageType, TypeOK
    <3> QED
      BY <3>1, <3>2
  <2> HIDE DEF s, hello
  <2>4. sendBuffer[c] \o hello \in Seq(Message)
    BY <2>3, ConcatProperties DEF TypeOK
  <2>5. c2s' \in [Socket -> Seq(Message)]
    BY <2>1, <2>4 DEF TypeOK
  <2>6. conns' \in [Client -> Nat] /\ \A x \in Client : conns'[x] <= MaxConn[x]
    BY <2>1, <2>2, MaxConnAssumption DEF TypeOK
  <2>7. s2c' \in [Socket -> Seq(Message)] /\ sendBuffer' \in [Client -> Seq(Message)]
    <3>1. s2c \in [Socket -> Seq(Message)] /\ sendBuffer \in [Client -> Seq(Message)]
      BY DEF TypeOK
    <3> QED
      BY <2>1, <3>1, EmptiedType
  <2> QED
    BY <2>1, <2>2, <2>5, <2>6, <2>7 DEF TypeOK
<1>2. ASSUME NEW c \in Client, HandleDisconnect(c)
      PROVE  TypeOK'
  <2>1. s2c' \in [Socket -> Seq(Message)]
    BY <1>2, EmptiedType DEF HandleDisconnect, TypeOK
  <2> QED
    BY <1>2, <2>1 DEF HandleDisconnect, TypeOK, serverVars
<1>3. ASSUME NEW c \in Client, Cleanup(c)
      PROVE  TypeOK'
  <2>1. s2c' \in [Socket -> Seq(Message)] /\ sendBuffer' \in [Client -> Seq(Message)]
    BY <1>3, EmptiedType DEF Cleanup, TypeOK
  <2> QED
    BY <1>3, <2>1 DEF Cleanup, TypeOK, serverVars
<1>4. ASSUME NEW c \in Client, Type(c)
      PROVE  TypeOK'
  <2>1. PICK k \in 1 .. MaxClock : LocalChange(c, {Ins(c, k)})
    BY <1>4 DEF Type
  <2>2. {Ins(c, k)} \in SUBSET Fact
    BY DEF Ins, Fact
  <2> QED
    BY <2>1, <2>2, LocalChangeType
<1>5. ASSUME NEW c \in Client, ClearLocalDoc(c)
      PROVE  TypeOK'
  <2> DEFINE u == {Del(f.author, f.clock) : f \in Text(doc[c])}
  <2>1. Text(doc[c]) \subseteq Fact
    BY DEF Text, StateVector, TypeOK
  <2>2. u \in SUBSET Fact
    BY <2>1 DEF Del, Fact
  <2> QED
    BY <1>5, <2>2, LocalChangeType DEF ClearLocalDoc
<1>6. ASSUME NEW c \in Client, HandleSyncStep1(c)
      PROVE  TypeOK'
  <2>1. up[c] /\ Cur(c) \in Socket
    BY <1>6, CurSocket DEF HandleSyncStep1, ClientReceives
  <2> DEFINE u == EncodeStateAsUpdate(doc[c], Head(s2c[Cur(c)]).data)
  <2>2. u \in SUBSET Fact /\ conns[c] \in Nat
    BY DEF EncodeStateAsUpdate, TypeOK
  <2>3. Emit(c, Copies(conns[c], Msg("sync-step-2", u)))
    BY <1>6 DEF HandleSyncStep1, Providers
  <2> HIDE DEF u
  <2>4. Copies(conns[c], Msg("sync-step-2", u)) \in Seq(Message)
    BY <2>2, MsgType, CopiesSeq DEF MessageType
  <2>5. sendBuffer' \in [Client -> Seq(Message)] /\ c2s' \in [Socket -> Seq(Message)]
    BY <2>3, <2>4, EmitType
  <2>6. s2c' \in [Socket -> Seq(Message)]
    BY <1>6, <2>1, ClientReceivesType DEF HandleSyncStep1
  <2> QED
    BY <1>6, <2>5, <2>6 DEF HandleSyncStep1, TypeOK, serverVars
<1>7. ASSUME NEW c \in Client, HandleSyncStep2(c) \/ HandleSyncUpdate(c)
      PROVE  TypeOK'
  <2>1. PICK type : ClientReceives(c, type)
    BY <1>7 DEF HandleSyncStep2, HandleSyncUpdate
  <2>2. up[c] /\ Cur(c) \in Socket
    BY <2>1, CurSocket DEF ClientReceives
  <2>3. s2c' \in [Socket -> Seq(Message)] /\ Head(s2c[Cur(c)]).data \in SUBSET Fact
    BY <2>1, <2>2, ClientReceivesType DEF Message
  <2>4. /\ doc' \in [Client -> SUBSET Fact]
        /\ sendBuffer' \in [Client -> Seq(Message)]
        /\ c2s' \in [Socket -> Seq(Message)]
    BY <1>7, <2>2, <2>3, ApplyRemoteType DEF HandleSyncStep2, HandleSyncUpdate
  <2>5. synced' \in [Client -> BOOLEAN]
    BY <1>7 DEF HandleSyncStep2, HandleSyncUpdate, TypeOK
  <2> QED
    BY <1>7, <2>3, <2>4, <2>5 DEF HandleSyncStep2, HandleSyncUpdate, TypeOK, serverVars
<1>8. ASSUME NEW s \in Socket, OnJoinRoom(s)
      PROVE  TypeOK'
  <2>1. c2s' \in [Socket -> Seq(Message)]
    BY <1>8, ServerReceivesType DEF OnJoinRoom
  <2>2. Msg("sync-step-1", StateVector(roomDoc)) \in Message
    BY StateVectorWithin, MsgType DEF MessageType, TypeOK
  <2>3. s2c' \in [Socket -> Seq(Message)]
    BY <1>8, <2>2, ServerEmitType DEF OnJoinRoom
  <2> QED
    BY <1>8, <2>1, <2>3 DEF OnJoinRoom, TypeOK, clientVars
<1>9. ASSUME NEW s \in Socket, DropBeforeJoin(s)
      PROVE  TypeOK'
  <2>1. c2s' \in [Socket -> Seq(Message)]
    BY <1>9, ServerReceivesType DEF DropBeforeJoin
  <2> QED
    BY <1>9, <2>1 DEF DropBeforeJoin, TypeOK, clientVars, serverVars
<1>10. ASSUME NEW s \in Socket, OnSyncStep1(s)
       PROVE  TypeOK'
  <2>1. c2s' \in [Socket -> Seq(Message)]
    BY <1>10, ServerReceivesType DEF OnSyncStep1
  <2>2. Msg("sync-step-2", EncodeStateAsUpdate(roomDoc, Head(c2s[s]).data)) \in Message
    BY MsgType DEF MessageType, TypeOK, EncodeStateAsUpdate
  <2>3. s2c' \in [Socket -> Seq(Message)]
    BY <1>10, <2>2, ServerEmitType DEF OnSyncStep1
  <2> QED
    BY <1>10, <2>1, <2>3 DEF OnSyncStep1, TypeOK, clientVars, serverVars
<1>11. ASSUME NEW s \in Socket, OnSyncStep2(s)
       PROVE  TypeOK'
  <2>1. c2s' \in [Socket -> Seq(Message)] /\ Head(c2s[s]).data \in SUBSET Fact
    BY <1>11, ServerReceivesType DEF OnSyncStep2, Message
  <2>2. roomDoc' \in SUBSET Fact
    BY <1>11, <2>1 DEF OnSyncStep2, ApplyUpdate, TypeOK
  <2>3. silent' \in [Client -> SUBSET Fact]
    BY <1>11, <2>1 DEF OnSyncStep2, TypeOK
  <2> QED
    BY <1>11, <2>1, <2>2, <2>3 DEF OnSyncStep2, TypeOK
<1>12. ASSUME NEW s \in Socket, OnSyncUpdate(s)
       PROVE  TypeOK'
  <2>1. c2s' \in [Socket -> Seq(Message)] /\ Head(c2s[s]).data \in SUBSET Fact
    BY <1>12, ServerReceivesType DEF OnSyncUpdate, Message
  <2>2. roomDoc' \in SUBSET Fact
    BY <1>12, <2>1 DEF OnSyncUpdate, ApplyUpdate, TypeOK
  <2>3. Msg("sync-update", Head(c2s[s]).data) \in Message
    BY <2>1, MsgType DEF MessageType
  <2>4. s2c' \in [Socket -> Seq(Message)]
    BY <1>12, <2>3, ServerEmitType DEF OnSyncUpdate
  <2> QED
    BY <1>12, <2>1, <2>2, <2>4 DEF OnSyncUpdate, TypeOK, clientVars
<1>13. ASSUME NEW s \in Socket, OnDisconnect(s)
       PROVE  TypeOK'
  BY <1>13 DEF OnDisconnect, TypeOK, clientVars
<1>14. ASSUME ServerRestart
       PROVE  TypeOK'
  BY <1>14, MaxRestartAssumption DEF ServerRestart, TypeOK, clientVars
<1>15. ASSUME UNCHANGED vars
       PROVE  TypeOK'
  BY <1>15 DEF vars, clientVars, serverVars, TypeOK
<1> QED
  BY <1>1, <1>2, <1>3, <1>4, <1>5, <1>6, <1>7, <1>8, <1>9, <1>10, <1>11, <1>12, <1>13,
     <1>14, <1>15
     DEF Next, ClientNext, ClientStep, ServerNext, ServerStep

-----------------------------------------------------------------------------
(* Sockets.                                                                *)

\* Sockets of different clients differ.
LEMMA CurDiffer == \A c, x \in Client : c # x => Cur(c) # Cur(x)
BY DEF Cur

\* Every step keeps the relation between connections and sockets.
LEMMA SocketsStep ==
  ASSUME TypeOK, SocketsInv, [Next]_vars
  PROVE  SocketsInv'
<1>1. ASSUME NEW c \in Client, HandleConnect(c)
      PROVE  SocketsInv'
  <2>1. /\ joined' = joined /\ open' = open \cup {<<c, conns[c] + 1>>}
        /\ conns' = [conns EXCEPT ![c] = @ + 1]
        /\ up' = [up EXCEPT ![c] = TRUE]
    BY <1>1 DEF HandleConnect
  <2>2. \A s \in open : s[1] \in Client /\ s[2] \in Nat
    BY SocketShape DEF TypeOK
  <2>3. \A x \in Client : conns[x] \in Nat /\ conns'[x] \in Nat /\ conns[x] <= conns'[x]
    BY <2>1 DEF TypeOK
  <2>4. \A s \in open' : s[2] <= conns'[s[1]]
    <3>1. ASSUME NEW s \in open
          PROVE  s[2] <= conns'[s[1]]
      BY <2>2, <2>3 DEF SocketsInv
    <3>2. <<c, conns[c] + 1>>[2] <= conns'[<<c, conns[c] + 1>>[1]]
      BY <2>1, <2>3 DEF TypeOK
    <3> QED
      BY <2>1, <3>1, <3>2
  <2>5. \A x \in Client : up'[x] => conns'[x] >= 1
    BY <2>1, <2>3 DEF SocketsInv, TypeOK
  <2> QED
    BY <2>1, <2>4, <2>5 DEF SocketsInv
<1>2. ASSUME NEW c \in Client, HandleDisconnect(c) \/ Cleanup(c)
      PROVE  SocketsInv'
  BY <1>2 DEF HandleDisconnect, Cleanup, SocketsInv, TypeOK, serverVars
<1>3. ASSUME NEW c \in Client, Type(c) \/ ClearLocalDoc(c) \/ ClientStep(c)
      PROVE  UNCHANGED <<conns, up, open, joined>>
  BY <1>3 DEF Type, ClearLocalDoc, LocalChange, ClientStep, HandleSyncStep1, HandleSyncStep2,
              HandleSyncUpdate, serverVars
<1>4. ASSUME NEW s \in Socket, OnJoinRoom(s)
      PROVE  SocketsInv'
  BY <1>4 DEF OnJoinRoom, ServerReceives, SocketsInv, clientVars
<1>5. ASSUME NEW s \in Socket,
             DropBeforeJoin(s) \/ OnSyncStep1(s) \/ OnSyncStep2(s) \/ OnSyncUpdate(s)
      PROVE  UNCHANGED <<conns, up, open, joined>>
  BY <1>5 DEF DropBeforeJoin, OnSyncStep1, OnSyncStep2, OnSyncUpdate, clientVars, serverVars
<1>6. ASSUME NEW s \in Socket, OnDisconnect(s)
      PROVE  SocketsInv'
  BY <1>6 DEF OnDisconnect, SocketsInv, clientVars
<1>7. ASSUME ServerRestart
      PROVE  SocketsInv'
  BY <1>7 DEF ServerRestart, SocketsInv, clientVars
<1>8. ASSUME UNCHANGED <<conns, up, open, joined>>
      PROVE  SocketsInv'
  BY <1>8 DEF SocketsInv
<1> QED
  BY <1>1, <1>2, <1>3, <1>4, <1>5, <1>6, <1>7, <1>8
     DEF Next, ClientNext, ServerNext, ServerStep, vars, clientVars, serverVars

-----------------------------------------------------------------------------
(* Synchronisation: how a step affects the invariant of one client.        *)

\* A step that leaves alone what the client and the server hold for x.
LEMMA Frame ==
  ASSUME NEW x \in Client, ClientInv(x),
         up'[x] = up[x], conns'[x] = conns[x], doc'[x] = doc[x],
         sendBuffer'[x] = sendBuffer[x], silent'[x] = silent[x],
         Cur(x) \in open' <=> Cur(x) \in open,
         Cur(x) \in joined' <=> Cur(x) \in joined,
         Cur(x) \in joined => roomDoc' = roomDoc,
         up[x] => c2s'[Cur(x)] = c2s[Cur(x)] /\ s2c'[Cur(x)] = s2c[Cur(x)]
  PROVE  ClientInv(x)'
<1>1. Cur(x)' = Cur(x)
  BY DEF Cur
<1>2. BufferInv(x)'
  BY DEF ClientInv, BufferInv, DataWithin
<1>3. HandshakeInv(x)'
  BY <1>1 DEF ClientInv, HandshakeInv, Joining
<1>4. ChannelInv(x)'
  BY <1>1 DEF ClientInv, ChannelInv, DataWithin, InRoom
<1>5. Covered(x)'
  BY <1>1 DEF ClientInv, Covered, InRoom, Awaiting, Carried
<1>6. OnlySilentMissing(x)'
  BY <1>1 DEF ClientInv, OnlySilentMissing, InRoom, Awaiting, Carried
<1> QED
  BY <1>2, <1>3, <1>4, <1>5, <1>6 DEF ClientInv

\* Nothing but its buffer matters of a client that is not connected.
LEMMA DownInv ==
  ASSUME NEW x \in Client, ~up'[x], BufferInv(x)'
  PROVE  ClientInv(x)'
BY DEF ClientInv, HandshakeInv, ChannelInv, Covered, OnlySilentMissing, InRoom

\* Emitting concerns no other client, ...
LEMMA EmitOthers ==
  ASSUME TypeOK, NEW c \in Client, NEW ms, Emit(c, ms), NEW x \in Client, x # c
  PROVE  /\ Cur(x) \in Socket => c2s'[Cur(x)] = c2s[Cur(x)]
         /\ sendBuffer'[x] = sendBuffer[x]
<1>1. Cur(x) # Cur(c)
  BY CurDiffer
<1>2. c2s \in [Socket -> Seq(Message)] /\ sendBuffer \in [Client -> Seq(Message)]
  BY DEF TypeOK
<1>3. CASE up[c]
  BY <1>1, <1>2, <1>3 DEF Emit
<1>4. CASE ~up[c]
  BY <1>1, <1>2, <1>4 DEF Emit
<1> QED
  BY <1>3, <1>4

\* ... and appends to one channel, or to the buffer.
LEMMA EmitSelf ==
  ASSUME TypeOK, NEW c \in Client, NEW ms, Emit(c, ms)
  PROVE  /\ up[c] => sendBuffer' = sendBuffer
         /\ up[c] /\ Cur(c) \in open => c2s'[Cur(c)] = c2s[Cur(c)] \o ms
         /\ up[c] /\ Cur(c) \notin open => c2s'[Cur(c)] = c2s[Cur(c)]
         /\ ~up[c] => sendBuffer'[c] = sendBuffer[c] \o ms
BY DEF Emit, TypeOK

\* A connected client emits ms while its document grows to new and its
\* incoming channel possibly loses its head.
LEMMA ClientActs ==
  ASSUME TypeOK, SocketsInv, NEW c \in Client, ClientInv(c), up[c],
         NEW new, NEW ms \in Seq(Message), Emit(c, ms),
         doc' = [doc EXCEPT ![c] = new], doc[c] \subseteq new,
         DataWithin(ms, new), ~Awaiting(ms, "sync-step-1"),
         UNCHANGED <<conns, up, silent, open, joined, roomDoc>>,
         InRoom(c) => DataWithin(s2c'[Cur(c)], roomDoc),
         Cur(c) \in open \ joined => s2c'[Cur(c)] = <<>>,
         InRoom(c) /\ ~Awaiting(s2c'[Cur(c)], "sync-step-1")
           => new \subseteq roomDoc \cup Carried(c2s[Cur(c)]) \cup Carried(ms),
         InRoom(c) /\ ~Awaiting(c2s[Cur(c)], "sync-step-1")
           => roomDoc \subseteq new \cup Carried(s2c'[Cur(c)]) \cup silent[c]
  PROVE  ClientInv(c)'
<1> DEFINE q == c2s[Cur(c)]
<1>1. /\ Cur(c)' = Cur(c)
      /\ Cur(c) \in Socket
      /\ InRoom(c)' <=> InRoom(c)
      /\ InRoom(c) => Cur(c) \in open
  BY CurSocket DEF Cur, InRoom, SocketsInv
<1>2. q \in Seq(Message) /\ doc'[c] = new
  BY <1>1 DEF TypeOK
<1>3. /\ sendBuffer' = sendBuffer
      /\ Cur(c) \in open => c2s'[Cur(c)] = q \o ms
      /\ Cur(c) \notin open => c2s'[Cur(c)] = q
  BY EmitSelf
<1>4. /\ Carried(q \o ms) = Carried(q) \cup Carried(ms)
      /\ Awaiting(q \o ms, "sync-step-1") <=> Awaiting(q, "sync-step-1")
      /\ DataWithin(q \o ms, new) <=> DataWithin(q, new)
  BY <1>2, ConcatChannel
<1>5. BufferInv(c)'
  <2>1. BufferInv(c)
    BY DEF ClientInv
  <2> QED
    BY <1>2, <1>3, <2>1 DEF BufferInv, DataWithin
<1>6. HandshakeInv(c)'
  <2>1. ASSUME Cur(c) \in open, Cur(c) \notin joined
        PROVE  Joining(c2s'[Cur(c)])
    BY <1>2, <1>3, <2>1, JoiningConcat DEF ClientInv, HandshakeInv
  <2> QED
    BY <1>1, <2>1 DEF HandshakeInv, Joining
<1>7. ChannelInv(c)'
  <2>1. DataWithin(q, new)
    BY DataWithinGrows DEF ClientInv, ChannelInv
  <2>2. DataWithin(c2s'[Cur(c)], new)
    BY <1>3, <1>4, <2>1
  <2> QED
    BY <1>1, <1>2, <2>2 DEF ChannelInv, DataWithin
<1>8. Covered(c)'
  <2>1. ASSUME InRoom(c), ~Awaiting(s2c'[Cur(c)], "sync-step-1")
        PROVE  doc'[c] \subseteq roomDoc' \cup Carried(c2s'[Cur(c)])
    BY <1>1, <1>2, <1>3, <1>4, <2>1
  <2> QED
    BY <1>1, <2>1 DEF Covered, Awaiting, Carried
<1>9. OnlySilentMissing(c)'
  <2>1. ASSUME InRoom(c), ~Awaiting(c2s'[Cur(c)], "sync-step-1")
        PROVE  roomDoc' \subseteq doc'[c] \cup Carried(s2c'[Cur(c)]) \cup silent'[c]
    BY <1>1, <1>2, <1>3, <1>4, <2>1
  <2> QED
    BY <1>1, <2>1 DEF OnlySilentMissing, Awaiting, Carried
<1> QED
  BY <1>5, <1>6, <1>7, <1>8, <1>9 DEF ClientInv

\* A local transaction: the new facts are in effect at once, so the update
\* event carries them all.
LEMMA LocalChangeInv ==
  ASSUME TypeOK, SocketsInv, NEW c \in Client, ClientInv(c),
         NEW u \in SUBSET Fact, LocalChange(c, u),
         u \ doc[c] \subseteq UpdateEvent(doc[c], doc[c] \cup u)
  PROVE  ClientInv(c)'
<1> DEFINE new == doc[c] \cup u
           m == Msg("sync-update", UpdateEvent(doc[c], new))
           ms == Copies(conns[c], m)
<1>1. /\ doc' = [doc EXCEPT ![c] = new] /\ Emit(c, ms)
      /\ UNCHANGED <<conns, up, silent, open, joined, roomDoc, s2c>>
  BY DEF LocalChange, ApplyUpdate, Providers, serverVars
<1>2. UpdateEvent(doc[c], new) \subseteq new /\ new \subseteq Fact
  BY UpdateEventWithin DEF TypeOK
<1>3. m \in Message /\ IsUpdate(m) /\ m.data = UpdateEvent(doc[c], new) /\ m.type = "sync-update"
  BY <1>2, MsgType DEF MessageType, IsUpdate
<1>4. conns[c] \in Nat /\ (up[c] => conns[c] > 0)
  BY DEF TypeOK, SocketsInv
<1>5. u \ doc[c] \subseteq m.data /\ m.data \subseteq new /\ doc[c] \subseteq new
      /\ new = doc[c] \cup (u \ doc[c])
  BY <1>2, <1>3
<1> HIDE DEF m, new
<1>6. /\ ms \in Seq(Message)
      /\ conns[c] > 0 => Carried(ms) = m.data
      /\ ~Awaiting(ms, "sync-step-1")
      /\ DataWithin(ms, new)
      /\ \A i \in 1 .. Len(ms) : ms[i] = m
  BY <1>3, <1>4, <1>5, CopiesChannel, CopiesSeq
<1> HIDE DEF ms
<1>7. CASE up[c]
  <2>1. InRoom(c) => DataWithin(s2c'[Cur(c)], roomDoc)
    BY <1>1 DEF ClientInv, ChannelInv
  <2>2. Cur(c) \in open \ joined => s2c'[Cur(c)] = <<>>
    BY <1>1, <1>7 DEF ClientInv, HandshakeInv
  <2>3. InRoom(c) /\ ~Awaiting(s2c'[Cur(c)], "sync-step-1")
          => new \subseteq roomDoc \cup Carried(c2s[Cur(c)]) \cup Carried(ms)
    BY <1>1, <1>4, <1>5, <1>6, <1>7 DEF ClientInv, Covered
  <2>4. InRoom(c) /\ ~Awaiting(c2s[Cur(c)], "sync-step-1")
          => roomDoc \subseteq new \cup Carried(s2c'[Cur(c)]) \cup silent[c]
    BY <1>1, <1>5 DEF ClientInv, OnlySilentMissing
  <2> QED
    BY <1>1, <1>5, <1>6, <1>7, <2>1, <2>2, <2>3, <2>4, ClientActs
<1>8. CASE ~up[c]
  <2>1. sendBuffer'[c] = sendBuffer[c] \o ms /\ ~up'[c] /\ doc'[c] = new
    BY <1>1, <1>8, EmitSelf DEF TypeOK
  <2>2. sendBuffer[c] \in Seq(Message) /\ BufferInv(c)
    BY DEF TypeOK, ClientInv
  <2>3. DataWithin(sendBuffer[c] \o ms, new)
    BY <1>5, <1>6, <2>2, ConcatChannel, DataWithinGrows DEF BufferInv
  <2>4. \A i \in 1 .. Len(sendBuffer[c] \o ms) : (sendBuffer[c] \o ms)[i].type = "sync-update"
    <3>1. \A i \in 1 .. Len(sendBuffer[c]) : sendBuffer[c][i].type = "sync-update"
      BY <2>2 DEF BufferInv
    <3>2. \A i \in 1 .. Len(ms) : ms[i].type = "sync-update"
      BY <1>3, <1>6
    <3>3. Len(sendBuffer[c]) \in Nat /\ Len(ms) \in Nat
      BY <1>6, <2>2, LenProperties
    <3> QED
      BY <1>6, <2>2, <3>1, <3>2, <3>3, ConcatProperties
  <2>5. BufferInv(c)'
    BY <2>1, <2>3, <2>4 DEF BufferInv, DataWithin
  <2> QED
    BY <2>1, <2>5, DownInv
<1> QED
  BY <1>7, <1>8

\* Typing appends the author's next struct, which takes effect at once.
LEMMA TypeInv ==
  ASSUME TypeOK, SocketsInv, NEW c \in Client, ClientInv(c), Type(c)
  PROVE  ClientInv(c)'
<1>1. PICK k \in 1 .. MaxClock :
        /\ Ins(c, k) \notin doc[c]
        /\ \A j \in 1 .. k - 1 : Ins(c, j) \in doc[c]
        /\ LocalChange(c, {Ins(c, k)})
  BY DEF Type
<1> DEFINE u == {Ins(c, k)}
           new == doc[c] \cup u
<1>2. u \in SUBSET Fact
  BY DEF Ins, Fact
<1>3. Ins(c, k).kind = "ins" /\ Ins(c, k).author = c /\ Ins(c, k).clock = k
  BY DEF Ins
<1>4. \A j \in 1 .. k : Ins(c, j) \in new
  <2>1. \A j \in 1 .. k : j = k \/ j \in 1 .. k - 1
    BY MaxClockAssumption
  <2> QED
    BY <1>1, <2>1
<1>5. Ins(c, k) \in StateVector(new)
  BY <1>3, <1>4 DEF StateVector
<1>6. Ins(c, k) \notin Integrated(doc[c])
  BY <1>1, StateVectorWithin DEF Integrated
<1>7. u \ doc[c] \subseteq UpdateEvent(doc[c], new)
  BY <1>5, <1>6 DEF UpdateEvent, Integrated
<1> QED
  BY <1>1, <1>2, <1>7, LocalChangeInv

\* So do the deletions of clearLocalDoc: what they delete is visible.
LEMMA ClearLocalDocInv ==
  ASSUME TypeOK, SocketsInv, NEW c \in Client, ClientInv(c), ClearLocalDoc(c)
  PROVE  ClientInv(c)'
<1> DEFINE u == {Del(f.author, f.clock) : f \in Text(doc[c])}
           new == doc[c] \cup u
<1>1. LocalChange(c, u)
  BY DEF ClearLocalDoc
<1>2. Text(doc[c]) \subseteq Fact /\ Text(doc[c]) \subseteq StateVector(doc[c])
  BY DEF Text, StateVector, TypeOK
<1>3. u \in SUBSET Fact
  BY <1>2 DEF Del, Fact
<1>4. StateVector(doc[c]) \subseteq StateVector(new)
  BY DEF StateVector
<1>5. ASSUME NEW f \in Text(doc[c])
      PROVE  Del(f.author, f.clock) \in UpdateEvent(doc[c], new)
  <2> DEFINE g == Del(f.author, f.clock)
  <2>1. g \in new /\ g.kind = "del" /\ g.author = f.author /\ g.clock = f.clock
    BY <1>5 DEF Del
  <2>2. f \in Fact /\ f.kind = "ins" /\ f \in StateVector(new) /\ g \notin doc[c]
    BY <1>2, <1>4, <1>5 DEF Text, StateVector
  <2>3. Ins(g.author, g.clock) = f
    BY <2>1, <2>2 DEF Ins, Fact
  <2>4. g \in Integrated(new)
    BY <2>1, <2>2, <2>3 DEF Integrated
  <2>5. g \notin Integrated(doc[c])
    BY <2>2, StateVectorWithin DEF Integrated
  <2> QED
    BY <2>4, <2>5 DEF UpdateEvent
<1>6. u \ doc[c] \subseteq UpdateEvent(doc[c], new)
  BY <1>5
<1> QED
  BY <1>1, <1>3, <1>6, LocalChangeInv

\* Answering the server's state vector: the vector stands for facts of the
\* room, so the answer completes the room.
LEMMA HandleSyncStep1Inv ==
  ASSUME TypeOK, SocketsInv, NEW c \in Client, ClientInv(c), HandleSyncStep1(c)
  PROVE  ClientInv(c)'
<1> DEFINE q == s2c[Cur(c)]
           h == Head(q)
           u == EncodeStateAsUpdate(doc[c], h.data)
           m == Msg("sync-step-2", u)
           ms == Copies(conns[c], m)
<1>1. /\ up[c] /\ q # <<>> /\ h.type = "sync-step-1"
      /\ s2c' = [s2c EXCEPT ![Cur(c)] = Tail(q)]
      /\ Emit(c, ms)
      /\ UNCHANGED <<doc, conns, up, silent, open, joined, roomDoc>>
  BY DEF HandleSyncStep1, ClientReceives, Providers, serverVars
<1>2. Cur(c) \in Socket /\ q \in Seq(Message) /\ s2c'[Cur(c)] = Tail(q)
  BY <1>1, CurSocket DEF TypeOK
<1>3. u \subseteq doc[c] /\ doc[c] \subseteq h.data \cup u /\ doc[c] \subseteq Fact
  BY DEF EncodeStateAsUpdate, TypeOK
<1> HIDE DEF u
<1>4. m \in Message /\ IsUpdate(m) /\ m.data = u
  BY <1>3, MsgType DEF MessageType, IsUpdate
<1>5. conns[c] \in Nat /\ conns[c] > 0
  BY <1>1 DEF TypeOK, SocketsInv
<1> HIDE DEF m
<1>6. /\ ms \in Seq(Message) /\ Carried(ms) = u
      /\ ~Awaiting(ms, "sync-step-1") /\ DataWithin(ms, doc[c])
  BY <1>3, <1>4, <1>5, CopiesChannel
<1>7. /\ Carried(q) = Carried(Tail(q))
      /\ \A d : DataWithin(q, d) <=> DataWithin(Tail(q), d) /\ h.data \subseteq d
  <2> HIDE DEF q
  <2>1. ~IsUpdate(h)
    BY <1>1 DEF IsUpdate
  <2>2. /\ Carried(q) = Carried(Tail(q)) \cup IF IsUpdate(h) THEN h.data ELSE {}
        /\ \A d : DataWithin(q, d) <=> DataWithin(Tail(q), d) /\ h.data \subseteq d
    BY <1>1, <1>2, TailChannel
  <2> QED
    BY <2>1, <2>2
<1> HIDE DEF ms, q, h
<1>8. InRoom(c) => DataWithin(q, roomDoc)
  BY DEF ClientInv, ChannelInv, q
<1>9. InRoom(c) => DataWithin(s2c'[Cur(c)], roomDoc) /\ h.data \subseteq roomDoc
  BY <1>2, <1>7, <1>8
<1>10. ~(Cur(c) \in open \ joined)
  BY <1>1 DEF ClientInv, HandshakeInv, q
<1>11. InRoom(c) => doc[c] \subseteq roomDoc \cup Carried(c2s[Cur(c)]) \cup Carried(ms)
  BY <1>3, <1>6, <1>9
<1>12. InRoom(c) /\ ~Awaiting(c2s[Cur(c)], "sync-step-1")
         => roomDoc \subseteq doc[c] \cup Carried(s2c'[Cur(c)]) \cup silent[c]
  BY <1>2, <1>7 DEF ClientInv, OnlySilentMissing, q
<1>13. doc' = [doc EXCEPT ![c] = doc[c]]
  BY <1>1 DEF TypeOK
<1> QED
  BY <1>1, <1>6, <1>9, <1>10, <1>11, <1>12, <1>13, ClientActs

\* Applying what the server sent: the room has it, so that echoing less than
\* all of it loses nothing.
LEMMA RemoteInv ==
  ASSUME TypeOK, SocketsInv, NEW c \in Client, ClientInv(c),
         HandleSyncStep2(c) \/ HandleSyncUpdate(c)
  PROVE  ClientInv(c)'
<1> DEFINE q == s2c[Cur(c)]
           h == Head(q)
           new == doc[c] \cup h.data
           event == UpdateEvent(doc[c], new)
           n == IF event = {} THEN 0 ELSE conns[c] - 1
           ms == Copies(n, Msg("sync-update", event))
<1>1. /\ up[c] /\ q # <<>> /\ IsUpdate(h)
      /\ s2c' = [s2c EXCEPT ![Cur(c)] = Tail(q)]
      /\ UNCHANGED <<conns, up, silent, open, joined, roomDoc>>
  BY DEF HandleSyncStep2, HandleSyncUpdate, ClientReceives, IsUpdate, serverVars
<1>2. doc' = [doc EXCEPT ![c] = new] /\ Emit(c, ms)
  BY DEF HandleSyncStep2, HandleSyncUpdate, ApplyRemote, ApplyUpdate, Providers
<1>3. Cur(c) \in Socket /\ q \in Seq(Message) /\ s2c'[Cur(c)] = Tail(q)
  BY <1>1, CurSocket DEF TypeOK
<1>4. /\ Carried(q) = Carried(Tail(q)) \cup h.data
      /\ \A type : Awaiting(q, type) <=> Awaiting(Tail(q), type) \/ h.type = type
      /\ \A d : DataWithin(q, d) <=> DataWithin(Tail(q), d) /\ h.data \subseteq d
      /\ h \in Message
  BY <1>1, <1>3, TailChannel
<1>5. new \subseteq Fact /\ event \subseteq new /\ event \subseteq Fact
  BY <1>4, UpdateEventWithin DEF TypeOK, Message
<1>6. n \in Nat
  BY <1>1 DEF TypeOK, SocketsInv
<1>7. /\ ms \in Seq(Message)
      /\ ~Awaiting(ms, "sync-step-1") /\ DataWithin(ms, new)
  <2> HIDE DEF event, n
  <2>1. Msg("sync-update", event) \in Message /\ IsUpdate(Msg("sync-update", event))
        /\ Msg("sync-update", event).data = event
    BY <1>5, MsgType DEF MessageType, IsUpdate
  <2> QED
    BY <1>5, <1>6, <2>1, CopiesChannel
<1>8. h.type # "sync-step-1" /\ doc[c] \subseteq new /\ h.data \subseteq new
  BY <1>1 DEF IsUpdate
<1>9. new \subseteq doc[c] \cup h.data
  OBVIOUS
<1> HIDE DEF ms, new, h, q
<1>10. InRoom(c) => DataWithin(q, roomDoc)
  BY DEF ClientInv, ChannelInv, q
<1>11. InRoom(c) => DataWithin(s2c'[Cur(c)], roomDoc) /\ h.data \subseteq roomDoc
  BY <1>3, <1>4, <1>10
<1>12. ~(Cur(c) \in open \ joined)
  BY <1>1 DEF ClientInv, HandshakeInv, q
<1>13. InRoom(c) /\ ~Awaiting(s2c'[Cur(c)], "sync-step-1")
         => new \subseteq roomDoc \cup Carried(c2s[Cur(c)]) \cup Carried(ms)
  <2>1. ~Awaiting(s2c'[Cur(c)], "sync-step-1") => ~Awaiting(q, "sync-step-1")
    BY <1>3, <1>4, <1>8
  <2>2. InRoom(c) /\ ~Awaiting(q, "sync-step-1") => doc[c] \subseteq roomDoc \cup Carried(c2s[Cur(c)])
    BY DEF ClientInv, Covered, q
  <2> QED
    BY <1>9, <1>11, <2>1, <2>2
<1>14. InRoom(c) /\ ~Awaiting(c2s[Cur(c)], "sync-step-1")
         => roomDoc \subseteq new \cup Carried(s2c'[Cur(c)]) \cup silent[c]
  <2>1. InRoom(c) /\ ~Awaiting(c2s[Cur(c)], "sync-step-1")
          => roomDoc \subseteq doc[c] \cup Carried(q) \cup silent[c]
    BY DEF ClientInv, OnlySilentMissing, q
  <2> QED
    BY <1>3, <1>4, <1>8, <2>1
<1> QED
  BY <1>1, <1>2, <1>7, <1>8, <1>11, <1>12, <1>13, <1>14, ClientActs

\* A new connection: the channel starts with the buffered updates and the
\* handshake; the new socket has not joined.
LEMMA HandleConnectInv ==
  ASSUME TypeOK, SocketsInv, NEW c \in Client, ClientInv(c), HandleConnect(c)
  PROVE  ClientInv(c)'
<1> DEFINE s == <<c, conns[c] + 1>>
           m == Msg("join-room", {})
           n == Msg("sync-step-1", StateVector(doc[c]))
           hello == <<m, n>>
<1>1. /\ doc' = doc /\ joined' = joined /\ roomDoc' = roomDoc
      /\ conns' = [conns EXCEPT ![c] = @ + 1] /\ conns[c] < MaxConn[c]
      /\ sendBuffer' = [sendBuffer EXCEPT ![c] = <<>>]
      /\ c2s' = [c2s EXCEPT ![s] = sendBuffer[c] \o hello]
      /\ s2c' = [s2c EXCEPT ![s] = <<>>]
  BY DEF HandleConnect
<1>2. conns[c] + 1 \in 1 .. MaxConn[c] /\ conns'[c] = conns[c] + 1
  <2>1. conns[c] \in Nat /\ MaxConn[c] \in Nat /\ conns'[c] = conns[c] + 1
    BY <1>1, MaxConnAssumption DEF TypeOK
  <2> QED
    BY <1>1, <2>1
<1>3. s \in Socket /\ Cur(c)' = s
  BY <1>2, SocketShape DEF Cur
<1>4. s \notin joined
  BY <1>2 DEF SocketsInv, TypeOK
<1>5. c2s'[s] = sendBuffer[c] \o hello /\ s2c'[s] = <<>> /\ sendBuffer'[c] = <<>>
  BY <1>1, <1>3 DEF TypeOK
<1>6. /\ m \in Message /\ m.type = "join-room" /\ m.data = {}
      /\ n \in Message /\ n.type = "sync-step-1" /\ n.data \subseteq doc[c]
  <2>1. StateVector(doc[c]) \in SUBSET Fact
    BY StateVectorWithin DEF TypeOK
  <2> QED
    BY <2>1, StateVectorWithin, MsgType DEF MessageType
<1> HIDE DEF m, n
<1>7. hello \in Seq(Message) /\ DataWithin(hello, doc[c])
  BY <1>6 DEF DataWithin
<1>8. sendBuffer[c] \in Seq(Message) /\ BufferInv(c)
  BY DEF TypeOK, ClientInv
<1>9. DataWithin(c2s'[s], doc[c])
  BY <1>5, <1>7, <1>8, ConcatChannel DEF BufferInv
<1>10. Joining(c2s'[s])
  BY <1>5, <1>6, <1>8, JoiningStarts DEF BufferInv
<1>11. BufferInv(c)'
  BY <1>5 DEF BufferInv, DataWithin
<1>12. HandshakeInv(c)'
  BY <1>3, <1>5, <1>10 DEF HandshakeInv, Joining
<1>13. ~InRoom(c)'
  BY <1>1, <1>3, <1>4 DEF InRoom
<1>14. ChannelInv(c)'
  BY <1>1, <1>3, <1>9, <1>13 DEF ChannelInv, DataWithin
<1> QED
  BY <1>11, <1>12, <1>13, <1>14 DEF ClientInv, Covered, OnlySilentMissing

\* The actions of one client preserve the invariant of every client.
LEMMA ClientNextInv ==
  ASSUME TypeOK, SocketsInv, NEW c \in Client, ClientNext(c),
         NEW x \in Client, ClientInv(x)
  PROVE  ClientInv(x)'
<1>1. CASE x # c
  <2>1. Cur(x) # Cur(c) /\ Cur(x) # <<c, conns[c] + 1>>
    BY <1>1 DEF Cur
  <2>2. up[x] => Cur(x) \in Socket
    BY CurSocket
  <2>3. ASSUME HandleConnect(c)
        PROVE  ClientInv(x)'
    <3>1. up'[x] = up[x] /\ conns'[x] = conns[x] /\ sendBuffer'[x] = sendBuffer[x]
      BY <1>1, <2>3 DEF HandleConnect, TypeOK
    <3>2. up[x] => c2s'[Cur(x)] = c2s[Cur(x)] /\ s2c'[Cur(x)] = s2c[Cur(x)]
      BY <2>1, <2>2, <2>3 DEF HandleConnect, TypeOK
    <3>3. /\ doc' = doc /\ silent' = silent /\ joined' = joined /\ roomDoc' = roomDoc
          /\ open' = open \cup {<<c, conns[c] + 1>>}
      BY <2>3 DEF HandleConnect
    <3> QED
      BY <2>1, <3>1, <3>2, <3>3, Frame
  <2>4. ASSUME HandleDisconnect(c) \/ Cleanup(c)
        PROVE  ClientInv(x)'
    <3>1. /\ up'[x] = up[x] /\ conns'[x] = conns[x] /\ sendBuffer'[x] = sendBuffer[x]
          /\ doc'[x] = doc[x] /\ silent'[x] = silent[x]
      BY <1>1, <2>4 DEF HandleDisconnect, Cleanup, TypeOK
    <3>2. up[x] => c2s'[Cur(x)] = c2s[Cur(x)] /\ s2c'[Cur(x)] = s2c[Cur(x)]
      BY <2>1, <2>2, <2>4 DEF HandleDisconnect, Cleanup, TypeOK
    <3>3. joined' = joined /\ roomDoc' = roomDoc /\ open' = open
      BY <2>4 DEF HandleDisconnect, Cleanup, serverVars
    <3> QED
      BY <3>1, <3>2, <3>3, Frame
  <2>5. ASSUME NEW u, LocalChange(c, u)
        PROVE  ClientInv(x)'
    <3>1. PICK ms : Emit(c, ms)
      BY <2>5 DEF LocalChange
    <3>2. doc'[x] = doc[x]
      BY <1>1, <2>5 DEF LocalChange, TypeOK
    <3>3. sendBuffer'[x] = sendBuffer[x] /\ (up[x] => c2s'[Cur(x)] = c2s[Cur(x)])
      BY <1>1, <2>2, <3>1, EmitOthers
    <3>4. UNCHANGED <<conns, up, silent, open, joined, roomDoc, s2c>>
      BY <2>5 DEF LocalChange, serverVars
    <3> QED
      BY <3>2, <3>3, <3>4, Frame
  <2>6. ASSUME ClientStep(c)
        PROVE  ClientInv(x)'
    <3>1. PICK ms : Emit(c, ms)
      BY <2>6 DEF ClientStep, HandleSyncStep1, HandleSyncStep2, HandleSyncUpdate, ApplyRemote
    <3>2. doc'[x] = doc[x]
      BY <1>1, <2>6 DEF ClientStep, HandleSyncStep1, HandleSyncStep2, HandleSyncUpdate,
                        ApplyRemote, TypeOK
    <3>3. sendBuffer'[x] = sendBuffer[x] /\ (up[x] => c2s'[Cur(x)] = c2s[Cur(x)])
      BY <1>1, <2>2, <3>1, EmitOthers
    <3>4. UNCHANGED <<conns, up, silent, open, joined, roomDoc>>
      BY <2>6 DEF ClientStep, HandleSyncStep1, HandleSyncStep2, HandleSyncUpdate, serverVars
    <3>5. s2c' = [s2c EXCEPT ![Cur(c)] = Tail(@)]
      BY <2>6 DEF ClientStep, HandleSyncStep1, HandleSyncStep2, HandleSyncUpdate, ClientReceives
    <3>6. up[x] => s2c'[Cur(x)] = s2c[Cur(x)]
      BY <2>1, <2>2, <3>5 DEF TypeOK
    <3> QED
      BY <3>2, <3>3, <3>4, <3>6, Frame
  <2> QED
    BY <2>3, <2>4, <2>5, <2>6 DEF ClientNext, Type, ClearLocalDoc
<1>2. CASE x = c
  <2>1. ASSUME HandleDisconnect(c) \/ Cleanup(c)
        PROVE  ClientInv(c)'
    <3>1. ~up'[c]
      BY <2>1 DEF HandleDisconnect, Cleanup, TypeOK
    <3>2. \/ sendBuffer'[c] = sendBuffer[c] /\ doc'[c] = doc[c]
          \/ sendBuffer'[c] = <<>>
      BY <2>1 DEF HandleDisconnect, Cleanup, TypeOK
    <3>3. BufferInv(c)'
      BY <1>2, <3>2 DEF ClientInv, BufferInv, DataWithin
    <3> QED
      BY <3>1, <3>3, DownInv
  <2> QED
    BY <1>2, <2>1, HandleConnectInv, TypeInv, ClearLocalDocInv, HandleSyncStep1Inv, RemoteInv
       DEF ClientNext, ClientStep
<1> QED
  BY <1>1, <1>2

-----------------------------------------------------------------------------
(* Synchronisation: the server's steps.                                    *)

\* What the server takes from the channel of s.
LEMMA Received ==
  ASSUME TypeOK, NEW s \in Socket, NEW type, ServerReceives(s, type)
  PROVE  /\ s \in open /\ Head(c2s[s]).type = type
         /\ c2s[s] \in Seq(Message) /\ c2s[s] # <<>>
         /\ c2s'[s] = Tail(c2s[s])
         /\ \A r \in Socket : r # s => c2s'[r] = c2s[r]
BY DEF ServerReceives, TypeOK

\* A server step that leaves x alone: x is not connected, or it is and its
\* channels and its membership stay.
LEMMA ServerFrame ==
  ASSUME TypeOK, SocketsInv, NEW x \in Client, ClientInv(x),
         UNCHANGED <<conns, up, doc, sendBuffer>>,
         up[x] => /\ silent'[x] = silent[x]
                  /\ c2s'[Cur(x)] = c2s[Cur(x)] /\ s2c'[Cur(x)] = s2c[Cur(x)]
                  /\ Cur(x) \in open' <=> Cur(x) \in open
                  /\ Cur(x) \in joined' <=> Cur(x) \in joined
                  /\ Cur(x) \in joined => roomDoc' = roomDoc
  PROVE  ClientInv(x)'
<1>1. CASE ~up[x]
  BY <1>1, DownInv DEF ClientInv, BufferInv, DataWithin
<1>2. CASE up[x]
  <2>1. Cur(x)' = Cur(x) /\ up'[x] = up[x]
    BY DEF Cur
  <2>2. BufferInv(x)'
    BY DEF ClientInv, BufferInv, DataWithin
  <2>3. HandshakeInv(x)'
    BY <1>2, <2>1 DEF ClientInv, HandshakeInv, Joining
  <2>4. ChannelInv(x)'
    BY <1>2, <2>1 DEF ClientInv, ChannelInv, DataWithin, InRoom
  <2>5. Covered(x)'
    BY <1>2, <2>1 DEF ClientInv, Covered, InRoom, Awaiting, Carried
  <2>6. OnlySilentMissing(x)'
    BY <1>2, <2>1 DEF ClientInv, OnlySilentMissing, InRoom, Awaiting, Carried
  <2> QED
    BY <2>2, <2>3, <2>4, <2>5, <2>6 DEF ClientInv
<1> QED
  BY <1>1, <1>2

\* join-room: the client has not been sent anything before, and the server's
\* sync-step-1 and the client's own are now under way.
LEMMA OnJoinRoomInv ==
  ASSUME TypeOK, SocketsInv, NEW s \in Socket, OnJoinRoom(s),
         NEW x \in Client, ClientInv(x)
  PROVE  ClientInv(x)'
<1> DEFINE m == Msg("sync-step-1", StateVector(roomDoc))
<1>1. /\ joined' = joined \cup {s}
      /\ ServerEmit({s}, m)
      /\ UNCHANGED <<conns, up, doc, sendBuffer, silent, open, roomDoc>>
  BY DEF OnJoinRoom, clientVars
<1>2. /\ Head(c2s[s]).type = "join-room"
      /\ s \in open /\ c2s[s] \in Seq(Message) /\ c2s[s] # <<>>
      /\ c2s'[s] = Tail(c2s[s])
      /\ \A r \in Socket : r # s => c2s'[r] = c2s[r]
  BY Received DEF OnJoinRoom
<1>3. CASE up[x] /\ Cur(x) = s
  <2>1. /\ m \in Message /\ m.type = "sync-step-1" /\ m.data \subseteq roomDoc
        /\ ~IsUpdate(m)
    BY StateVectorWithin, MsgType DEF MessageType, TypeOK, IsUpdate
  <2> DEFINE q == s2c[s]
             p == c2s[s]
  <2>2. q \in Seq(Message) /\ s2c'[s] = Append(q, m)
    BY <1>1, <1>3 DEF ServerEmit, Live, Cur, TypeOK
  <2> HIDE DEF m
  <2>3. /\ Carried(s2c'[s]) = Carried(q)
        /\ Awaiting(s2c'[s], "sync-step-1")
        /\ \A d : DataWithin(s2c'[s], d) <=> DataWithin(q, d) /\ m.data \subseteq d
    <3>1. Carried(Append(q, m)) = Carried(q) \cup IF IsUpdate(m) THEN m.data ELSE {}
      BY <2>1, <2>2, AppendChannel
    <3>2. \A type : Awaiting(Append(q, m), type) <=> Awaiting(q, type) \/ m.type = type
      BY <2>1, <2>2, AppendChannel
    <3>3. \A d : DataWithin(Append(q, m), d) <=> DataWithin(q, d) /\ m.data \subseteq d
      BY <2>1, <2>2, AppendChannel
    <3> QED
      BY <2>1, <2>2, <3>1, <3>2, <3>3
  <2>4. /\ \A type : Awaiting(p, type) <=> Awaiting(Tail(p), type) \/ Head(p).type = type
        /\ \A d : DataWithin(p, d) <=> DataWithin(Tail(p), d) /\ Head(p).data \subseteq d
    BY <1>2, TailChannel
  <2>5. DataWithin(p, doc[x])
    BY <1>3 DEF ClientInv, ChannelInv
  <2>6. /\ Cur(x)' = s /\ Cur(x) = s /\ up'[x] = up[x]
        /\ c2s'[s] = Tail(p) /\ InRoom(x)' /\ (InRoom(x) <=> s \in joined)
    BY <1>1, <1>2, <1>3 DEF Cur, InRoom
  <2>7. DataWithin(q, roomDoc)
    <3>1. s \notin joined => q = <<>>
      BY <1>2, <1>3 DEF ClientInv, HandshakeInv
    <3>2. s \in joined => DataWithin(q, roomDoc)
      BY <1>3, <2>6 DEF ClientInv, ChannelInv
    <3> QED
      BY <3>1, <3>2 DEF DataWithin
  <2>8. s \notin joined => Awaiting(Tail(p), "sync-step-1")
    BY <1>2, <1>3, JoiningJoined DEF ClientInv, HandshakeInv
  <2> HIDE DEF p, q
  <2>9. BufferInv(x)'
    BY <1>1 DEF ClientInv, BufferInv, DataWithin
  <2>10. HandshakeInv(x)'
    BY <1>1, <2>6 DEF HandshakeInv
  <2>11. ChannelInv(x)'
    <3>1. DataWithin(c2s'[s], doc[x]) /\ DataWithin(s2c'[s], roomDoc)
      BY <2>1, <2>3, <2>4, <2>5, <2>6, <2>7
    <3> QED
      BY <1>1, <2>6, <3>1 DEF ChannelInv, DataWithin
  <2>12. Covered(x)'
    BY <2>3, <2>6 DEF Covered, Awaiting
  <2>13. OnlySilentMissing(x)'
    <3>1. ASSUME ~Awaiting(c2s'[s], "sync-step-1")
          PROVE  roomDoc \subseteq doc[x] \cup Carried(s2c'[s]) \cup silent[x]
      <4>1. s \in joined
        BY <2>6, <2>8, <3>1
      <4>2. ~Awaiting(p, "sync-step-1")
        BY <1>2, <2>4, <2>6, <3>1 DEF p
      <4> QED
        BY <2>3, <2>6, <4>1, <4>2 DEF ClientInv, OnlySilentMissing, p, q
    <3> QED
      BY <1>1, <2>6, <3>1 DEF OnlySilentMissing, Awaiting, Carried
  <2> QED
    BY <2>9, <2>10, <2>11, <2>12, <2>13 DEF ClientInv
<1>4. CASE ~(up[x] /\ Cur(x) = s)
  <2>1. up[x] => Cur(x) \in Socket /\ Cur(x) # s
    BY <1>4, CurSocket
  <2>2. up[x] => c2s'[Cur(x)] = c2s[Cur(x)] /\ s2c'[Cur(x)] = s2c[Cur(x)]
    BY <1>1, <1>2, <2>1 DEF ServerEmit
  <2> QED
    BY <1>1, <2>1, <2>2, ServerFrame
<1> QED
  BY <1>3, <1>4

\* Dropping a packet of a socket that has not joined: the handshake is still
\* in the channel.
LEMMA DropBeforeJoinInv ==
  ASSUME TypeOK, SocketsInv, NEW s \in Socket, DropBeforeJoin(s),
         NEW x \in Client, ClientInv(x)
  PROVE  ClientInv(x)'
<1>1. s \notin joined /\ UNCHANGED <<conns, up, doc, sendBuffer, silent, open, joined, roomDoc, s2c>>
  BY DEF DropBeforeJoin, clientVars, serverVars
<1>2. PICK type : type # "join-room" /\ ServerReceives(s, type)
  BY DEF DropBeforeJoin
<1>3. /\ Head(c2s[s]).type # "join-room"
      /\ s \in open /\ c2s[s] \in Seq(Message) /\ c2s[s] # <<>>
      /\ c2s'[s] = Tail(c2s[s])
      /\ \A r \in Socket : r # s => c2s'[r] = c2s[r]
  BY <1>2, Received
<1>4. CASE up[x] /\ Cur(x) = s
  <2>1. Cur(x)' = s /\ up'[x] = up[x] /\ ~InRoom(x)'
    BY <1>1, <1>4 DEF Cur, InRoom
  <2>2. BufferInv(x)'
    BY <1>1 DEF ClientInv, BufferInv, DataWithin
  <2>3. s2c[s] = <<>> /\ Joining(c2s[s]) /\ DataWithin(c2s[s], doc[x])
    BY <1>1, <1>3, <1>4 DEF ClientInv, HandshakeInv, ChannelInv
  <2>4. Joining(c2s'[s])
    BY <1>3, <2>3, JoiningTail
  <2>5. HandshakeInv(x)'
    BY <1>1, <2>1, <2>3, <2>4 DEF HandshakeInv, Joining
  <2>6. DataWithin(c2s'[s], doc[x])
    BY <1>3, <2>3, TailChannel
  <2>7. ChannelInv(x)'
    BY <1>1, <2>1, <2>6 DEF ChannelInv, DataWithin
  <2> QED
    BY <2>1, <2>2, <2>5, <2>7 DEF ClientInv, Covered, OnlySilentMissing
<1>5. CASE ~(up[x] /\ Cur(x) = s)
  <2>1. up[x] => Cur(x) \in Socket /\ Cur(x) # s
    BY <1>5, CurSocket
  <2> QED
    BY <1>1, <1>3, <2>1, ServerFrame
<1> QED
  BY <1>4, <1>5

\* A server step that leaves the membership of x alone, in terms of the
\* resulting channels.
LEMMA Served ==
  ASSUME NEW x \in Client, ClientInv(x), InRoom(x),
         UNCHANGED <<conns, up, doc, sendBuffer, open, joined>>,
         DataWithin(c2s'[Cur(x)], doc[x]),
         DataWithin(s2c'[Cur(x)], roomDoc'),
         ~Awaiting(s2c'[Cur(x)], "sync-step-1")
           => doc[x] \subseteq roomDoc' \cup Carried(c2s'[Cur(x)]),
         ~Awaiting(c2s'[Cur(x)], "sync-step-1")
           => roomDoc' \subseteq doc[x] \cup Carried(s2c'[Cur(x)]) \cup silent'[x]
  PROVE  ClientInv(x)'
<1>1. Cur(x)' = Cur(x) /\ InRoom(x)'
  BY DEF Cur, InRoom
<1>2. BufferInv(x)'
  BY DEF ClientInv, BufferInv, DataWithin
<1>3. HandshakeInv(x)'
  BY <1>1 DEF HandshakeInv, InRoom
<1>4. ChannelInv(x)'
  BY <1>1 DEF ChannelInv, DataWithin
<1>5. Covered(x)'
  BY <1>1 DEF Covered, Awaiting, Carried
<1>6. OnlySilentMissing(x)'
  BY <1>1 DEF OnlySilentMissing, Awaiting, Carried
<1> QED
  BY <1>2, <1>3, <1>4, <1>5, <1>6 DEF ClientInv

\* What the invariant says of a client in the room, channel by channel.
LEMMA InRoomInv ==
  ASSUME TypeOK, SocketsInv, NEW x \in Client, ClientInv(x), InRoom(x)
  PROVE  /\ up[x] /\ Cur(x) \in Socket /\ Cur(x) \in joined
         /\ c2s[Cur(x)] \in Seq(Message) /\ s2c[Cur(x)] \in Seq(Message)
         /\ DataWithin(c2s[Cur(x)], doc[x])
         /\ DataWithin(s2c[Cur(x)], roomDoc)
         /\ ~Awaiting(s2c[Cur(x)], "sync-step-1")
              => doc[x] \subseteq roomDoc \cup Carried(c2s[Cur(x)])
         /\ ~Awaiting(c2s[Cur(x)], "sync-step-1")
              => roomDoc \subseteq doc[x] \cup Carried(s2c[Cur(x)]) \cup silent[x]
<1>1. up[x] /\ Cur(x) \in Socket /\ Cur(x) \in joined
  BY CurSocket DEF InRoom
<1>2. c2s[Cur(x)] \in Seq(Message) /\ s2c[Cur(x)] \in Seq(Message)
  BY <1>1 DEF TypeOK
<1> QED
  BY <1>1, <1>2 DEF ClientInv, ChannelInv, Covered, OnlySilentMissing

\* Answering the client's state vector: the vector stands for facts of the
\* client, so the answer completes the client.
LEMMA OnSyncStep1Inv ==
  ASSUME TypeOK, SocketsInv, NEW s \in Socket, OnSyncStep1(s),
         NEW x \in Client, ClientInv(x)
  PROVE  ClientInv(x)'
<1> DEFINE p == c2s[s]
           q == s2c[s]
           u == EncodeStateAsUpdate(roomDoc, Head(p).data)
           m == Msg("sync-step-2", u)
<1>1. /\ s \in joined /\ ServerEmit({s}, m)
      /\ UNCHANGED <<conns, up, doc, sendBuffer, silent, open, joined, roomDoc>>
  BY DEF OnSyncStep1, clientVars, serverVars
<1>2. /\ Head(p).type = "sync-step-1"
      /\ p \in Seq(Message) /\ p # <<>>
      /\ c2s'[s] = Tail(p)
      /\ \A r \in Socket : r # s => c2s'[r] = c2s[r]
  BY Received DEF OnSyncStep1
<1>3. CASE up[x] /\ Cur(x) = s
  <2>1. InRoom(x) /\ Live(s)
    BY <1>1, <1>3 DEF InRoom, Live, Cur
  <2>2. u \subseteq roomDoc /\ roomDoc \subseteq Head(p).data \cup u /\ u \subseteq Fact
    BY DEF EncodeStateAsUpdate, TypeOK
  <2>3. q \in Seq(Message) /\ s2c'[s] = Append(q, m)
    BY <1>1, <2>1 DEF ServerEmit, TypeOK
  <2> HIDE DEF u
  <2>4. m \in Message /\ m.type = "sync-step-2" /\ m.data = u /\ IsUpdate(m)
    BY <2>2, MsgType DEF MessageType, IsUpdate
  <2> HIDE DEF m, p, q
  <2>5. /\ Carried(s2c'[s]) = Carried(q) \cup u
        /\ Awaiting(s2c'[s], "sync-step-1") <=> Awaiting(q, "sync-step-1")
        /\ DataWithin(s2c'[s], roomDoc) <=> DataWithin(q, roomDoc) /\ u \subseteq roomDoc
    BY <2>3, <2>4, AppendChannel
  <2>6. ~IsUpdate(Head(p))
    BY <1>2 DEF IsUpdate
  <2>7. /\ Carried(p) = Carried(Tail(p))
        /\ DataWithin(p, doc[x]) <=> DataWithin(Tail(p), doc[x]) /\ Head(p).data \subseteq doc[x]
    <3>1. Carried(p) = Carried(Tail(p)) \cup IF IsUpdate(Head(p)) THEN Head(p).data ELSE {}
      BY <1>2, TailChannel DEF p
    <3>2. \A d : DataWithin(p, d) <=> DataWithin(Tail(p), d) /\ Head(p).data \subseteq d
      BY <1>2, TailChannel DEF p
    <3> QED
      BY <2>6, <3>1, <3>2
  <2>8. /\ DataWithin(p, doc[x]) /\ DataWithin(q, roomDoc)
        /\ ~Awaiting(q, "sync-step-1") => doc[x] \subseteq roomDoc \cup Carried(p)
    BY <1>3, <2>1, InRoomInv DEF p, q
  <2> QED
    BY <1>1, <1>2, <1>3, <2>1, <2>2, <2>5, <2>7, <2>8, Served
<1>4. CASE ~(up[x] /\ Cur(x) = s)
  <2>1. up[x] => Cur(x) \in Socket /\ Cur(x) # s
    BY <1>4, CurSocket
  <2>2. up[x] => c2s'[Cur(x)] = c2s[Cur(x)] /\ s2c'[Cur(x)] = s2c[Cur(x)]
    BY <1>1, <1>2, <2>1 DEF ServerEmit
  <2> QED
    BY <1>1, <2>1, <2>2, ServerFrame
<1> QED
  BY <1>3, <1>4

\* An update of x itself moves from the channel into the room.
LEMMA OwnUpdateInv ==
  ASSUME TypeOK, SocketsInv, NEW x \in Client, ClientInv(x), InRoom(x),
         UNCHANGED <<conns, up, doc, sendBuffer, open, joined>>,
         c2s[Cur(x)] # <<>>, IsUpdate(Head(c2s[Cur(x)])),
         c2s'[Cur(x)] = Tail(c2s[Cur(x)]), s2c'[Cur(x)] = s2c[Cur(x)],
         roomDoc' = roomDoc \cup Head(c2s[Cur(x)]).data, silent'[x] = silent[x]
  PROVE  ClientInv(x)'
<1> DEFINE p == c2s[Cur(x)]
           q == s2c[Cur(x)]
           u == Head(p).data
<1>1. /\ p \in Seq(Message)
      /\ DataWithin(p, doc[x])
      /\ DataWithin(q, roomDoc)
      /\ ~Awaiting(q, "sync-step-1") => doc[x] \subseteq roomDoc \cup Carried(p)
      /\ ~Awaiting(p, "sync-step-1") => roomDoc \subseteq doc[x] \cup Carried(q) \cup silent[x]
  BY InRoomInv
<1>2. p # <<>> /\ IsUpdate(Head(p)) /\ Head(p).type # "sync-step-1"
  BY DEF IsUpdate
<1>3. c2s'[Cur(x)] = Tail(p) /\ s2c'[Cur(x)] = q /\ roomDoc' = roomDoc \cup u
  OBVIOUS
<1> HIDE DEF p, q
<1>4. /\ Carried(p) = Carried(Tail(p)) \cup u
      /\ Awaiting(p, "sync-step-1") <=> Awaiting(Tail(p), "sync-step-1")
      /\ DataWithin(p, doc[x]) <=> DataWithin(Tail(p), doc[x]) /\ u \subseteq doc[x]
  BY <1>1, <1>2, TailChannel
<1>5. DataWithin(q, roomDoc')
  BY <1>1, <1>3, DataWithinGrows
<1> QED
  BY <1>1, <1>3, <1>4, <1>5, Served

\* sync-step-2: what the others are not told is recorded as silent.
LEMMA OnSyncStep2Inv ==
  ASSUME TypeOK, SocketsInv, NEW s \in Socket, OnSyncStep2(s),
         NEW x \in Client, ClientInv(x)
  PROVE  ClientInv(x)'
<1> DEFINE u == Head(c2s[s]).data
<1>1. /\ s \in joined /\ roomDoc' = roomDoc \cup u
      /\ silent' = [c \in Client |-> IF up[c] /\ Cur(c) \in joined \ {s}
                                     THEN silent[c] \cup (u \ roomDoc) ELSE silent[c]]
      /\ UNCHANGED <<conns, up, doc, sendBuffer, open, joined, s2c>>
  BY DEF OnSyncStep2, ApplyUpdate
<1>2. /\ IsUpdate(Head(c2s[s])) /\ c2s[s] # <<>>
      /\ c2s'[s] = Tail(c2s[s])
      /\ \A r \in Socket : r # s => c2s'[r] = c2s[r]
  BY Received DEF OnSyncStep2, IsUpdate
<1>3. CASE up[x] /\ Cur(x) = s
  <2>1. InRoom(x) /\ silent'[x] = silent[x]
    BY <1>1, <1>3 DEF InRoom
  <2> QED
    BY <1>1, <1>2, <1>3, <2>1, OwnUpdateInv
<1>4. CASE InRoom(x) /\ Cur(x) # s
  <2>1. /\ silent'[x] = silent[x] \cup (u \ roomDoc)
        /\ c2s'[Cur(x)] = c2s[Cur(x)] /\ s2c'[Cur(x)] = s2c[Cur(x)]
    BY <1>1, <1>2, <1>4, InRoomInv DEF InRoom
  <2>2. DataWithin(s2c'[Cur(x)], roomDoc')
    BY <1>1, <1>4, <2>1, InRoomInv, DataWithinGrows
  <2>3. roomDoc' = roomDoc \cup (u \ roomDoc)
    BY <1>1
  <2> HIDE DEF u
  <2> QED
    BY <1>1, <1>4, <2>1, <2>2, <2>3, InRoomInv, Served
<1>5. CASE ~InRoom(x) /\ Cur(x) # s
  <2>1. up[x] => Cur(x) \in Socket /\ Cur(x) \notin joined
    BY <1>5, CurSocket DEF InRoom
  <2>2. up[x] => silent'[x] = silent[x] /\ c2s'[Cur(x)] = c2s[Cur(x)]
    BY <1>1, <1>2, <1>5, <2>1
  <2> QED
    BY <1>1, <2>1, <2>2, ServerFrame
<1>6. CASE ~up[x]
  BY <1>1, <1>6, ServerFrame
<1> QED
  BY <1>3, <1>4, <1>5, <1>6

\* sync-update: whoever else is in the room is sent what the room learns.
LEMMA OnSyncUpdateInv ==
  ASSUME TypeOK, SocketsInv, NEW s \in Socket, OnSyncUpdate(s),
         NEW x \in Client, ClientInv(x)
  PROVE  ClientInv(x)'
<1> DEFINE u == Head(c2s[s]).data
           m == Msg("sync-update", u)
<1>1. /\ s \in joined /\ roomDoc' = roomDoc \cup u
      /\ ServerEmit(joined \ {s}, m)
      /\ UNCHANGED <<conns, up, doc, sendBuffer, silent, open, joined>>
  BY DEF OnSyncUpdate, ApplyUpdate, clientVars
<1>2. /\ IsUpdate(Head(c2s[s])) /\ c2s[s] \in Seq(Message) /\ c2s[s] # <<>>
      /\ c2s'[s] = Tail(c2s[s])
      /\ \A r \in Socket : r # s => c2s'[r] = c2s[r]
  BY Received DEF OnSyncUpdate, IsUpdate
<1>3. m \in Message /\ m.type = "sync-update" /\ m.data = u /\ IsUpdate(m)
  <2>1. u \in SUBSET Fact
    <3>1. Head(c2s[s]) \in Message
      BY <1>2, TailChannel
    <3> QED
      BY <3>1 DEF Message
  <2> QED
    BY <2>1, MsgType DEF MessageType, IsUpdate
<1> HIDE DEF m
<1>4. CASE up[x] /\ Cur(x) = s
  <2>1. InRoom(x) /\ s2c'[s] = s2c[s]
    BY <1>1, <1>4 DEF InRoom, ServerEmit
  <2> QED
    BY <1>1, <1>2, <1>4, <2>1, OwnUpdateInv
<1>5. CASE InRoom(x) /\ Cur(x) # s
  <2> DEFINE q == s2c[Cur(x)]
  <2>1. /\ q \in Seq(Message) /\ DataWithin(q, roomDoc)
        /\ c2s'[Cur(x)] = c2s[Cur(x)]
        /\ s2c'[Cur(x)] = Append(q, m)
    BY <1>1, <1>2, <1>5, InRoomInv DEF InRoom, ServerEmit, Live, Cur
  <2> HIDE DEF q, u
  <2>2. /\ Carried(Append(q, m)) = Carried(q) \cup u
        /\ Awaiting(Append(q, m), "sync-step-1") <=> Awaiting(q, "sync-step-1")
        /\ DataWithin(Append(q, m), roomDoc') <=> DataWithin(q, roomDoc') /\ u \subseteq roomDoc'
    BY <1>3, <2>1, AppendChannel
  <2>3. DataWithin(s2c'[Cur(x)], roomDoc')
    BY <1>1, <2>1, <2>2, DataWithinGrows
  <2>4. /\ DataWithin(c2s[Cur(x)], doc[x])
        /\ ~Awaiting(q, "sync-step-1") => doc[x] \subseteq roomDoc \cup Carried(c2s[Cur(x)])
        /\ ~Awaiting(c2s[Cur(x)], "sync-step-1")
             => roomDoc \subseteq doc[x] \cup Carried(q) \cup silent[x]
    BY <1>5, InRoomInv DEF q
  <2> QED
    BY <1>1, <1>5, <2>1, <2>2, <2>3, <2>4, Served
<1>6. CASE ~InRoom(x) /\ Cur(x) # s
  <2>1. up[x] => Cur(x) \in Socket /\ Cur(x) \notin joined
    BY <1>6, CurSocket DEF InRoom
  <2>2. up[x] => c2s'[Cur(x)] = c2s[Cur(x)] /\ s2c'[Cur(x)] = s2c[Cur(x)]
    BY <1>1, <1>2, <1>6, <2>1 DEF ServerEmit
  <2> QED
    BY <1>1, <2>1, <2>2, ServerFrame
<1>7. CASE ~up[x]
  BY <1>1, <1>7, ServerFrame
<1> QED
  BY <1>4, <1>5, <1>6, <1>7

\* The server gives sockets up: a client in the room keeps its room, since it
\* is a participant itself.
LEMMA GoneInv ==
  ASSUME TypeOK, SocketsInv, NEW x \in Client, ClientInv(x),
         UNCHANGED <<conns, up, doc, sendBuffer, s2c>>,
         Cur(x) \notin open', Cur(x) \notin joined', c2s'[Cur(x)] = <<>>
  PROVE  ClientInv(x)'
<1>1. Cur(x)' = Cur(x) /\ ~InRoom(x)'
  BY DEF Cur, InRoom
<1>2. BufferInv(x)'
  BY DEF ClientInv, BufferInv, DataWithin
<1>3. HandshakeInv(x)'
  BY <1>1 DEF HandshakeInv
<1>4. ChannelInv(x)'
  BY <1>1 DEF ChannelInv, DataWithin
<1> QED
  BY <1>1, <1>2, <1>3, <1>4 DEF ClientInv, Covered, OnlySilentMissing

LEMMA OnDisconnectInv ==
  ASSUME TypeOK, SocketsInv, NEW s \in Socket, OnDisconnect(s),
         NEW x \in Client, ClientInv(x)
  PROVE  ClientInv(x)'
<1>1. /\ open' = open \ {s} /\ joined' = joined \ {s}
      /\ roomDoc' = IF s \in joined /\ joined = {s} THEN {} ELSE roomDoc
      /\ c2s' = [c2s EXCEPT ![s] = <<>>]
      /\ UNCHANGED <<conns, up, doc, sendBuffer, silent, s2c>>
  BY DEF OnDisconnect, clientVars
<1>2. CASE up[x] /\ Cur(x) = s
  <2>1. c2s'[Cur(x)] = <<>>
    BY <1>1, <1>2 DEF TypeOK
  <2> QED
    BY <1>1, <1>2, <2>1, GoneInv
<1>3. CASE up[x] /\ Cur(x) # s
  <2>1. Cur(x) \in Socket
    BY <1>3, CurSocket
  <2>2. c2s'[Cur(x)] = c2s[Cur(x)]
    BY <1>1, <1>3, <2>1 DEF TypeOK
  <2>3. Cur(x) \in joined => roomDoc' = roomDoc
    BY <1>1, <1>3
  <2> QED
    BY <1>1, <1>3, <2>2, <2>3, ServerFrame
<1>4. CASE ~up[x]
  BY <1>1, <1>4, ServerFrame
<1> QED
  BY <1>2, <1>3, <1>4

LEMMA ServerRestartInv ==
  ASSUME TypeOK, SocketsInv, ServerRestart, NEW x \in Client, ClientInv(x)
  PROVE  ClientInv(x)'
<1>1. /\ open' = {} /\ joined' = {} /\ c2s' = [s \in Socket |-> <<>>]
      /\ UNCHANGED <<conns, up, doc, sendBuffer, silent, s2c>>
  BY DEF ServerRestart, clientVars
<1>2. CASE up[x]
  BY <1>1, <1>2, CurSocket, GoneInv
<1>3. CASE ~up[x]
  BY <1>1, <1>3, ServerFrame
<1> QED
  BY <1>2, <1>3

-----------------------------------------------------------------------------
(* The theorems.                                                           *)

LEMMA InitInv == Init => TypeOK /\ SyncInv
<1> SUFFICES ASSUME Init PROVE TypeOK /\ SyncInv
  OBVIOUS
<1>1. <<>> \in Seq(Message)
  BY EmptySeq
<1>2. TypeOK
  BY <1>1, MaxConnAssumption, MaxEditAssumption, MaxRestartAssumption DEF Init, TypeOK
<1>3. SocketsInv
  BY DEF Init, SocketsInv
<1>4. ASSUME NEW c \in Client
      PROVE  ClientInv(c)
  BY DEF Init, ClientInv, BufferInv, HandshakeInv, ChannelInv, Covered, OnlySilentMissing,
         InRoom, DataWithin
<1> QED
  BY <1>2, <1>3, <1>4 DEF SyncInv

LEMMA NextInv ==
  ASSUME TypeOK, SyncInv, [Next]_vars
  PROVE  TypeOK' /\ SyncInv'
<1>1. SocketsInv /\ \A x \in Client : ClientInv(x)
  BY DEF SyncInv
<1>2. TypeOK' /\ SocketsInv'
  BY <1>1, TypeStep, SocketsStep
<1>3. ASSUME NEW x \in Client
      PROVE  ClientInv(x)'
  <2>1. ASSUME NEW c \in Client, ClientNext(c)
        PROVE  ClientInv(x)'
    BY <1>1, <2>1, ClientNextInv
  <2>2. ASSUME NEW s \in Socket, ServerNext(s)
        PROVE  ClientInv(x)'
    BY <1>1, <2>2, OnJoinRoomInv, DropBeforeJoinInv, OnSyncStep1Inv, OnSyncStep2Inv,
       OnSyncUpdateInv, OnDisconnectInv DEF ServerNext, ServerStep
  <2>3. ASSUME ServerRestart
        PROVE  ClientInv(x)'
    BY <1>1, <2>3, ServerRestartInv
  <2>4. ASSUME UNCHANGED vars
        PROVE  ClientInv(x)'
    BY <1>1, <2>4, Frame DEF vars, clientVars, serverVars
  <2> QED
    BY <2>1, <2>2, <2>3, <2>4 DEF Next
<1> QED
  BY <1>2, <1>3 DEF SyncInv

\* The variables keep their types.
THEOREM Typing == Spec => []TypeOK
<1>1. Init => TypeOK /\ SyncInv
  BY InitInv
<1>2. TypeOK /\ SyncInv /\ [Next]_vars => (TypeOK /\ SyncInv)'
  BY NextInv
<1> QED
  BY <1>1, <1>2, PTL DEF Spec

\* No handshake is overtaken or cut short, and neither side sends facts it
\* does not have, in every reachable state.
THEOREM Synchronisation == Spec => []SyncInv
<1>1. Init => TypeOK /\ SyncInv
  BY InitInv
<1>2. TypeOK /\ SyncInv /\ [Next]_vars => (TypeOK /\ SyncInv)'
  BY NextInv
<1> QED
  BY <1>1, <1>2, PTL DEF Spec

\* Everything a client that has answered the server holds reaches the room.
THEOREM Coverage == Spec => []ServerCovers
<1>1. SyncInv => ServerCovers
  BY DEF SyncInv, ClientInv, ServerCovers
<1> QED
  BY <1>1, Synchronisation, PTL

\* What a client that the server has answered lacks, it lacks because the
\* room learnt it from a sync-step-2.
THEOREM OnlyGap == Spec => []MissingOnlySilent
<1>1. SyncInv => MissingOnlySilent
  BY DEF SyncInv, ClientInv, MissingOnlySilent
<1> QED
  BY <1>1, Synchronisation, PTL

\* When nothing is under way, the clients in the room have its document, but
\* for what it learnt silently (server.ts, sync-step-2).
THEOREM Convergent == Spec => []ConvergesUnlessSilent
<1>1. TypeOK /\ SyncInv => ConvergesUnlessSilent
  <2> SUFFICES ASSUME TypeOK, SyncInv, Quiet, NEW c \in Client, up[c], silent[c] = {}
               PROVE  doc[c] = roomDoc
    BY DEF ConvergesUnlessSilent
  <2>1. InRoom(c) /\ s2c[Cur(c)] = <<>>
    BY DEF Quiet
  <2>2. c2s[Cur(c)] = <<>>
    BY <2>1 DEF Quiet, InRoom, TypeOK
  <2>3. Carried(<<>>) = {} /\ ~Awaiting(<<>>, "sync-step-1")
    BY DEF Carried, Awaiting
  <2>4. Covered(c) /\ OnlySilentMissing(c)
    BY DEF SyncInv, ClientInv
  <2> QED
    BY <2>1, <2>2, <2>3, <2>4 DEF Covered, OnlySilentMissing
<1> QED
  BY <1>1, Typing, Synchronisation, PTL

\* A room loses nothing while one participant stays.
THEOREM Survival == Spec => RoomDocSurvives
<1> DEFINE Keeps == joined \cap joined' # {} => roomDoc \subseteq roomDoc'
<1>1. ASSUME [Next]_vars
      PROVE  Keeps
  <2>1. ASSUME NEW c \in Client, ClientNext(c)
        PROVE  roomDoc' = roomDoc
    BY <2>1 DEF ClientNext, HandleConnect, HandleDisconnect, Cleanup, Type, ClearLocalDoc,
                LocalChange, ClientStep, HandleSyncStep1, HandleSyncStep2, HandleSyncUpdate,
                serverVars
  <2>2. ASSUME NEW s \in Socket, ServerStep(s)
        PROVE  roomDoc \subseteq roomDoc'
    BY <2>2 DEF ServerStep, OnJoinRoom, DropBeforeJoin, OnSyncStep1, OnSyncStep2, OnSyncUpdate,
                ApplyUpdate, serverVars
  <2>3. ASSUME NEW s \in Socket, OnDisconnect(s)
        PROVE  Keeps
    BY <2>3 DEF OnDisconnect
  <2>4. ASSUME ServerRestart
        PROVE  Keeps
    BY <2>4 DEF ServerRestart
  <2>5. ASSUME UNCHANGED vars
        PROVE  Keeps
    BY <2>5 DEF vars, serverVars
  <2> QED
    BY <1>1, <2>1, <2>2, <2>3, <2>4, <2>5 DEF Next, ServerNext
<1> QED
  BY <1>1, PTL DEF Spec, RoomDocSurvives

=============================================================================
