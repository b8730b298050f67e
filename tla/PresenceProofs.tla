---------------------------- MODULE PresenceProofs ----------------------------
(***************************************************************************)
(* Presence, for any clients, connections and clocks: every client is      *)
(* shown with a state it has made, and keeps its own, through time-outs,   *)
(* leaked providers, reconnects and late updates.                          *)
(***************************************************************************)
EXTENDS Presence, SequenceTheorems, TLAPS

USE MaxConnAssumption, MaxClockAssumption

-----------------------------------------------------------------------------
(* Entries, packets and queues of packets.                                 *)

LEMMA SocketShape ==
  /\ \A c \in Client : \A n \in 1 .. MaxConn[c] : <<c, n>> \in Socket
  /\ \A s \in Socket : s[1] \in Client /\ s[2] \in 1 .. MaxConn[s[1]] /\ s = <<s[1], s[2]>>
BY DEF Socket

LEMMA EntryShape ==
  /\ \A e \in Entry : e.who \in Client /\ e.clock \in 1 .. MaxClock[e.who] /\ e.live \in BOOLEAN
  /\ \A p \in Client : \A k \in 1 .. MaxClock[p], b \in BOOLEAN :
       [who |-> p, clock |-> k, live |-> b] \in Entry
BY DEF Entry

\* join-room carries no entry; an awareness-update carries those it is made of.
LEMMA MessageShape ==
  /\ Msg("join-room", {}) \in Message /\ Msg("join-room", {}).data = {}
  /\ \A d \in SUBSET Entry : Msg("awareness-update", d) \in Message
                             /\ Msg("awareness-update", d).data = d
  /\ \A m \in Message : m.data \subseteq Entry
BY DEF Msg, Message

LEMMA NoneFresh == <<>> \in Seq(Message) /\ \A own : FreshPackets(<<>>, own)
<1>1. <<>> \in Seq(Message) /\ Len(<<>>) = 0
  BY EmptySeq
<1> QED
  BY <1>1 DEF FreshPackets

LEMMA AppendFresh ==
  ASSUME NEW q \in Seq(Message), NEW m \in Message, NEW own,
         FreshPackets(q, own), \A e \in m.data : Fresh(e, own)
  PROVE  Append(q, m) \in Seq(Message) /\ FreshPackets(Append(q, m), own)
<1> DEFINE a == Append(q, m)
<1>1. /\ a \in Seq(Message) /\ Len(q) \in Nat /\ Len(a) = Len(q) + 1
      /\ \A i \in 1 .. Len(q) : a[i] = q[i]
      /\ a[Len(q) + 1] = m
  BY AppendProperties, LenProperties
<1> HIDE DEF a
<1>2. \A i \in 1 .. Len(a) : (i \in 1 .. Len(q) /\ a[i] = q[i]) \/ a[i] = m
  BY <1>1
<1>3. FreshPackets(a, own)
  BY <1>2 DEF FreshPackets
<1> QED
  BY <1>1, <1>3 DEF a

LEMMA JoinFresh ==
  ASSUME NEW q \in Seq(Message), NEW own, FreshPackets(q, own)
  PROVE  /\ q \o <<Msg("join-room", {})>> \in Seq(Message)
         /\ FreshPackets(q \o <<Msg("join-room", {})>>, own)
<1> DEFINE m == Msg("join-room", {})
           t == <<m>>
           a == q \o t
<1>1. m \in Message /\ m.data = {}
  BY MessageShape
<1> HIDE DEF m
<1>2. t \in Seq(Message) /\ Len(t) = 1 /\ t[1] = m
  BY <1>1
<1> HIDE DEF t
<1>3. /\ a \in Seq(Message) /\ Len(q) \in Nat /\ Len(a) = Len(q) + 1
      /\ \A i \in 1 .. Len(a) : a[i] = IF i <= Len(q) THEN q[i] ELSE t[i - Len(q)]
  <2>1. /\ a \in Seq(Message) /\ Len(a) = Len(q) + Len(t)
        /\ \A i \in 1 .. Len(q) + Len(t) : a[i] = IF i <= Len(q) THEN q[i] ELSE t[i - Len(q)]
    BY <1>2, ConcatProperties
  <2>2. Len(q) \in Nat
    BY LenProperties
  <2> HIDE DEF a
  <2> QED
    BY <1>2, <2>1, <2>2
<1> HIDE DEF a
<1>4. \A i \in 1 .. Len(a) : (i \in 1 .. Len(q) /\ a[i] = q[i]) \/ a[i] = m
  <2> SUFFICES ASSUME NEW i \in 1 .. Len(a)
               PROVE  (i \in 1 .. Len(q) /\ a[i] = q[i]) \/ a[i] = m
    OBVIOUS
  <2>1. i <= Len(q) \/ i - Len(q) = 1
    BY <1>3
  <2> QED
    BY <1>2, <1>3, <2>1
<1>5. FreshPackets(a, own)
  BY <1>1, <1>4 DEF FreshPackets
<1> QED
  BY <1>3, <1>5 DEF a, t, m

LEMMA TakeFresh ==
  ASSUME NEW q \in Seq(Message), q # <<>>, NEW own, FreshPackets(q, own)
  PROVE  /\ Head(q) \in Message /\ Tail(q) \in Seq(Message)
         /\ FreshPackets(Tail(q), own) /\ \A e \in Head(q).data : Fresh(e, own)
<1> DEFINE t == Tail(q)
           h == Head(q)
<1>1. /\ h \in Message /\ t \in Seq(Message) /\ Len(q) \in Nat \ {0}
      /\ Len(t) = Len(q) - 1 /\ h = q[1]
      /\ \A i \in 1 .. Len(t) : t[i] = q[i + 1]
  BY HeadTailProperties, EmptySeq
<1> HIDE DEF t, h
<1>2. \A i \in 1 .. Len(t) : i + 1 \in 1 .. Len(q) /\ t[i] = q[i + 1]
  BY <1>1
<1>3. 1 \in 1 .. Len(q)
  BY <1>1
<1>4. FreshPackets(t, own) /\ \A e \in h.data : Fresh(e, own)
  BY <1>1, <1>2, <1>3 DEF FreshPackets
<1> QED
  BY <1>1, <1>4 DEF t, h

\* Clocks that go on leave packets fresh.
LEMMA StaysFresh ==
  ASSUME NEW q \in Seq(Message), NEW own \in [Client -> Nat], NEW later \in [Client -> Nat],
         \A p \in Client : own[p] <= later[p], FreshPackets(q, own)
  PROVE  FreshPackets(q, later)
<1> SUFFICES ASSUME NEW i \in 1 .. Len(q), NEW e \in q[i].data
             PROVE  Fresh(e, later)
  BY DEF FreshPackets
<1>1. e \in Entry
  BY ElementOfSeq, MessageShape
<1>2. e.who \in Client /\ e.clock \in Nat
  BY <1>1, EntryShape
<1>3. Fresh(e, own)
  BY DEF FreshPackets
<1> QED
  BY <1>2, <1>3 DEF Fresh

-----------------------------------------------------------------------------
(* Parts of a step.                                                        *)

\* What the packets on their way may say, as the clocks stand.
Carried == \A q \in Seq(Message) : FreshPackets(q, OwnClock) => FreshPackets(q, OwnClock')

LEMMA ClocksGoOn ==
  ASSUME TypeOK, clock' \in [Client -> [Client -> Nat]],
         \A p \in Client : clock[p][p] <= clock'[p][p]
  PROVE  Carried
<1>1. /\ OwnClock \in [Client -> Nat] /\ OwnClock' \in [Client -> Nat]
      /\ \A p \in Client : OwnClock[p] <= OwnClock'[p]
  BY DEF OwnClock, TypeOK
<1> QED
  BY <1>1, StaysFresh DEF Carried

\* A step that leaves every Awareness as it is.
LEMMA AwarenessStays ==
  ASSUME TypeOK, PresenceInv, UNCHANGED awarenessVars
  PROVE  /\ OwnClock' = OwnClock
         /\ \A c, p \in Client : Heard(c, p)' /\ CanAnswer(c, p)'
         /\ OwnStateRules'
<1>1. clock' = clock /\ shown' = shown /\ pending' = pending
  BY DEF awarenessVars
<1>2. OwnClock' = OwnClock
  BY <1>1 DEF OwnClock
<1>3. ASSUME NEW c \in Client, NEW p \in Client
      PROVE  Heard(c, p)' /\ CanAnswer(c, p)'
  BY <1>1 DEF PresenceInv, Heard, CanAnswer
<1>4. OwnStateRules'
  BY <1>1 DEF PresenceInv, OwnStateRules
<1> QED
  BY <1>2, <1>3, <1>4

\* handleAwarenessLocalUpdate adds the clients to what the providers will send.
LEMMA LocalUpdate ==
  ASSUME TypeOK, NEW c \in Client, NEW P \in SUBSET Client, HandleAwarenessLocalUpdate(c, P)
  PROVE  /\ DOMAIN pending' = Client
         /\ \A d \in Client : pending'[d] \in [1 .. MaxConn[d] -> SUBSET Client]
         /\ \A d \in Client : d # c => pending'[d] = pending[d]
         /\ \A n \in 1 .. MaxConn[c] : pending'[c][n] \subseteq pending[c][n] \cup P
<1> DEFINE f == [n \in 1 .. MaxConn[c] |->
                   IF n <= conns[c] THEN pending[c][n] \cup P ELSE pending[c][n]]
<1>1. DOMAIN pending = Client /\ \A d \in Client : pending[d] \in [1 .. MaxConn[d] -> SUBSET Client]
  BY DEF TypeOK
<1>2. DOMAIN pending[c] = 1 .. MaxConn[c]
  BY <1>1
<1>3. pending' = [pending EXCEPT ![c] = f]
  BY <1>2 DEF HandleAwarenessLocalUpdate
<1>4. f \in [1 .. MaxConn[c] -> SUBSET Client]
  BY <1>1
<1>5. \A n \in 1 .. MaxConn[c] : f[n] \subseteq pending[c][n] \cup P
  OBVIOUS
<1> HIDE DEF f
<1>6. DOMAIN pending' = Client /\ pending'[c] = f /\ \A d \in Client : d # c => pending'[d] = pending[d]
  BY <1>1, <1>3
<1> QED
  BY <1>1, <1>4, <1>5, <1>6

\* The socket that a connected client uses.
LEMMA CurSocket ==
  ASSUME TypeOK, PresenceInv, NEW c \in Client, up[c]
  PROVE  Cur(c) \in Socket
<1>1. conns[c] \in 1 .. MaxConn[c]
  BY DEF TypeOK, PresenceInv
<1> QED
  BY <1>1, SocketShape DEF Cur

\* A packet the server takes off a channel.
LEMMA ServerTakes ==
  ASSUME TypeOK, PresenceInv, NEW s \in Socket, NEW type, ServerReceives(s, type)
  PROVE  /\ c2s' \in [Socket -> Seq(Message)]
         /\ Head(c2s[s]) \in Message /\ \A e \in Head(c2s[s]).data : Fresh(e, OwnClock)
         /\ \A t \in Socket : FreshPackets(c2s'[t], OwnClock)
<1>1. c2s \in [Socket -> Seq(Message)] /\ c2s[s] # <<>> /\ c2s' = [c2s EXCEPT ![s] = Tail(@)]
  BY DEF TypeOK, ServerReceives
<1>2. \A t \in Socket : FreshPackets(c2s[t], OwnClock)
  BY DEF PresenceInv, PacketsFresh
<1>3. /\ Head(c2s[s]) \in Message /\ Tail(c2s[s]) \in Seq(Message)
      /\ FreshPackets(Tail(c2s[s]), OwnClock) /\ \A e \in Head(c2s[s]).data : Fresh(e, OwnClock)
  BY <1>1, <1>2, TakeFresh
<1> QED
  BY <1>1, <1>2, <1>3

-----------------------------------------------------------------------------
(* One lemma per action.                                                   *)

LEMMA ConnectStep ==
  ASSUME TypeOK, PresenceInv, NEW c \in Client, HandleConnect(c)
  PROVE  TypeOK' /\ PresenceInv'
<1> DEFINE s == <<c, conns[c] + 1>>
           q == buffer[c] \o <<Msg("join-room", {})>>
<1>1. /\ UNCHANGED awarenessVars /\ UNCHANGED <<joined, s2c>>
      /\ buffer' = [buffer EXCEPT ![c] = <<>>] /\ c2s' = [c2s EXCEPT ![s] = q]
      /\ conns' = [conns EXCEPT ![c] = @ + 1] /\ up' = [up EXCEPT ![c] = TRUE]
      /\ open' = open \cup {s} /\ conns[c] < MaxConn[c]
  BY DEF HandleConnect
<1>2. s \in Socket
  <2>1. conns[c] + 1 \in 1 .. MaxConn[c]
    BY <1>1 DEF TypeOK
  <2> QED
    BY <2>1, SocketShape
<1>3. /\ buffer \in [Client -> Seq(Message)] /\ c2s \in [Socket -> Seq(Message)]
      /\ \A d \in Client : FreshPackets(buffer[d], OwnClock)
      /\ \A t \in Socket : FreshPackets(c2s[t], OwnClock) /\ FreshPackets(s2c[t], OwnClock)
  BY DEF TypeOK, PresenceInv, PacketsFresh
<1>4. q \in Seq(Message) /\ FreshPackets(q, OwnClock)
  BY <1>3, JoinFresh
<1> HIDE DEF s, q
<1>5. buffer' \in [Client -> Seq(Message)] /\ c2s' \in [Socket -> Seq(Message)]
  BY <1>1, <1>3, <1>4, NoneFresh
<1>6. /\ conns' \in [Client -> Nat] /\ up' \in [Client -> BOOLEAN]
      /\ \A d \in Client : conns'[d] <= MaxConn[d]
  BY <1>1 DEF TypeOK
<1>7. TypeOK'
  BY <1>1, <1>2, <1>5, <1>6 DEF TypeOK, awarenessVars
<1>8. \A d \in Client : up'[d] => conns'[d] >= 1
  BY <1>1 DEF TypeOK, PresenceInv
<1>9. PacketsFresh'
  <2>1. OwnClock' = OwnClock
    BY <1>1, AwarenessStays
  <2>2. \A d \in Client : FreshPackets(buffer'[d], OwnClock)
    BY <1>1, <1>3, NoneFresh
  <2>3. \A t \in Socket : FreshPackets(c2s'[t], OwnClock) /\ FreshPackets(s2c'[t], OwnClock)
    BY <1>1, <1>3, <1>4
  <2> QED
    BY <2>1, <2>2, <2>3 DEF PacketsFresh
<1> QED
  BY <1>1, <1>7, <1>8, <1>9, AwarenessStays DEF PresenceInv

LEMMA DisconnectStep ==
  ASSUME TypeOK, PresenceInv, NEW c \in Client, HandleDisconnect(c)
  PROVE  TypeOK' /\ PresenceInv'
<1>1. /\ UNCHANGED awarenessVars /\ UNCHANGED <<conns, buffer, open, joined, c2s>>
      /\ up' = [up EXCEPT ![c] = FALSE] /\ s2c' = [s2c EXCEPT ![Cur(c)] = <<>>]
  BY DEF HandleDisconnect, serverVars
<1>2. s2c' \in [Socket -> Seq(Message)] /\ up' \in [Client -> BOOLEAN]
  BY <1>1, NoneFresh DEF TypeOK
<1>3. TypeOK'
  BY <1>1, <1>2 DEF TypeOK, awarenessVars
<1>4. \A d \in Client : up'[d] => conns'[d] >= 1
  BY <1>1 DEF TypeOK, PresenceInv
<1>5. PacketsFresh'
  <2>1. OwnClock' = OwnClock
    BY <1>1, AwarenessStays
  <2>2. \A t \in Socket : FreshPackets(s2c'[t], OwnClock)
    BY <1>1, NoneFresh DEF TypeOK, PresenceInv, PacketsFresh
  <2>3. (\A d \in Client : FreshPackets(buffer'[d], OwnClock))
        /\ \A t \in Socket : FreshPackets(c2s'[t], OwnClock)
    BY <1>1 DEF PresenceInv, PacketsFresh
  <2> QED
    BY <2>1, <2>2, <2>3 DEF PacketsFresh
<1> QED
  BY <1>1, <1>3, <1>4, <1>5, AwarenessStays DEF PresenceInv

\* A client makes a new state.
LEMMA SetStateStep ==
  ASSUME TypeOK, PresenceInv, NEW c \in Client, SetLocalState(c)
  PROVE  TypeOK' /\ PresenceInv'
<1>1. /\ clock' = [clock EXCEPT ![c][c] = @ + 1] /\ clock[c][c] < MaxClock[c]
      /\ HandleAwarenessLocalUpdate(c, {c})
      /\ UNCHANGED <<shown, conns, up, buffer, open, joined, c2s, s2c>>
  BY DEF SetLocalState, serverVars
<1>2. /\ clock' \in [Client -> [Client -> Nat]]
      /\ clock'[c][c] = clock[c][c] + 1
      /\ \A d, p \in Client : d # c \/ p # c => clock'[d][p] = clock[d][p]
      /\ \A d, p \in Client : clock[d][p] \in Nat
  BY <1>1 DEF TypeOK
<1>3. /\ DOMAIN pending' = Client
      /\ \A d \in Client : pending'[d] \in [1 .. MaxConn[d] -> SUBSET Client]
      /\ \A d \in Client : d # c => pending'[d] = pending[d]
      /\ \A n \in 1 .. MaxConn[c] : pending'[c][n] \subseteq pending[c][n] \cup {c}
  BY <1>1, LocalUpdate
<1>4. \A d, p \in Client : clock'[d][p] <= MaxClock[p]
  BY <1>1, <1>2 DEF TypeOK
<1>5. TypeOK'
  BY <1>1, <1>2, <1>3, <1>4 DEF TypeOK
<1>6. OwnStateRules'
  BY <1>1, <1>2 DEF PresenceInv, OwnStateRules
<1>7. ASSUME NEW d \in Client, NEW p \in Client
      PROVE  Heard(d, p)' /\ CanAnswer(d, p)'
  <2>1. Heard(d, p) /\ CanAnswer(d, p) /\ c \in shown[c]
    BY DEF PresenceInv, OwnStateRules
  <2>2. Heard(d, p)'
    <3> SUFFICES ASSUME p \in shown[d] \/ \E n \in 1 .. MaxConn[d] : p \in pending'[d][n]
                 PROVE  clock'[d][p] >= 1
      BY <1>1 DEF Heard
    <3>1. CASE d = c /\ p = c
      BY <1>2, <3>1
    <3>2. CASE d # c \/ p # c
      <4>1. p \in shown[d] \/ \E n \in 1 .. MaxConn[d] : p \in pending[d][n]
        <5>1. ASSUME NEW n \in 1 .. MaxConn[d], p \in pending'[d][n]
              PROVE  p \in pending[d][n]
          <6>1. CASE d = c
            BY <1>3, <3>2, <5>1, <6>1
          <6>2. CASE d # c
            BY <1>3, <5>1, <6>2
          <6> QED
            BY <6>1, <6>2
        <5> QED
          BY <5>1
      <4> QED
        BY <1>2, <2>1, <3>2, <4>1 DEF Heard
    <3> QED
      BY <3>1, <3>2
  <2>3. CanAnswer(d, p)'
    BY <1>1, <1>2, <2>1 DEF CanAnswer
  <2> QED
    BY <2>2, <2>3
<1>8. PacketsFresh'
  <2>1. Carried
    <3>1. \A p \in Client : clock[p][p] <= clock'[p][p]
      BY <1>2
    <3> QED
      BY <1>2, <3>1, ClocksGoOn
  <2> QED
    BY <1>1, <2>1 DEF Carried, TypeOK, PresenceInv, PacketsFresh
<1>9. \A d \in Client : up'[d] => conns'[d] >= 1
  BY <1>1 DEF PresenceInv
<1> QED
  BY <1>5, <1>6, <1>7, <1>8, <1>9 DEF PresenceInv

\* A client takes another one for gone.
LEMMA RemoveStep ==
  ASSUME TypeOK, PresenceInv, NEW c \in Client, NEW p \in Client, RemoveOutdated(c, p)
  PROVE  TypeOK' /\ PresenceInv'
<1>1. /\ p \in shown[c] /\ p # c /\ clock[c][p] < MaxClock[p]
      /\ shown' = [shown EXCEPT ![c] = @ \ {p}]
      /\ HandleAwarenessLocalUpdate(c, {p})
      /\ UNCHANGED <<clock, conns, up, buffer, open, joined, c2s, s2c>>
  BY DEF RemoveOutdated, serverVars
<1>2. /\ DOMAIN pending' = Client
      /\ \A d \in Client : pending'[d] \in [1 .. MaxConn[d] -> SUBSET Client]
      /\ \A d \in Client : d # c => pending'[d] = pending[d]
      /\ \A n \in 1 .. MaxConn[c] : pending'[c][n] \subseteq pending[c][n] \cup {p}
  BY <1>1, LocalUpdate
<1>3. /\ shown' \in [Client -> SUBSET Client] /\ shown'[c] = shown[c] \ {p}
      /\ \A d \in Client : d # c => shown'[d] = shown[d]
  BY <1>1 DEF TypeOK
<1>4. TypeOK'
  BY <1>1, <1>2, <1>3 DEF TypeOK
<1>5. OwnStateRules'
  BY <1>1, <1>3 DEF PresenceInv, OwnStateRules
<1>6. ASSUME NEW d \in Client, NEW x \in Client
      PROVE  Heard(d, x)' /\ CanAnswer(d, x)'
  <2>1. Heard(d, x) /\ CanAnswer(d, x)
    BY DEF PresenceInv
  <2>2. Heard(d, x)'
    <3> SUFFICES ASSUME x \in shown'[d] \/ \E n \in 1 .. MaxConn[d] : x \in pending'[d][n]
                 PROVE  clock[d][x] >= 1
      BY <1>1 DEF Heard
    <3>1. x \in shown[d] \/ \E n \in 1 .. MaxConn[d] : x \in pending[d][n]
      <4>1. CASE d = c /\ x = p
        BY <1>1, <4>1
      <4>2. CASE d = c /\ x # p
        <5>1. \A n \in 1 .. MaxConn[d] : pending'[d][n] \subseteq pending[d][n] \cup {p}
          BY <1>2, <4>2
        <5> QED
          BY <1>3, <4>2, <5>1
      <4>3. CASE d # c
        BY <1>2, <1>3, <4>3
      <4> QED
        BY <4>1, <4>2, <4>3
    <3> QED
      BY <2>1, <3>1 DEF Heard
  <2>3. CanAnswer(d, x)'
    BY <1>1, <1>3, <2>1 DEF CanAnswer
  <2> QED
    BY <2>2, <2>3
<1>7. PacketsFresh'
  <2>1. OwnClock' = OwnClock
    BY <1>1 DEF OwnClock
  <2> QED
    BY <1>1, <2>1 DEF PresenceInv, PacketsFresh
<1>8. \A d \in Client : up'[d] => conns'[d] >= 1
  BY <1>1 DEF PresenceInv
<1> QED
  BY <1>4, <1>5, <1>6, <1>7, <1>8 DEF PresenceInv

\* What a client says of others is no later than what they have, and whom it
\* says to be gone can still answer.
LEMMA EncodeFresh ==
  ASSUME TypeOK, PresenceInv, NEW c \in Client, NEW P \in SUBSET Client,
         \A p \in P : clock[c][p] >= 1
  PROVE  /\ EncodeAwarenessUpdate(c, P) \in SUBSET Entry
         /\ \A e \in EncodeAwarenessUpdate(c, P) : Fresh(e, OwnClock)
<1> SUFFICES ASSUME NEW p \in P
             PROVE  /\ [who |-> p, clock |-> clock[c][p], live |-> p \in shown[c]] \in Entry
                    /\ Fresh([who |-> p, clock |-> clock[c][p], live |-> p \in shown[c]], OwnClock)
  BY DEF EncodeAwarenessUpdate
<1> DEFINE e == [who |-> p, clock |-> clock[c][p], live |-> p \in shown[c]]
<1>1. p \in Client /\ clock[c][p] \in 1 .. MaxClock[p]
  BY DEF TypeOK
<1>2. e \in Entry
  <2>1. CASE p \in shown[c]
    <3>1. e = [who |-> p, clock |-> clock[c][p], live |-> TRUE]
      BY <2>1
    <3> QED
      BY <1>1, <3>1, EntryShape
  <2>2. CASE p \notin shown[c]
    <3>1. e = [who |-> p, clock |-> clock[c][p], live |-> FALSE]
      <4>1. (p \in shown[c]) = FALSE
        BY <2>2
      <4> QED
        BY <4>1, Zenon
    <3> QED
      BY <1>1, <3>1, EntryShape
  <2> QED
    BY <2>1, <2>2
<1>3. clock[c][p] <= OwnClock[p]
  BY <1>1 DEF PresenceInv, OwnStateRules, OwnClock
<1>4. p \notin shown[c] => clock[c][p] < MaxClock[p]
  BY <1>1 DEF PresenceInv, CanAnswer
<1> QED
  BY <1>2, <1>3, <1>4 DEF Fresh

\* The timer of a provider.
LEMMA SendStep ==
  ASSUME TypeOK, PresenceInv, NEW c \in Client, NEW n \in 1 .. MaxConn[c], SendPending(c, n)
  PROVE  TypeOK' /\ PresenceInv'
<1> DEFINE m == Msg("awareness-update", EncodeAwarenessUpdate(c, pending[c][n]))
<1>1. /\ pending' = [pending EXCEPT ![c][n] = {}]
      /\ UNCHANGED <<clock, shown, conns, up, open, joined, s2c>>
      /\ \/ c2s' = c2s /\ buffer' = buffer
         \/ /\ Cur(c) \in open /\ buffer' = buffer
            /\ c2s' = [c2s EXCEPT ![Cur(c)] = Append(@, m)]
         \/ c2s' = c2s /\ buffer' = [buffer EXCEPT ![c] = Append(@, m)]
  BY DEF SendPending, Emit, serverVars
<1>2. m \in Message /\ \A e \in m.data : Fresh(e, OwnClock)
  <2>1. pending[c][n] \in SUBSET Client
    BY DEF TypeOK
  <2>2. \A p \in pending[c][n] : clock[c][p] >= 1
    BY <2>1 DEF PresenceInv, Heard
  <2> QED
    BY <2>1, <2>2, EncodeFresh, MessageShape
<1> HIDE DEF m
<1>3. /\ DOMAIN pending = Client /\ DOMAIN pending' = Client
      /\ \A d \in Client : pending[d] \in [1 .. MaxConn[d] -> SUBSET Client]
      /\ \A d \in Client : d # c => pending'[d] = pending[d]
      /\ pending'[c] = [pending[c] EXCEPT ![n] = {}]
  BY <1>1 DEF TypeOK
<1>4. \A d \in Client : /\ pending'[d] \in [1 .. MaxConn[d] -> SUBSET Client]
                        /\ \A k \in 1 .. MaxConn[d] : pending'[d][k] \subseteq pending[d][k]
  BY <1>3
<1>5. OwnClock' = OwnClock
  BY <1>1 DEF OwnClock
<1>6. /\ buffer \in [Client -> Seq(Message)] /\ c2s \in [Socket -> Seq(Message)] /\ open \subseteq Socket
      /\ \A d \in Client : FreshPackets(buffer[d], OwnClock)
      /\ \A t \in Socket : FreshPackets(c2s[t], OwnClock) /\ FreshPackets(s2c[t], OwnClock)
  BY DEF TypeOK, PresenceInv, PacketsFresh
<1>7. \A q \in Seq(Message) : FreshPackets(q, OwnClock) =>
        Append(q, m) \in Seq(Message) /\ FreshPackets(Append(q, m), OwnClock)
  BY <1>2, AppendFresh
<1>8. /\ buffer' \in [Client -> Seq(Message)] /\ c2s' \in [Socket -> Seq(Message)]
      /\ \A d \in Client : FreshPackets(buffer'[d], OwnClock)
      /\ \A t \in Socket : FreshPackets(c2s'[t], OwnClock)
  <2>1. CASE c2s' = c2s /\ buffer' = buffer
    BY <1>6, <2>1
  <2>2. CASE Cur(c) \in open /\ buffer' = buffer /\ c2s' = [c2s EXCEPT ![Cur(c)] = Append(@, m)]
    <3>1. Append(c2s[Cur(c)], m) \in Seq(Message) /\ FreshPackets(Append(c2s[Cur(c)], m), OwnClock)
      BY <1>6, <1>7, <2>2
    <3> QED
      BY <1>6, <2>2, <3>1
  <2>3. CASE c2s' = c2s /\ buffer' = [buffer EXCEPT ![c] = Append(@, m)]
    <3>1. Append(buffer[c], m) \in Seq(Message) /\ FreshPackets(Append(buffer[c], m), OwnClock)
      BY <1>6, <1>7
    <3> QED
      BY <1>6, <2>3, <3>1
  <2> QED
    BY <1>1, <2>1, <2>2, <2>3
<1>9. TypeOK'
  BY <1>1, <1>3, <1>4, <1>8 DEF TypeOK
<1>10. PacketsFresh'
  BY <1>1, <1>5, <1>6, <1>8 DEF PacketsFresh
<1>11. ASSUME NEW d \in Client, NEW p \in Client
       PROVE  Heard(d, p)' /\ CanAnswer(d, p)'
  <2>1. Heard(d, p) /\ CanAnswer(d, p)
    BY DEF PresenceInv
  <2>2. \A k \in 1 .. MaxConn[d] : p \in pending'[d][k] => p \in pending[d][k]
    BY <1>4
  <2> QED
    BY <1>1, <2>1, <2>2 DEF Heard, CanAnswer
<1>12. OwnStateRules' /\ \A d \in Client : up'[d] => conns'[d] >= 1
  BY <1>1 DEF PresenceInv, OwnStateRules
<1> QED
  BY <1>9, <1>10, <1>11, <1>12 DEF PresenceInv

\* What a client makes of an update from the room.
LEMMA NewsTaken ==
  ASSUME TypeOK, PresenceInv, NEW c \in Client, NEW u \in SUBSET Entry,
         \A e \in u : Fresh(e, OwnClock)
  PROVE  \A e \in News(c, u) :
           /\ e.who \in Client /\ e.clock \in 1 .. MaxClock[e.who]
           /\ e.clock <= clock[e.who][e.who] /\ clock[c][e.who] <= e.clock
           /\ ~e.live => e.clock < MaxClock[e.who]
           /\ e.who = c => ~e.live /\ e.clock = clock[c][c]
<1> SUFFICES ASSUME NEW e \in News(c, u)
             PROVE  /\ e.who \in Client /\ e.clock \in 1 .. MaxClock[e.who]
                    /\ e.clock <= clock[e.who][e.who] /\ clock[c][e.who] <= e.clock
                    /\ ~e.live => e.clock < MaxClock[e.who]
                    /\ e.who = c => ~e.live /\ e.clock = clock[c][c]
  OBVIOUS
<1>1. /\ e \in u
      /\ \/ clock[c][e.who] < e.clock
         \/ clock[c][e.who] = e.clock /\ ~e.live /\ e.who \in shown[c]
  BY DEF News
<1>2. /\ e.who \in Client /\ e.clock \in 1 .. MaxClock[e.who]
      /\ clock[c][e.who] \in Nat /\ clock[e.who][e.who] \in Nat
  BY <1>1, EntryShape DEF TypeOK
<1>3. e.clock <= clock[e.who][e.who] /\ (~e.live => e.clock < MaxClock[e.who])
  BY <1>1, <1>2 DEF Fresh, OwnClock
<1> QED
  BY <1>1, <1>2, <1>3

LEMMA RemoteStep ==
  ASSUME TypeOK, PresenceInv, NEW c \in Client, HandleAwarenessRemoteUpdate(c)
  PROVE  TypeOK' /\ PresenceInv'
<1> DEFINE s == Cur(c)
           news == News(c, Head(s2c[s]).data)
           Has(p) == \E e \in news : e.who = p
           pick(p) == CHOOSE e \in news : e.who = p
           Gone(p) == \E e \in news : ~e.live /\ e.who # c /\ e.who = p
           Back(p) == \E e \in news : e.live /\ e.who = p
           P == {e.who : e \in {x \in news : x.live \/ clock[c][x.who] > 0}}
<1>1. /\ up[c] /\ s2c[s] # <<>> /\ s2c' = [s2c EXCEPT ![s] = Tail(@)]
      /\ UNCHANGED <<conns, up, buffer, open, joined, c2s>>
      /\ HandleAwarenessLocalUpdate(c, P)
  BY DEF HandleAwarenessRemoteUpdate, serverVars
<1>2. clock' = [clock EXCEPT ![c] = [p \in Client |->
                 IF Has(p) THEN IF p = c /\ ~pick(p).live THEN pick(p).clock + 1 ELSE pick(p).clock
                 ELSE clock[c][p]]]
  BY DEF HandleAwarenessRemoteUpdate
<1>3. shown' = [shown EXCEPT ![c] = (shown[c] \ {e.who : e \in {x \in news : ~x.live /\ x.who # c}})
                                       \cup {e.who : e \in {x \in news : x.live}}]
  BY DEF HandleAwarenessRemoteUpdate
<1>4. s \in Socket /\ s2c \in [Socket -> Seq(Message)] /\ \A t \in Socket : FreshPackets(s2c[t], OwnClock)
  BY <1>1, CurSocket DEF TypeOK, PresenceInv, PacketsFresh
<1>5. /\ Head(s2c[s]) \in Message /\ Tail(s2c[s]) \in Seq(Message)
      /\ FreshPackets(Tail(s2c[s]), OwnClock) /\ \A e \in Head(s2c[s]).data : Fresh(e, OwnClock)
  BY <1>1, <1>4, TakeFresh
<1>6. \A e \in news :
        /\ e.who \in Client /\ e.clock \in 1 .. MaxClock[e.who]
        /\ e.clock <= clock[e.who][e.who] /\ clock[c][e.who] <= e.clock
        /\ ~e.live => e.clock < MaxClock[e.who]
        /\ e.who = c => ~e.live /\ e.clock = clock[c][c]
  BY <1>5, MessageShape, NewsTaken
<1>7. \A p \in Client : Has(p) => pick(p) \in news /\ pick(p).who = p
  OBVIOUS
<1>8. /\ \A p \in Client : p \in shown'[c] <=> (p \in shown[c] /\ ~Gone(p)) \/ Back(p)
      /\ \A d \in Client : d # c => shown'[d] = shown[d]
      /\ shown' \in [Client -> SUBSET Client]
  <2>1. shown \in [Client -> SUBSET Client]
    BY DEF TypeOK
  <2>2. {e.who : e \in {x \in news : x.live}} \subseteq Client
    BY <1>6
  <2> QED
    BY <1>3, <2>1, <2>2
<1>9. /\ \A p \in Client : clock'[c][p] = IF Has(p)
           THEN IF p = c /\ ~pick(p).live THEN pick(p).clock + 1 ELSE pick(p).clock
           ELSE clock[c][p]
      /\ \A d \in Client : d # c => clock'[d] = clock[d]
      /\ DOMAIN clock' = Client /\ DOMAIN clock'[c] = Client
  BY <1>2 DEF TypeOK
<1>10. P \subseteq Client /\ \A p \in P : Has(p)
  BY <1>6
<1>11. \A p \in Client : (Has(p) /\ ~Back(p) => ~pick(p).live) /\ (Gone(p) \/ Back(p) => Has(p))
  BY <1>7
<1>12. ~Gone(c) /\ ~Back(c)
  BY <1>6
<1> HIDE DEF s, news, Has, pick, Gone, Back, P
<1>13. \A d, p \in Client : clock[d][p] \in Nat /\ clock[d][p] <= MaxClock[p]
                            /\ clock[d][p] <= clock[p][p] /\ MaxClock[p] \in Nat
  <2>1. \A d, p \in Client : clock[d][p] \in Nat /\ clock[d][p] <= MaxClock[p]
    BY DEF TypeOK
  <2>2. \A d, p \in Client : clock[d][p] <= clock[p][p]
    BY DEF PresenceInv, OwnStateRules
  <2> QED
    BY <2>1, <2>2
<1>14. ASSUME NEW p \in Client
       PROVE  /\ clock'[c][p] \in Nat /\ clock'[c][p] <= MaxClock[p] /\ clock[c][p] <= clock'[c][p]
              /\ Has(p) => clock'[c][p] >= 1
              /\ p # c => clock'[c][p] <= clock[p][p]
              /\ p # c /\ Has(p) => clock'[c][p] = pick(p).clock
  <2>1. CASE ~Has(p)
    BY <1>9, <1>13, <2>1
  <2>2. CASE Has(p)
    <3> DEFINE e == pick(p)
    <3>1. /\ e.clock \in 1 .. MaxClock[p] /\ e.clock <= clock[p][p] /\ clock[c][p] <= e.clock
          /\ ~e.live => e.clock < MaxClock[p]
      BY <1>6, <1>7, <2>2
    <3>2. clock'[c][p] = IF p = c /\ ~e.live THEN e.clock + 1 ELSE e.clock
      BY <1>9, <2>2
    <3> HIDE DEF e
    <3>3. CASE p = c /\ ~e.live
      BY <1>13, <2>2, <3>1, <3>2, <3>3
    <3>4. CASE ~(p = c /\ ~e.live)
      BY <1>13, <2>2, <3>1, <3>2, <3>4 DEF e
    <3> QED
      BY <3>3, <3>4
  <2> QED
    BY <2>1, <2>2
<1>15. /\ DOMAIN pending' = Client
       /\ \A d \in Client : pending'[d] \in [1 .. MaxConn[d] -> SUBSET Client]
       /\ \A d \in Client : d # c => pending'[d] = pending[d]
       /\ \A n \in 1 .. MaxConn[c] : pending'[c][n] \subseteq pending[c][n] \cup P
  BY <1>1, <1>10, LocalUpdate
<1>16. clock' \in [Client -> [Client -> Nat]] /\ \A d, p \in Client : clock'[d][p] <= MaxClock[p]
  <2>1. clock'[c] \in [Client -> Nat]
    <3>1. clock'[c] = [p \in Client |-> clock'[c][p]]
      BY <1>2 DEF TypeOK
    <3> QED
      BY <1>14, <3>1
  <2>2. clock \in [Client -> [Client -> Nat]]
    BY DEF TypeOK
  <2>3. clock' = [d \in Client |-> IF d = c THEN clock'[c] ELSE clock[d]]
    BY <1>2, <2>2
  <2> QED
    BY <1>9, <1>13, <1>14, <2>1, <2>2, <2>3
<1>17. s2c' \in [Socket -> Seq(Message)]
  BY <1>1, <1>4, <1>5
<1>18. TypeOK'
  BY <1>1, <1>8, <1>15, <1>16, <1>17 DEF TypeOK
<1>19. Carried
  <2>1. \A p \in Client : clock[p][p] <= clock'[p][p]
    BY <1>9, <1>13, <1>14
  <2> QED
    BY <1>16, <2>1, ClocksGoOn
<1>20. PacketsFresh'
  <2>1. \A t \in Socket : FreshPackets(s2c'[t], OwnClock')
    BY <1>1, <1>4, <1>5, <1>19 DEF Carried
  <2>2. (\A d \in Client : FreshPackets(buffer'[d], OwnClock'))
        /\ \A t \in Socket : FreshPackets(c2s'[t], OwnClock')
    BY <1>1, <1>19 DEF Carried, TypeOK, PresenceInv, PacketsFresh
  <2> QED
    BY <2>1, <2>2 DEF PacketsFresh
<1>21. OwnStateRules'
  <2> SUFFICES ASSUME NEW p \in Client, NEW d \in Client
               PROVE  p \in shown'[p] /\ clock'[d][p] <= clock'[p][p]
    BY DEF OwnStateRules
  <2>1. p \in shown'[p]
    BY <1>8, <1>12 DEF PresenceInv, OwnStateRules
  <2>2. clock[p][p] <= clock'[p][p] /\ clock'[p][p] \in Nat
    BY <1>9, <1>13, <1>14
  <2>3. CASE p = d
    BY <2>1, <2>2, <2>3
  <2>4. CASE p # d /\ d = c
    <3>1. clock'[d][p] <= clock[p][p] /\ clock'[p] = clock[p]
      BY <1>9, <1>14, <2>4
    <3> QED
      BY <2>1, <3>1
  <2>5. CASE p # d /\ d # c
    <3>1. /\ clock'[d][p] = clock[d][p] /\ clock[d][p] <= clock[p][p]
          /\ clock[d][p] \in Nat /\ clock[p][p] \in Nat
      BY <1>9, <1>13, <2>5
    <3> QED
      BY <2>1, <2>2, <3>1
  <2> QED
    BY <2>3, <2>4, <2>5
<1>22. ASSUME NEW d \in Client, NEW p \in Client
       PROVE  Heard(d, p)' /\ CanAnswer(d, p)'
  <2>1. Heard(d, p) /\ CanAnswer(d, p)
    BY DEF PresenceInv
  <2>2. CASE d # c
    <3>1. clock'[d] = clock[d] /\ shown'[d] = shown[d] /\ pending'[d] = pending[d]
      BY <1>8, <1>9, <1>15, <2>2
    <3> QED
      BY <2>1, <3>1 DEF Heard, CanAnswer
  <2>3. CASE d = c
    <3>1. ASSUME NEW n \in 1 .. MaxConn[c], p \in pending'[c][n]
          PROVE  p \in pending[c][n] \/ Has(p)
      BY <1>10, <1>15, <3>1
    <3>2. p \in shown'[c] => p \in shown[c] \/ Has(p)
      BY <1>8, <1>11
    <3>3. Heard(c, p)'
      BY <1>13, <1>14, <2>1, <2>3, <3>1, <3>2 DEF Heard
    <3>4. CanAnswer(c, p)'
      <4> SUFFICES ASSUME p \notin shown'[c], clock'[c][p] > 0
                   PROVE  clock'[c][p] < MaxClock[p]
        BY DEF CanAnswer
      <4>1. ~Back(p) /\ p # c
        BY <1>8, <1>21 DEF OwnStateRules
      <4>2. CASE Has(p)
        <5>1. pick(p) \in news /\ pick(p).who = p /\ ~pick(p).live
          BY <1>7, <1>11, <4>1, <4>2
        <5> QED
          BY <1>6, <1>14, <4>1, <4>2, <5>1
      <4>3. CASE ~Has(p)
        BY <1>8, <1>9, <1>11, <2>1, <2>3, <4>3 DEF CanAnswer
      <4> QED
        BY <4>2, <4>3
    <3> QED
      BY <2>3, <3>3, <3>4
  <2> QED
    BY <2>2, <2>3
<1>23. \A d \in Client : up'[d] => conns'[d] >= 1
  BY <1>1 DEF PresenceInv
<1> QED
  BY <1>18, <1>20, <1>21, <1>22, <1>23 DEF PresenceInv

\* A packet is taken, and what it says goes to nobody or to those in S.
LEMMA ServerStepInv ==
  ASSUME TypeOK, PresenceInv, NEW s \in Socket, ServerStep(s)
  PROVE  TypeOK' /\ PresenceInv'
<1> DEFINE m == Head(c2s[s])
<1>1. /\ UNCHANGED awarenessVars /\ UNCHANGED <<conns, up, buffer, open>>
      /\ joined' \in {joined, joined \cup {s}} /\ s \in open
      /\ \E type : ServerReceives(s, type)
      /\ s2c' = s2c \/ \E S \in SUBSET Socket :
           s2c' = [t \in Socket |-> IF t \in S THEN Append(s2c[t], m) ELSE s2c[t]]
  <2>1. CASE OnJoinRoom(s)
    BY <2>1 DEF OnJoinRoom, ServerReceives
  <2>2. CASE DropBeforeJoin(s)
    BY <2>2 DEF DropBeforeJoin, ServerReceives, serverVars
  <2>3. CASE OnAwarenessUpdate(s)
    <3> DEFINE S == {t \in Socket : t \in joined \ {s} /\ Live(t)}
    <3>1. s2c' = [t \in Socket |-> IF t \in S THEN Append(s2c[t], m) ELSE s2c[t]]
      BY <2>3 DEF OnAwarenessUpdate
    <3>2. S \in SUBSET Socket
      OBVIOUS
    <3> HIDE DEF S
    <3> QED
      BY <2>3, <3>1, <3>2 DEF OnAwarenessUpdate, ServerReceives, serverVars
  <2> QED
    BY <2>1, <2>2, <2>3 DEF ServerStep
<1>2. /\ c2s' \in [Socket -> Seq(Message)]
      /\ m \in Message /\ \A e \in m.data : Fresh(e, OwnClock)
      /\ \A t \in Socket : FreshPackets(c2s'[t], OwnClock)
  BY <1>1, ServerTakes
<1> HIDE DEF m
<1>3. /\ buffer \in [Client -> Seq(Message)] /\ s2c \in [Socket -> Seq(Message)]
      /\ \A d \in Client : FreshPackets(buffer[d], OwnClock)
      /\ \A t \in Socket : FreshPackets(s2c[t], OwnClock)
  BY DEF TypeOK, PresenceInv, PacketsFresh
<1>4. \A t \in Socket : /\ Append(s2c[t], m) \in Seq(Message)
                        /\ FreshPackets(Append(s2c[t], m), OwnClock)
  BY <1>2, <1>3, AppendFresh
<1>5. s2c' \in [Socket -> Seq(Message)] /\ \A t \in Socket : FreshPackets(s2c'[t], OwnClock)
  BY <1>1, <1>3, <1>4
<1>6. TypeOK'
  BY <1>1, <1>2, <1>5 DEF TypeOK, awarenessVars
<1>7. PacketsFresh'
  BY <1>1, <1>2, <1>3, <1>5, AwarenessStays DEF PacketsFresh
<1>8. \A d \in Client : up'[d] => conns'[d] >= 1
  BY <1>1 DEF PresenceInv
<1> QED
  BY <1>1, <1>6, <1>7, <1>8, AwarenessStays DEF PresenceInv

LEMMA OnDisconnectStep ==
  ASSUME TypeOK, PresenceInv, NEW s \in Socket, OnDisconnect(s)
  PROVE  TypeOK' /\ PresenceInv'
<1>1. /\ UNCHANGED awarenessVars /\ UNCHANGED <<conns, up, buffer, s2c>>
      /\ open' = open \ {s} /\ joined' = joined \ {s} /\ c2s' = [c2s EXCEPT ![s] = <<>>]
  BY DEF OnDisconnect
<1>2. c2s' \in [Socket -> Seq(Message)]
  BY <1>1, NoneFresh DEF TypeOK
<1>3. TypeOK'
  BY <1>1, <1>2 DEF TypeOK, awarenessVars
<1>4. PacketsFresh'
  <2>1. \A t \in Socket : FreshPackets(c2s'[t], OwnClock)
    BY <1>1, NoneFresh DEF TypeOK, PresenceInv, PacketsFresh
  <2> QED
    BY <1>1, <2>1, AwarenessStays DEF PresenceInv, PacketsFresh
<1>5. \A d \in Client : up'[d] => conns'[d] >= 1
  BY <1>1 DEF PresenceInv
<1> QED
  BY <1>1, <1>3, <1>4, <1>5, AwarenessStays DEF PresenceInv

-----------------------------------------------------------------------------
(* The theorems.                                                           *)

LEMMA PresenceStart ==
  ASSUME Init
  PROVE  TypeOK /\ PresenceInv
<1>1. /\ clock = [c \in Client |-> [p \in Client |-> IF p = c THEN 1 ELSE 0]]
      /\ shown = [c \in Client |-> {c}]
      /\ pending = [c \in Client |-> [n \in 1 .. MaxConn[c] |-> {}]]
      /\ conns = [c \in Client |-> 0] /\ up = [c \in Client |-> FALSE]
      /\ buffer = [c \in Client |-> <<>>] /\ open = {} /\ joined = {}
      /\ c2s = [s \in Socket |-> <<>>] /\ s2c = [s \in Socket |-> <<>>]
  BY DEF Init, CreateAwareness
<1>2. \A c, p \in Client : clock[c][p] = (IF p = c THEN 1 ELSE 0) /\ clock[c][p] <= MaxClock[p]
  BY <1>1
<1>3. TypeOK
  <2>1. \A c \in Client : pending[c] \in [1 .. MaxConn[c] -> SUBSET Client]
    BY <1>1
  <2>2. clock \in [Client -> [Client -> Nat]] /\ conns \in [Client -> Nat]
        /\ \A c \in Client : conns[c] <= MaxConn[c]
    BY <1>1
  <2> QED
    BY <1>1, <1>2, <2>1, <2>2, NoneFresh DEF TypeOK
<1>4. ASSUME NEW c \in Client, NEW p \in Client
      PROVE  Heard(c, p) /\ CanAnswer(c, p)
  BY <1>1, <1>2 DEF Heard, CanAnswer
<1>5. PacketsFresh
  BY <1>1, NoneFresh DEF PacketsFresh
<1>6. OwnStateRules
  BY <1>1, <1>2 DEF OwnStateRules
<1>7. \A c \in Client : ~up[c]
  BY <1>1
<1> QED
  BY <1>3, <1>4, <1>5, <1>6, <1>7 DEF PresenceInv

\* In every reachable state nothing about a client is ahead of it.
LEMMA PresenceInvariance == Spec => [](TypeOK /\ PresenceInv)
<1>1. Init => TypeOK /\ PresenceInv
  BY PresenceStart
<1>2. TypeOK /\ PresenceInv /\ [Next]_vars => (TypeOK /\ PresenceInv)'
  <2> SUFFICES ASSUME TypeOK, PresenceInv, [Next]_vars
               PROVE  TypeOK' /\ PresenceInv'
    OBVIOUS
  <2>1. ASSUME NEW c \in Client, ClientNext(c)
        PROVE  TypeOK' /\ PresenceInv'
    BY <2>1, ConnectStep, DisconnectStep, SetStateStep, RemoveStep, SendStep, RemoteStep
       DEF ClientNext
  <2>2. CASE UNCHANGED vars
    <3>1. TypeOK'
      BY <2>2 DEF vars, awarenessVars, serverVars, TypeOK
    <3>2. UNCHANGED awarenessVars /\ UNCHANGED <<up, conns, buffer, c2s, s2c>>
      BY <2>2 DEF vars
    <3>3. PacketsFresh'
      BY <3>2, AwarenessStays DEF PresenceInv, PacketsFresh
    <3>4. \A d \in Client : up'[d] => conns'[d] >= 1
      BY <3>2 DEF PresenceInv
    <3> QED
      BY <3>1, <3>2, <3>3, <3>4, AwarenessStays DEF PresenceInv
  <2> QED
    BY <2>1, <2>2, ServerStepInv, OnDisconnectStep DEF Next
<1> QED
  BY <1>1, <1>2, PTL DEF Spec

\* The type invariant of the awareness, the providers and the channels.
THEOREM PresenceTyping == Spec => []TypeOK
BY PresenceInvariance, PTL

\* No entry in any Awareness, buffer or channel is later than the state its
\* client has, and a client that was removed has a clock left to answer with.
THEOREM NothingAhead == Spec => []PresenceInv
BY PresenceInvariance, PTL

\* A client keeps its own state, and nobody has a later one than it.
THEOREM OwnState == Spec => []OwnStateRules
<1>1. PresenceInv => OwnStateRules
  BY DEF PresenceInv
<1> QED
  BY <1>1, PresenceInvariance, PTL

=============================================================================
