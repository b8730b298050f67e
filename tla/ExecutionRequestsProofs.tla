----------------------- MODULE ExecutionRequestsProofs -----------------------
(***************************************************************************)
(* Running code, for any clients, runs, connections and restarts: the      *)
(* output shown is that of the client's own last run, and a client has one *)
(* run at a time.  Both rest on RequestsInv: a run has one place on its    *)
(* way from the click to the page.                                         *)
(***************************************************************************)
EXTENDS ExecutionRequests, SequenceTheorems, TLAPS

USE MaxRunAssumption, MaxConnAssumption, MaxRestartAssumption

\* Everything the steps keep.
FullInv == TypeOK /\ RequestsInv

-----------------------------------------------------------------------------
(* Sockets, runs and packets.                                              *)

\* What the members of Socket and Run are.
LEMMA SocketShape ==
  /\ \A c \in Client : \A n \in 1 .. MaxConn[c] : <<c, n>> \in Socket
  /\ \A s \in Socket : s[1] \in Client /\ s[2] \in 1 .. MaxConn[s[1]] /\ s = <<s[1], s[2]>>
BY DEF Socket

LEMMA RunShape ==
  /\ \A c \in Client : \A n \in 1 .. MaxRun[c] : <<c, n>> \in Run
  /\ \A r \in Run : r[1] \in Client /\ r[2] \in 1 .. MaxRun[r[1]] /\ r = <<r[1], r[2]>>
BY DEF Run

LEMMA CurSocket ==
  ASSUME TypeOK, NEW c \in Client, ConnInv(c), connected[c]
  PROVE  Cur(c) \in SocketsOf(c)
<1>1. conns[c] \in 1 .. MaxConn[c]
  BY DEF TypeOK, ConnInv
<1> QED
  BY <1>1, SocketShape DEF Cur, SocketsOf

\* The two kinds of packets.
LEMMA PacketKinds ==
  /\ JoinRoom \in Packet /\ JoinRoom.type = "join-room"
  /\ \A r : ExecuteCode(r).type = "execute-code" /\ ExecuteCode(r).run = r
            /\ ExecuteCode(r) # JoinRoom
  /\ \A r \in Run : ExecuteCode(r) \in Packet
  /\ \A p \in Packet : p # JoinRoom => p.run \in Run /\ p = ExecuteCode(p.run)
<1>1. JoinRoom.type = "join-room" /\ \A r : ExecuteCode(r).type = "execute-code"
  BY DEF JoinRoom, ExecuteCode
<1>2. \A r : ExecuteCode(r).run = r
  BY DEF ExecuteCode
<1>3. \A r : ExecuteCode(r) # JoinRoom
  BY <1>1
<1> QED
  BY <1>1, <1>2, <1>3 DEF Packet

\* An empty queue of packets.
LEMMA NoPackets == <<>> \in Seq(Packet) /\ ~HasCode(<<>>) /\ OneCode(<<>>) /\ \A r : OnlyCode(<<>>, r)
<1>1. <<>> \in Seq(Packet) /\ Len(<<>>) = 0
  BY EmptySeq
<1> QED
  BY <1>1 DEF HasCode, OneCode, OnlyCode

\* Appending a packet.
LEMMA AppendPacket ==
  ASSUME NEW q \in Seq(Packet), NEW p \in Packet
  PROVE  /\ Append(q, p) \in Seq(Packet)
         /\ HasCode(Append(q, p)) <=> HasCode(q) \/ p # JoinRoom
         /\ ~HasCode(q) \/ (OneCode(q) /\ p = JoinRoom) => OneCode(Append(q, p))
         /\ \A r : OnlyCode(q, r) /\ p \in {JoinRoom, ExecuteCode(r)} => OnlyCode(Append(q, p), r)
         /\ \A r : ~HasCode(q) => OnlyCode(q, r)
<1> DEFINE a == Append(q, p)
<1>1. /\ a \in Seq(Packet) /\ Len(q) \in Nat /\ Len(a) = Len(q) + 1
      /\ \A i \in 1 .. Len(q) : a[i] = q[i]
      /\ a[Len(q) + 1] = p
  BY AppendProperties, LenProperties
<1> HIDE DEF a
<1>2. \A i \in 1 .. Len(a) : (i \in 1 .. Len(q) /\ a[i] = q[i]) \/ (i = Len(q) + 1 /\ a[i] = p)
  BY <1>1
<1>3. \A i \in 1 .. Len(q) : i \in 1 .. Len(a) /\ a[i] = q[i]
  BY <1>1
<1>4. Len(q) + 1 \in 1 .. Len(a)
  BY <1>1
<1>5. HasCode(a) <=> HasCode(q) \/ p # JoinRoom
  BY <1>1, <1>2, <1>3, <1>4 DEF HasCode
<1>6. ~HasCode(q) \/ (OneCode(q) /\ p = JoinRoom) => OneCode(a)
  BY <1>2 DEF HasCode, OneCode
<1>7. \A r : OnlyCode(q, r) /\ p \in {JoinRoom, ExecuteCode(r)} => OnlyCode(a, r)
  BY <1>2 DEF OnlyCode
<1>8. \A r : ~HasCode(q) => OnlyCode(q, r)
  BY DEF HasCode, OnlyCode
<1> QED
  BY <1>1, <1>5, <1>6, <1>7, <1>8 DEF a

\* Taking the first packet.
LEMMA TakePacket ==
  ASSUME NEW q \in Seq(Packet), q # <<>>
  PROVE  /\ Head(q) \in Packet /\ Tail(q) \in Seq(Packet)
         /\ HasCode(q) <=> HasCode(Tail(q)) \/ Head(q) # JoinRoom
         /\ OneCode(q) => OneCode(Tail(q))
         /\ OneCode(q) /\ Head(q) # JoinRoom => ~HasCode(Tail(q))
         /\ \A r : OnlyCode(q, r) => OnlyCode(Tail(q), r) /\ Head(q) \in {JoinRoom, ExecuteCode(r)}
<1> DEFINE t == Tail(q)
           h == Head(q)
<1>1. /\ h \in Packet /\ t \in Seq(Packet) /\ Len(q) \in Nat /\ Len(q) > 0
      /\ Len(t) = Len(q) - 1 /\ h = q[1]
      /\ \A i \in 1 .. Len(t) : t[i] = q[i + 1]
  BY HeadTailProperties, LenProperties, EmptySeq
<1> HIDE DEF t, h
<1>2. \A i \in 1 .. Len(t) : i + 1 \in 1 .. Len(q) /\ i + 1 # 1 /\ t[i] = q[i + 1]
  BY <1>1
<1>3. \A i \in 1 .. Len(q) : i = 1 \/ (i - 1 \in 1 .. Len(t) /\ q[i] = t[i - 1])
  BY <1>1
<1>4. 1 \in 1 .. Len(q)
  BY <1>1
<1>5. HasCode(q) <=> HasCode(t) \/ h # JoinRoom
  BY <1>1, <1>2, <1>3, <1>4 DEF HasCode
<1>6. OneCode(q) => OneCode(t)
  <2> SUFFICES ASSUME OneCode(q), NEW i \in 1 .. Len(t), NEW j \in 1 .. Len(t),
                      t[i] # JoinRoom, t[j] # JoinRoom
               PROVE  i = j
    BY DEF OneCode
  <2>1. i + 1 = j + 1
    BY <1>2 DEF OneCode
  <2> QED
    BY <2>1
<1>7. OneCode(q) /\ h # JoinRoom => ~HasCode(t)
  BY <1>1, <1>2, <1>4 DEF HasCode, OneCode
<1>8. \A r : OnlyCode(q, r) => OnlyCode(t, r) /\ h \in {JoinRoom, ExecuteCode(r)}
  BY <1>1, <1>2, <1>4 DEF OnlyCode
<1> QED
  BY <1>1, <1>5, <1>6, <1>7, <1>8 DEF t, h

\* What the predicate At says of each stage.
LEMMA AtStages ==
  ASSUME NEW s
  PROVE  /\ At(s, "sent") <=> HasCode(c2s[s])
         /\ At(s, "adding") <=> <<s, LastRun(s[1])>> \in adding
         /\ At(s, "waiting") <=> <<s, LastRun(s[1])>> \in waiting
         /\ At(s, "answered") <=> s2c[s] # <<>>
         /\ At(s, "sent")' <=> HasCode(c2s'[s])
         /\ At(s, "adding")' <=> <<s, LastRun(s[1])'>> \in adding'
         /\ At(s, "waiting")' <=> <<s, LastRun(s[1])'>> \in waiting'
         /\ At(s, "answered")' <=> s2c'[s] # <<>>
BY DEF At

-----------------------------------------------------------------------------
(* Types.                                                                  *)

\* A packet taken off a socket's channel.
LEMMA ReceivesType ==
  ASSUME TypeOK, NEW s \in Socket, NEW type, ServerReceives(s, type)
  PROVE  /\ c2s[s] \in Seq(Packet) /\ c2s[s] # <<>>
         /\ Head(c2s[s]) \in Packet /\ Head(c2s[s]).type = type
         /\ c2s' \in [Socket -> Seq(Packet)]
         /\ c2s'[s] = Tail(c2s[s])
         /\ \A t \in Socket : t # s => c2s'[t] = c2s[t]
<1>1. c2s[s] \in Seq(Packet) /\ c2s[s] # <<>>
  BY DEF ServerReceives, TypeOK
<1>2. Head(c2s[s]) \in Packet /\ Tail(c2s[s]) \in Seq(Packet)
  BY <1>1, TakePacket
<1> QED
  BY <1>1, <1>2 DEF ServerReceives, TypeOK

\* The handler of a run answers it.
LEMMA AnswerType ==
  ASSUME TypeOK, NEW s \in Socket, NEW r \in Run, NEW status \in Status, AnswerRun(s, r, status)
  PROVE  /\ s2c' \in [Socket -> Seq(Result)]
         /\ [run |-> r, status |-> status] \in Result
         /\ s2c'[s] = IF Live(s) THEN Append(s2c[s], [run |-> r, status |-> status]) ELSE s2c[s]
         /\ \A t \in Socket : t # s => s2c'[t] = s2c[t]
<1>1. [run |-> r, status |-> status] \in Result
  BY DEF Result
<1>2. \A t \in Socket : Append(s2c[t], [run |-> r, status |-> status]) \in Seq(Result)
  BY <1>1, AppendProperties DEF TypeOK
<1> QED
  BY <1>1, <1>2 DEF AnswerRun, ServerEmit, TypeOK

LEMMA ConnectType ==
  ASSUME TypeOK, NEW c \in Client, HandleConnect(c)
  PROVE  TypeOK'
<1> DEFINE s == <<c, conns[c] + 1>>
<1>1. s \in Socket
  <2>1. conns[c] + 1 \in 1 .. MaxConn[c]
    BY DEF HandleConnect, TypeOK
  <2> QED
    BY <2>1, SocketShape
<1>2. Append(sendBuffer[c], JoinRoom) \in Seq(Packet)
  BY AppendPacket, PacketKinds DEF TypeOK
<1>3. c2s' \in [Socket -> Seq(Packet)]
  BY <1>2 DEF HandleConnect, TypeOK
<1>4. sendBuffer' \in [Client -> Seq(Packet)]
  BY NoPackets DEF HandleConnect, TypeOK
<1>5. conns' \in [Client -> Nat] /\ connected' \in [Client -> BOOLEAN]
  BY DEF HandleConnect, TypeOK
<1>6. open' \in SUBSET Socket /\ joined' \in SUBSET open'
  BY <1>1 DEF HandleConnect, TypeOK
<1> QED
  BY <1>3, <1>4, <1>5, <1>6 DEF HandleConnect, TypeOK, pageVars, handlerVars

LEMMA StartRunType ==
  ASSUME TypeOK, NEW c \in Client, StartRun(c)
  PROVE  TypeOK'
<1> DEFINE r == <<c, runs[c] + 1>>
<1>1. r \in Run
  <2>1. runs[c] + 1 \in 1 .. MaxRun[c]
    BY DEF StartRun, TypeOK
  <2> QED
    BY <2>1, RunShape
<1>2. ExecuteCode(r) \in Packet
  BY <1>1, PacketKinds
<1>3. \A q \in Seq(Packet) : Append(q, ExecuteCode(r)) \in Seq(Packet)
  BY <1>2, AppendPacket
<1>4. c2s' \in [Socket -> Seq(Packet)] /\ sendBuffer' \in [Client -> Seq(Packet)]
  <2>1. /\ c2s \in [Socket -> Seq(Packet)] /\ sendBuffer \in [Client -> Seq(Packet)]
        /\ open \subseteq Socket
    BY DEF TypeOK
  <2>2. CASE connected[c] /\ Cur(c) \in open
    <3>1. c2s' = [c2s EXCEPT ![Cur(c)] = Append(@, ExecuteCode(r))] /\ sendBuffer' = sendBuffer
      BY <2>2 DEF StartRun
    <3>2. Append(c2s[Cur(c)], ExecuteCode(r)) \in Seq(Packet)
      BY <1>3, <2>1, <2>2
    <3> QED
      BY <2>1, <3>1, <3>2
  <2>3. CASE connected[c] /\ Cur(c) \notin open
    BY <2>1, <2>3 DEF StartRun
  <2>4. CASE ~connected[c]
    <3>1. sendBuffer' = [sendBuffer EXCEPT ![c] = Append(@, ExecuteCode(r))] /\ c2s' = c2s
      BY <2>4 DEF StartRun
    <3>2. Append(sendBuffer[c], ExecuteCode(r)) \in Seq(Packet)
      BY <1>3, <2>1
    <3> QED
      BY <2>1, <3>1, <3>2
  <2> QED
    BY <2>2, <2>3, <2>4
<1>5. /\ runs' \in [Client -> Nat] /\ \A x \in Client : runs'[x] <= MaxRun[x]
      /\ via' \in [Client -> Nat]
  BY DEF StartRun, TypeOK
<1>6. /\ isRunning' \in [Client -> BOOLEAN]
      /\ output' \in [Client -> Result \cup {None}]
      /\ view' \in [Client -> [running : BOOLEAN, connected : BOOLEAN]]
  BY DEF StartRun, TypeOK
<1> QED
  BY <1>4, <1>5, <1>6 DEF StartRun, TypeOK, serverVars, handlerVars

LEMMA ResultType ==
  ASSUME TypeOK, NEW c \in Client, ConnInv(c), HandleExecutionResult(c)
  PROVE  TypeOK'
<1>1. Cur(c) \in Socket
  BY CurSocket DEF HandleExecutionResult, SocketsOf
<1>2. Head(s2c[Cur(c)]) \in Result /\ Tail(s2c[Cur(c)]) \in Seq(Result)
  BY <1>1, HeadTailProperties DEF HandleExecutionResult, TypeOK
<1> QED
  BY <1>2 DEF HandleExecutionResult, TypeOK, serverVars, handlerVars

\* The handler adds the job, waits for it, and answers.
LEMMA HandlerType ==
  ASSUME TypeOK, NEW s \in Socket, NEW r \in Run, HandlerStep(s, r)
  PROVE  TypeOK'
<1>1. CASE JobAdded(s, r)
  BY <1>1 DEF JobAdded, Queue!Add, TypeOK, clientVars, serverVars, pageVars
<1>2. CASE WaitSettles(s, r)
  <2>1. (IF outcome[r] = "error" THEN "failed" ELSE outcome[r]) \in Status
    BY <1>2, StatusAssumption DEF WaitSettles, Queue!Outcome
  <2>2. s2c' \in [Socket -> Seq(Result)]
    BY <1>2, <2>1, AnswerType DEF WaitSettles
  <2> QED
    BY <1>2, <2>2 DEF WaitSettles, TypeOK, clientVars, serverVars, pageVars
<1>3. CASE HandlerThrows(s, r)
  <2>1. s2c' \in [Socket -> Seq(Result)]
    BY <1>3, AnswerType, StatusAssumption DEF HandlerThrows
  <2>2. outcome' \in [Run -> {"none", "pending"} \cup Queue!Outcome]
    BY <1>3 DEF HandlerThrows, Queue!Add, TypeOK
  <2> QED
    BY <1>3, <2>1, <2>2 DEF HandlerThrows, TypeOK, clientVars, serverVars, pageVars
<1> QED
  BY <1>1, <1>2, <1>3 DEF HandlerStep

\* Every step keeps the types.
LEMMA TypeStep ==
  ASSUME TypeOK, RequestsInv, [Next]_vars
  PROVE  TypeOK'
<1>1. ASSUME NEW c \in Client, HandleDisconnect(c)
      PROVE  TypeOK'
  <2>1. s2c' \in [Socket -> Seq(Result)]
    BY <1>1, EmptySeq DEF HandleDisconnect, TypeOK
  <2> QED
    BY <1>1, <2>1 DEF HandleDisconnect, TypeOK, pageVars, serverVars, handlerVars
<1>2. ASSUME NEW c \in Client, Commit(c)
      PROVE  TypeOK'
  BY <1>2 DEF Commit, TypeOK, serverVars, handlerVars
<1>3. ASSUME NEW s \in Socket, OnJoinRoom(s)
      PROVE  TypeOK'
  <2>1. c2s' \in [Socket -> Seq(Packet)]
    BY <1>3, ReceivesType DEF OnJoinRoom
  <2> QED
    BY <1>3, <2>1 DEF OnJoinRoom, ServerReceives, TypeOK, clientVars, pageVars, handlerVars
<1>4. ASSUME NEW s \in Socket, OnExecuteCode(s)
      PROVE  TypeOK'
  <2>1. /\ c2s' \in [Socket -> Seq(Packet)]
        /\ Head(c2s[s]) \in Packet /\ Head(c2s[s]).type = "execute-code"
    BY <1>4, ReceivesType DEF OnExecuteCode
  <2>2. Head(c2s[s]).run \in Run
    BY <2>1, PacketKinds
  <2> QED
    BY <1>4, <2>1, <2>2 DEF OnExecuteCode, TypeOK, clientVars, pageVars, serverVars
<1>5. ASSUME NEW s \in Socket, OnDisconnect(s)
      PROVE  TypeOK'
  <2>1. c2s' \in [Socket -> Seq(Packet)]
    BY <1>5, NoPackets DEF OnDisconnect, TypeOK
  <2> QED
    BY <1>5, <2>1 DEF OnDisconnect, TypeOK, clientVars, pageVars, handlerVars
<1>6. ASSUME NEW r \in Run, JobFinishes(r)
      PROVE  TypeOK'
  BY <1>6 DEF JobFinishes, Queue!Finish, TypeOK, clientVars, pageVars, serverVars
<1>7. ASSUME ServerRestart
      PROVE  TypeOK'
  <2>1. c2s' \in [Socket -> Seq(Packet)]
    BY <1>7, NoPackets DEF ServerRestart
  <2>2. outcome' \in [Run -> {"none", "pending"} \cup Queue!Outcome]
    BY <1>7 DEF ServerRestart, TypeOK
  <2> QED
    BY <1>7, <2>1, <2>2 DEF ServerRestart, TypeOK, clientVars, pageVars
<1>8. ASSUME UNCHANGED vars
      PROVE  TypeOK'
  BY <1>8 DEF vars, clientVars, pageVars, serverVars, handlerVars, TypeOK
<1>9. ASSUME NEW c \in Client, HandleExecutionResult(c)
      PROVE  TypeOK'
  BY <1>9, ResultType DEF RequestsInv, ClientInv
<1> QED
  BY <1>1, <1>2, <1>3, <1>4, <1>5, <1>6, <1>7, <1>8, <1>9, ConnectType, StartRunType, HandlerType
     DEF Next, ClientNext, ServerNext, HandleRunCode

-----------------------------------------------------------------------------
(* Steps that put nothing new on its way for a client.                     *)

\* Nothing comes on its way for client c, and what it is shown is kept.
Fades(c) ==
  /\ runs'[c] = runs[c] /\ isRunning'[c] = isRunning[c] /\ output'[c] = output[c]
  /\ isRunning'[c] => view'[c].running
  /\ sendBuffer'[c] = sendBuffer[c] \/ ~HasCode(sendBuffer'[c])
  /\ \A s \in SocketsOf(c) :
       /\ \/ c2s'[s] = c2s[s]
          \/ ~HasCode(c2s'[s])
          \/ c2s[s] # <<>> /\ c2s'[s] = Tail(c2s[s])
       /\ \A r : <<s, r>> \in adding' => <<s, r>> \in adding
       /\ \A r : <<s, r>> \in waiting' => <<s, r>> \in waiting
       /\ s2c'[s] \in {s2c[s], <<>>}

\* The outcome of a run of c changes only while it is being added or pending.
Keeps(c) ==
  \A r \in Run : r[1] = c =>
    \/ outcome'[r] = outcome[r]
    \/ outcome[r] = "pending"
    \/ outcome[r] = "none" /\ \E s \in SocketsOf(c) : <<s, r>> \in adding /\ <<s, r>> \notin adding'

\* A queue of packets without an execute-code.
LEMMA NoCode ==
  ASSUME NEW q, ~HasCode(q)
  PROVE  OneCode(q) /\ \A r : OnlyCode(q, r)
BY DEF HasCode, OneCode, OnlyCode

\* What is on its way for a client is of its last run, a run of its own.
LEMMA OnItsWay ==
  ASSUME TypeOK, NEW c \in Client, LastOnly(c)
  PROVE  /\ HasCode(sendBuffer[c]) => LastRun(c) \in Run
         /\ \A s \in SocketsOf(c), x \in Stage : At(s, x) => LastRun(c) \in Run
<1>1. ASSUME NEW q \in Seq(Packet), OnlyCode(q, LastRun(c)), HasCode(q)
      PROVE  LastRun(c) \in Run
  <2>1. PICK i \in 1 .. Len(q) : q[i] # JoinRoom
    BY <1>1 DEF HasCode
  <2>2. q[i] = ExecuteCode(LastRun(c)) /\ q[i] \in Packet
    BY <1>1, <2>1, ElementOfSeq DEF OnlyCode
  <2> QED
    BY <2>1, <2>2, PacketKinds
<1>2. HasCode(sendBuffer[c]) => LastRun(c) \in Run
  BY <1>1 DEF TypeOK, LastOnly
<1>3. ASSUME NEW s \in SocketsOf(c), NEW x \in Stage, At(s, x)
      PROVE  LastRun(c) \in Run
  <2>1. s \in Socket /\ s[1] = c
    BY DEF SocketsOf
  <2>2. CASE x = "sent"
    BY <1>1, <1>3, <2>1, <2>2, AtStages DEF TypeOK, LastOnly
  <2>3. CASE x \in {"adding", "waiting"}
    <3>1. <<s, LastRun(c)>> \in adding \cup waiting
      BY <1>3, <2>1, <2>3, AtStages
    <3>2. adding \cup waiting \subseteq Socket \X Run
      BY DEF TypeOK
    <3> QED
      BY <3>1, <3>2
  <2>4. CASE x = "answered"
    <3>1. s2c[s] \in Seq(Result) /\ s2c[s] # <<>>
      BY <1>3, <2>1, <2>4, AtStages DEF TypeOK
    <3>2. 1 \in 1 .. Len(s2c[s]) /\ s2c[s][1] \in Result
      BY <3>1, EmptySeq, LenProperties, ElementOfSeq
    <3> QED
      BY <3>2 DEF LastOnly, Result
  <2> QED
    BY <2>2, <2>3, <2>4 DEF Stage
<1> QED
  BY <1>2, <1>3

\* No place is taken that was not.
LEMMA FadesAt ==
  ASSUME TypeOK, NEW c \in Client, Fades(c)
  PROVE  /\ LastRun(c)' = LastRun(c)
         /\ HasCode(sendBuffer'[c]) => sendBuffer'[c] = sendBuffer[c]
         /\ \A s \in SocketsOf(c), x \in Stage : At(s, x)' => At(s, x)
<1>1. LastRun(c)' = LastRun(c)
  BY DEF Fades, LastRun
<1>2. ASSUME NEW s \in SocketsOf(c), NEW x \in Stage, At(s, x)'
      PROVE  At(s, x)
  <2>1. s \in Socket /\ s[1] = c /\ c2s[s] \in Seq(Packet)
    BY DEF SocketsOf, TypeOK
  <2>2. HasCode(c2s'[s]) => HasCode(c2s[s])
    BY <2>1, TakePacket DEF Fades
  <2>3. LastRun(s[1])' = LastRun(s[1])
    BY <1>1, <2>1
  <2>4. CASE x = "sent"
    BY <1>2, <2>2, <2>3, <2>4, AtStages
  <2>5. CASE x \in {"adding", "waiting"}
    BY <1>2, <2>3, <2>5, AtStages DEF Fades
  <2>6. CASE x = "answered"
    BY <1>2, <2>6, AtStages DEF Fades
  <2> QED
    BY <2>4, <2>5, <2>6 DEF Stage
<1> QED
  BY <1>1, <1>2 DEF Fades

LEMMA FadesPlaces ==
  ASSUME TypeOK, NEW c \in Client, LastOnly(c), OnePlace(c), Ended(c), Fades(c)
  PROVE  LastOnly(c)' /\ OnePlace(c)' /\ Ended(c)'
<1> DEFINE lr == LastRun(c)
<1>1. /\ LastRun(c)' = lr
      /\ HasCode(sendBuffer'[c]) => HasCode(sendBuffer[c])
      /\ \A s \in SocketsOf(c), x \in Stage : At(s, x)' => At(s, x)
  BY FadesAt
<1>2. OnlyCode(sendBuffer'[c], lr) /\ OneCode(sendBuffer'[c])
  BY NoCode DEF Fades, LastOnly, OnePlace
<1>3. ASSUME NEW s \in SocketsOf(c)
      PROVE  OnlyCode(c2s'[s], lr) /\ OneCode(c2s'[s])
  <2>1. c2s[s] \in Seq(Packet)
    BY DEF SocketsOf, TypeOK
  <2>2. OnlyCode(c2s[s], lr) /\ OneCode(c2s[s])
    BY DEF LastOnly, OnePlace
  <2> QED
    BY <2>1, <2>2, TakePacket, NoCode DEF Fades
<1>4. ASSUME NEW s \in SocketsOf(c)
      PROVE  /\ \A r \in Run : <<s, r>> \in adding' \cup waiting' => r = lr
             /\ \A i \in 1 .. Len(s2c'[s]) : s2c'[s][i].run = lr
             /\ Len(s2c'[s]) <= 1
  <2>1. \A r \in Run : <<s, r>> \in adding' \cup waiting' => r = lr
    BY DEF Fades, LastOnly
  <2>2. s2c'[s] = s2c[s] \/ (s2c'[s] = <<>> /\ Len(s2c'[s]) = 0)
    BY EmptySeq DEF Fades
  <2> QED
    BY <2>1, <2>2 DEF LastOnly, OnePlace
<1> HIDE DEF lr
<1>5. LastOnly(c)'
  BY <1>1, <1>2, <1>3, <1>4 DEF LastOnly, SocketsOf
<1>6. OnePlace(c)'
  BY <1>1, <1>2, <1>3, <1>4 DEF OnePlace, SocketsOf
<1>7. Ended(c)'
  BY <1>1 DEF Ended, Fades, SocketsOf
<1> QED
  BY <1>5, <1>6, <1>7

\* What becomes of the outcomes of a client's runs.
LEMMA OutcomeStays ==
  ASSUME TypeOK, NEW c \in Client, LastOnly(c), Keeps(c)
  PROVE  /\ \A n \in 1 .. MaxRun[c] :
              n > runs[c] /\ outcome[<<c, n>>] = "none" => outcome'[<<c, n>>] = "none"
         /\ LastRun(c) \in Run /\ outcome[LastRun(c)] \in Status =>
              outcome'[LastRun(c)] = outcome[LastRun(c)]
         /\ LastRun(c) \in Run /\ outcome[LastRun(c)] = "none" =>
              \/ outcome'[LastRun(c)] = "none"
              \/ \E s \in SocketsOf(c) : At(s, "adding") /\ <<s, LastRun(c)>> \notin adding'
<1>1. "none" \notin Status /\ "pending" \notin Status
  BY StatusAssumption
<1>2. ASSUME NEW n \in 1 .. MaxRun[c], n > runs[c], outcome[<<c, n>>] = "none"
      PROVE  outcome'[<<c, n>>] = "none"
  <2>1. <<c, n>> \in Run
    BY RunShape
  <2>2. LastRun(c) # <<c, n>>
    BY <1>2 DEF LastRun, TypeOK
  <2>3. \A s \in SocketsOf(c) : <<s, <<c, n>>>> \notin adding
    BY <2>1, <2>2 DEF LastOnly
  <2> QED
    BY <1>2, <2>1, <2>3 DEF Keeps
<1>3. LastRun(c)[1] = c
  BY DEF LastRun
<1>4. ASSUME LastRun(c) \in Run, outcome[LastRun(c)] \in Status
      PROVE  outcome'[LastRun(c)] = outcome[LastRun(c)]
  BY <1>1, <1>3, <1>4 DEF Keeps
<1>5. ASSUME LastRun(c) \in Run, outcome[LastRun(c)] = "none", outcome'[LastRun(c)] # "none"
      PROVE  \E s \in SocketsOf(c) : At(s, "adding") /\ <<s, LastRun(c)>> \notin adding'
  <2>1. PICK s \in SocketsOf(c) : <<s, LastRun(c)>> \in adding /\ <<s, LastRun(c)>> \notin adding'
    BY <1>3, <1>5 DEF Keeps
  <2>2. s[1] = c
    BY DEF SocketsOf
  <2> QED
    BY <2>1, <2>2, AtStages
<1> QED
  BY <1>2, <1>4, <1>5

\* An answer that tells an outcome still does after the step.
LEMMA AnswersStay ==
  ASSUME TypeOK, NEW c \in Client, LastOnly(c), JobInv(c), OutputInv(c), Keeps(c),
         LastRun(c)' = LastRun(c)
  PROVE  /\ \A s \in SocketsOf(c) : \A i \in 1 .. Len(s2c[s]) :
              s2c[s][i].status # "failed" => s2c[s][i].status = outcome[LastRun(c)]'
         /\ output'[c] = output[c] => OutputInv(c)'
<1>1. \A r \in Result : r.run \in Run /\ r.status \in Status
  BY DEF Result
<1>2. ASSUME NEW s \in SocketsOf(c), NEW i \in 1 .. Len(s2c[s]), s2c[s][i].status # "failed"
      PROVE  s2c[s][i].status = outcome'[LastRun(c)]
  <2>1. s2c[s] \in Seq(Result)
    BY DEF SocketsOf, TypeOK
  <2>2. s2c[s][i] \in Result
    BY <2>1, ElementOfSeq
  <2>3. s2c[s][i].run = LastRun(c) /\ s2c[s][i].status = outcome[LastRun(c)]
    BY <1>2 DEF LastOnly, JobInv
  <2> QED
    BY <1>1, <2>2, <2>3, OutcomeStays
<1>3. ASSUME output'[c] = output[c], output[c] # None
      PROVE  /\ output[c].run = LastRun(c)
             /\ output[c].status # "failed" => output[c].status = outcome'[LastRun(c)]
  <2>1. output[c] \in Result
    BY <1>3 DEF TypeOK
  <2>2. /\ output[c].run = LastRun(c)
        /\ output[c].status # "failed" => output[c].status = outcome[LastRun(c)]
    BY <1>3 DEF OutputInv
  <2> QED
    BY <1>1, <2>1, <2>2, OutcomeStays
<1> QED
  BY <1>2, <1>3 DEF OutputInv

LEMMA FadesJob ==
  ASSUME TypeOK, NEW c \in Client, ClientInv(c), Fades(c), Keeps(c)
  PROVE  JobInv(c)' /\ OutputInv(c)'
<1> USE DEF ClientInv
<1>1. /\ LastRun(c)' = LastRun(c)
      /\ HasCode(sendBuffer'[c]) => HasCode(sendBuffer[c])
      /\ \A s \in SocketsOf(c), x \in Stage : At(s, x)' => At(s, x)
  BY FadesAt
<1>2. OutputInv(c)'
  BY <1>1, AnswersStay DEF Fades
<1>3. \A n \in 1 .. MaxRun[c] : n > runs'[c] => outcome'[<<c, n>>] = "none"
  BY OutcomeStays DEF Fades, JobInv
<1>4. {"sent", "adding"} \subseteq Stage
  BY DEF Stage
<1>5. \A s \in SocketsOf(c) : <<s, LastRun(c)>> \notin adding' => ~At(s, "adding")'
  BY <1>1, AtStages DEF SocketsOf
<1>6. HasCode(sendBuffer'[c]) => outcome'[LastRun(c)] = "none"
  <2> SUFFICES ASSUME HasCode(sendBuffer[c])
               PROVE  outcome'[LastRun(c)] = "none"
    BY <1>1
  <2>1. LastRun(c) \in Run /\ outcome[LastRun(c)] = "none"
    BY OnItsWay DEF JobInv
  <2>2. \A s \in SocketsOf(c) : ~At(s, "adding")
    BY <1>4 DEF OnePlace
  <2> QED
    BY <2>1, <2>2, OutcomeStays
<1>7. ASSUME NEW s \in SocketsOf(c), NEW x \in {"sent", "adding"}, At(s, x)'
      PROVE  outcome'[LastRun(c)] = "none"
  <2>1. At(s, x)
    BY <1>1, <1>4, <1>7
  <2>2. LastRun(c) \in Run /\ outcome[LastRun(c)] = "none"
    BY <1>4, <2>1, OnItsWay DEF JobInv
  <2>3. \A t \in SocketsOf(c) : At(t, "adding") => t = s /\ x = "adding"
    BY <1>4, <2>1 DEF OnePlace
  <2>4. \A t \in SocketsOf(c) : At(t, "adding") => <<t, LastRun(c)>> \in adding'
    BY <1>5, <1>7, <2>3
  <2> QED
    BY <2>2, <2>4, OutcomeStays
<1>8. ASSUME NEW s \in SocketsOf(c), NEW i \in 1 .. Len(s2c'[s]), s2c'[s][i].status # "failed"
      PROVE  s2c'[s][i].status = outcome'[LastRun(c)]
  <2>1. s2c'[s] = s2c[s]
    BY <1>8, EmptySeq DEF Fades
  <2> QED
    BY <1>1, <1>8, <2>1, AnswersStay
<1>9. JobInv(c)'
  BY <1>1, <1>3, <1>6, <1>7, <1>8 DEF JobInv, SocketsOf
<1> QED
  BY <1>2, <1>9

\* A step in which nothing comes on its way for a client keeps its invariant.
LEMMA FadesStep ==
  ASSUME TypeOK, NEW c \in Client, ClientInv(c), Fades(c), Keeps(c), ConnInv(c)'
  PROVE  ClientInv(c)'
BY FadesPlaces, FadesJob DEF ClientInv

\* A step of the server or of the queue leaves the page as it was.
LEMMA PageStays ==
  ASSUME TypeOK, NEW c \in Client, ClientInv(c), UNCHANGED clientVars
  PROVE  /\ runs'[c] = runs[c] /\ isRunning'[c] = isRunning[c] /\ output'[c] = output[c]
         /\ isRunning'[c] => view'[c].running
         /\ sendBuffer'[c] = sendBuffer[c]
         /\ ConnInv(c)'
<1>1. /\ runs' = runs /\ isRunning' = isRunning /\ output' = output /\ view' = view
      /\ sendBuffer' = sendBuffer /\ conns' = conns /\ connected' = connected
  BY DEF clientVars, pageVars
<1> QED
  BY <1>1 DEF ClientInv, Ended, ConnInv

\* The steps of a client are none of another one's.
LEMMA ClientOthers ==
  ASSUME TypeOK, NEW c \in Client, ClientNext(c), NEW d \in Client, d # c, ClientInv(d)
  PROVE  ClientInv(d)'
<1>1. \A s \in SocketsOf(d) : s # Cur(c) /\ s # <<c, conns[c] + 1>>
  BY DEF SocketsOf, Cur
<1>2. \A s \in SocketsOf(d) : s \in Socket
  BY DEF SocketsOf
<1>3. isRunning[d] => view[d].running
  BY DEF ClientInv, Ended
<1>4. /\ runs'[d] = runs[d] /\ isRunning'[d] = isRunning[d] /\ output'[d] = output[d]
      /\ view'[d] = view[d] /\ sendBuffer'[d] = sendBuffer[d]
      /\ conns'[d] = conns[d] /\ connected'[d] = connected[d]
      /\ adding' = adding /\ waiting' = waiting /\ outcome' = outcome
  <2>1. CASE HandleConnect(c)
    BY <2>1 DEF HandleConnect, TypeOK, pageVars, handlerVars
  <2>2. CASE HandleDisconnect(c)
    BY <2>2 DEF HandleDisconnect, TypeOK, pageVars, handlerVars
  <2>3. CASE Commit(c)
    BY <2>3 DEF Commit, TypeOK, handlerVars
  <2>4. CASE HandleRunCode(c)
    BY <2>4 DEF HandleRunCode, StartRun, TypeOK, handlerVars
  <2>5. CASE HandleExecutionResult(c)
    BY <2>5 DEF HandleExecutionResult, TypeOK, handlerVars
  <2> QED
    BY <2>1, <2>2, <2>3, <2>4, <2>5 DEF ClientNext
<1>5. ASSUME NEW s \in SocketsOf(d)
      PROVE  c2s'[s] = c2s[s] /\ s2c'[s] = s2c[s]
  <2>1. s \in Socket /\ s # Cur(c) /\ s # <<c, conns[c] + 1>>
    BY <1>1, <1>2
  <2>2. c2s \in [Socket -> Seq(Packet)] /\ s2c \in [Socket -> Seq(Result)]
    BY DEF TypeOK
  <2>3. CASE HandleConnect(c)
    BY <2>1, <2>2, <2>3 DEF HandleConnect
  <2>4. CASE HandleDisconnect(c)
    BY <2>1, <2>2, <2>4 DEF HandleDisconnect
  <2>5. CASE Commit(c)
    BY <2>5 DEF Commit
  <2>6. CASE HandleRunCode(c)
    BY <2>1, <2>2, <2>6 DEF HandleRunCode, StartRun
  <2>7. CASE HandleExecutionResult(c)
    BY <2>1, <2>2, <2>7 DEF HandleExecutionResult
  <2> QED
    BY <2>3, <2>4, <2>5, <2>6, <2>7 DEF ClientNext
<1>6. Fades(d) /\ Keeps(d)
  BY <1>3, <1>4, <1>5 DEF Fades, Keeps
<1>7. ConnInv(d)'
  BY <1>4 DEF ClientInv, ConnInv
<1> QED
  BY <1>6, <1>7, FadesStep

\* The steps of a handler concern the client of its socket.
LEMMA HandlerOthers ==
  ASSUME TypeOK, RequestsInv, NEW s \in Socket, NEW r \in Run, HandlerStep(s, r),
         NEW d \in Client, d # s[1]
  PROVE  ClientInv(d)'
<1> ClientInv(d)
  BY DEF RequestsInv
<1>1. UNCHANGED clientVars /\ UNCHANGED c2s
  BY DEF HandlerStep, JobAdded, WaitSettles, HandlerThrows
<1>2. \A t \in SocketsOf(d) : t \in Socket /\ t # s
  BY DEF SocketsOf
<1>3. s2c' = s2c \/ \E status : AnswerRun(s, r, status)
  BY DEF HandlerStep, JobAdded, WaitSettles, HandlerThrows
<1>4. \A t \in SocketsOf(d) : s2c'[t] = s2c[t]
  BY <1>2, <1>3 DEF AnswerRun, ServerEmit
<1>5. \A t \in SocketsOf(d) : \A q :
        (<<t, q>> \in adding' => <<t, q>> \in adding) /\ (<<t, q>> \in waiting' => <<t, q>> \in waiting)
  BY <1>2 DEF HandlerStep, JobAdded, WaitSettles, HandlerThrows
<1>6. Fades(d)
  BY <1>1, <1>4, <1>5, PageStays DEF Fades
<1>7. Keeps(d)
  <2>1. s \in SocketsOf(s[1])
    BY SocketShape DEF SocketsOf
  <2>2. r[1] # d \/ outcome' = outcome
    <3>1. CASE JobAdded(s, r) \/ HandlerThrows(s, r)
      <4>1. r = LastRun(s[1])
        BY <2>1, <3>1, SocketShape DEF JobAdded, HandlerThrows, RequestsInv, ClientInv, LastOnly
      <4> QED
        BY <4>1 DEF LastRun
    <3> QED
      BY <3>1 DEF HandlerStep, WaitSettles
  <2>3. outcome' = outcome \/ outcome' = [outcome EXCEPT ![r] = "pending"]
    BY DEF HandlerStep, JobAdded, WaitSettles, HandlerThrows, Queue!Add
  <2> QED
    BY <2>2, <2>3 DEF Keeps, TypeOK
<1> QED
  BY <1>1, <1>6, <1>7, PageStays, FadesStep

\* The steps that only take things away, whichever client it is.
LEMMA FadingSteps ==
  ASSUME TypeOK, RequestsInv, NEW c \in Client,
         \/ UNCHANGED vars
         \/ HandleDisconnect(c)
         \/ Commit(c)
         \/ \E s \in Socket : OnJoinRoom(s) \/ OnDisconnect(s)
         \/ \E r \in Run : JobFinishes(r)
         \/ ServerRestart
  PROVE  ClientInv(c)'
<1>1. ClientInv(c) /\ (isRunning[c] => view[c].running)
  BY DEF RequestsInv, ClientInv, Ended
<1>2. \A s \in SocketsOf(c) : s \in Socket /\ s[1] = c
  BY DEF SocketsOf
<1>3. CASE UNCHANGED vars
  <2>1. UNCHANGED clientVars /\ UNCHANGED <<c2s, s2c, adding, waiting, outcome>>
    BY <1>3 DEF vars, handlerVars
  <2>2. Fades(c) /\ Keeps(c) /\ ConnInv(c)'
    BY <1>1, <2>1, PageStays DEF Fades, Keeps
  <2> QED
    BY <1>1, <2>2, FadesStep
<1>4. CASE HandleDisconnect(c)
  <2>1. /\ UNCHANGED <<conns, sendBuffer, isRunning, output, view, runs, adding, waiting, outcome, c2s>>
        /\ connected'[c] = FALSE
    BY <1>4 DEF HandleDisconnect, pageVars, handlerVars, TypeOK
  <2>2. \A s \in SocketsOf(c) : s2c'[s] \in {s2c[s], <<>>}
    BY <1>2, <1>4 DEF HandleDisconnect, TypeOK
  <2>3. Fades(c) /\ Keeps(c)
    BY <1>1, <2>1, <2>2 DEF Fades, Keeps
  <2>4. ConnInv(c)'
    BY <1>1, <2>1 DEF ClientInv, ConnInv
  <2> QED
    BY <1>1, <2>3, <2>4, FadesStep
<1>5. CASE Commit(c)
  <2>1. /\ UNCHANGED <<conns, connected, sendBuffer, isRunning, output, runs, adding, waiting, outcome>>
        /\ UNCHANGED <<c2s, s2c>>
        /\ view'[c].running = isRunning[c]
    BY <1>5 DEF Commit, handlerVars, TypeOK
  <2>2. Fades(c) /\ Keeps(c)
    BY <1>1, <2>1 DEF Fades, Keeps
  <2>3. ConnInv(c)'
    BY <1>1, <2>1 DEF ClientInv, ConnInv
  <2> QED
    BY <1>1, <2>2, <2>3, FadesStep
<1>6. ASSUME NEW s \in Socket, OnJoinRoom(s) \/ OnDisconnect(s)
      PROVE  ClientInv(c)'
  <2>1. UNCHANGED clientVars /\ UNCHANGED <<s2c, adding, waiting, outcome>>
    BY <1>6 DEF OnJoinRoom, OnDisconnect, handlerVars
  <2>2. ASSUME NEW t \in SocketsOf(c)
        PROVE  \/ c2s'[t] = c2s[t]
               \/ ~HasCode(c2s'[t])
               \/ c2s[t] # <<>> /\ c2s'[t] = Tail(c2s[t])
    <3>1. CASE OnJoinRoom(s)
      BY <1>2, <3>1, ReceivesType DEF OnJoinRoom
    <3>2. CASE OnDisconnect(s)
      BY <1>2, <3>2, NoPackets DEF OnDisconnect, TypeOK
    <3> QED
      BY <1>6, <3>1, <3>2
  <2>3. Fades(c) /\ Keeps(c)
    BY <1>1, <2>1, <2>2, PageStays DEF Fades, Keeps
  <2> QED
    BY <1>1, <2>1, <2>3, PageStays, FadesStep
<1>7. ASSUME NEW r \in Run, JobFinishes(r)
      PROVE  ClientInv(c)'
  <2>1. UNCHANGED clientVars /\ UNCHANGED <<c2s, s2c, adding, waiting>>
    BY <1>7 DEF JobFinishes
  <2>2. Fades(c) /\ ConnInv(c)'
    BY <1>1, <2>1, PageStays DEF Fades
  <2>3. Keeps(c)
    BY <1>7 DEF JobFinishes, Queue!Finish, Keeps, TypeOK
  <2> QED
    BY <1>1, <2>2, <2>3, FadesStep
<1>8. CASE ServerRestart
  <2>1. UNCHANGED clientVars /\ s2c' = s2c /\ adding' = {} /\ waiting' = {}
    BY <1>8 DEF ServerRestart
  <2>2. \A s \in SocketsOf(c) : ~HasCode(c2s'[s])
    BY <1>2, <1>8, NoPackets DEF ServerRestart
  <2>3. Fades(c) /\ ConnInv(c)'
    BY <1>1, <2>1, <2>2, PageStays DEF Fades
  <2>4. Keeps(c)
    <3> SUFFICES ASSUME NEW r \in Run, r[1] = c, outcome'[r] # outcome[r]
                 PROVE  outcome[r] = "none" /\ \E s \in SocketsOf(c) : <<s, r>> \in adding
      BY <2>1 DEF Keeps
    <3>1. PICK s \in Socket : <<s, r>> \in adding
      BY <1>8 DEF ServerRestart
    <3>2. s[1] \in Client /\ s \in SocketsOf(s[1])
      BY SocketShape DEF SocketsOf
    <3>3. r = LastRun(s[1]) /\ ClientInv(s[1])
      BY <3>1, <3>2 DEF RequestsInv, ClientInv, LastOnly
    <3>4. s[1] = c
      BY <3>3 DEF LastRun
    <3>5. At(s, "adding")
      BY <3>1, <3>3, AtStages
    <3> QED
      BY <3>1, <3>2, <3>3, <3>4, <3>5 DEF ClientInv, JobInv
  <2> QED
    BY <1>1, <2>3, <2>4, FadesStep
<1> QED
  BY <1>3, <1>4, <1>5, <1>6, <1>7, <1>8

-----------------------------------------------------------------------------
(* Steps that move a run.                                                  *)

\* After a step that leaves the last run of a client in one place at most.
LEMMA Alone ==
  ASSUME NEW c \in Client, NEW s \in SocketsOf(c), NEW x \in Stage,
         ~HasCode(sendBuffer'[c]),
         \A t \in SocketsOf(c) : OneCode(c2s'[t]) /\ Len(s2c'[t]) <= 1,
         \A t \in SocketsOf(c), y \in Stage : At(t, y)' => t = s /\ y = x,
         isRunning'[c] => view'[c].running,
         isRunning'[c] \/ ~At(s, x)'
  PROVE  OnePlace(c)' /\ Ended(c)'
<1>1. OnePlace(c)'
  BY NoCode DEF OnePlace, SocketsOf
<1>2. Ended(c)'
  BY DEF Ended, SocketsOf
<1> QED
  BY <1>1, <1>2

\* Where a run is, it is alone, and the page waits for it.
LEMMA Only ==
  ASSUME NEW c \in Client, OnePlace(c), Ended(c), NEW s \in SocketsOf(c), NEW x \in Stage, At(s, x)
  PROVE  /\ ~HasCode(sendBuffer[c])
         /\ \A t \in SocketsOf(c), y \in Stage : At(t, y) => t = s /\ y = x
         /\ isRunning[c] /\ view[c].running
BY DEF OnePlace, Ended

\* What a handler has in hand is the last run of its client.
LEMMA InHand ==
  ASSUME TypeOK, RequestsInv, NEW s \in Socket, NEW r \in Run, <<s, r>> \in adding \cup waiting
  PROVE  /\ s[1] \in Client /\ s \in SocketsOf(s[1]) /\ r = LastRun(s[1]) /\ ClientInv(s[1])
         /\ <<s, r>> \in adding => At(s, "adding")
         /\ <<s, r>> \in waiting => At(s, "waiting")
<1>1. s[1] \in Client /\ s \in SocketsOf(s[1])
  BY SocketShape DEF SocketsOf
<1>2. ClientInv(s[1]) /\ r = LastRun(s[1])
  BY <1>1 DEF RequestsInv, ClientInv, LastOnly
<1> QED
  BY <1>1, <1>2, AtStages

\* OnExecuteCode, when the socket has joined a room: "sent" to "adding".
LEMMA ExecuteStep ==
  ASSUME TypeOK, RequestsInv, NEW s \in Socket, OnExecuteCode(s), NEW c \in Client
  PROVE  ClientInv(c)'
<1> DEFINE r == Head(c2s[s]).run
<1>1. ClientInv(c)
  BY DEF RequestsInv
<1>2. /\ UNCHANGED clientVars /\ UNCHANGED <<s2c, waiting, outcome>>
      /\ adding' = IF s \in joined THEN adding \cup {<<s, r>>} ELSE adding
  BY DEF OnExecuteCode
<1>3. /\ c2s[s] \in Seq(Packet) /\ c2s[s] # <<>>
      /\ Head(c2s[s]) \in Packet /\ Head(c2s[s]).type = "execute-code"
      /\ c2s'[s] = Tail(c2s[s])
      /\ \A t \in Socket : t # s => c2s'[t] = c2s[t]
  BY ReceivesType DEF OnExecuteCode
<1>4. r \in Run /\ Head(c2s[s]) = ExecuteCode(r) /\ Head(c2s[s]) # JoinRoom
  BY <1>3, PacketKinds
<1> HIDE DEF r
<1>5. \A t \in SocketsOf(c) : t \in Socket /\ t[1] = c
  BY DEF SocketsOf
<1>6. \A t \in SocketsOf(c) :
        \/ c2s'[t] = c2s[t]
        \/ c2s[t] # <<>> /\ c2s'[t] = Tail(c2s[t])
  BY <1>3, <1>5
<1>7. Keeps(c)
  BY <1>2 DEF Keeps
<1>8. CASE s[1] # c \/ s \notin joined
  <2>1. \A t \in SocketsOf(c) : \A q : <<t, q>> \in adding' => <<t, q>> \in adding
    BY <1>2, <1>5, <1>8
  <2>2. Fades(c)
    BY <1>1, <1>2, <1>6, <2>1, PageStays DEF Fades
  <2> QED
    BY <1>1, <1>2, <1>7, <2>2, PageStays, FadesStep
<1>9. CASE s[1] = c /\ s \in joined
  <2> USE DEF ClientInv
  <2>1. s \in SocketsOf(c) /\ {"sent", "adding"} \subseteq Stage
    BY <1>9 DEF SocketsOf, Stage
  <2>2. HasCode(c2s[s]) /\ ~HasCode(c2s'[s]) /\ At(s, "sent") /\ r = LastRun(c)
    <3>1. OneCode(c2s[s]) /\ OnlyCode(c2s[s], LastRun(c))
      BY <1>1, <2>1 DEF OnePlace, LastOnly
    <3>2. HasCode(c2s[s]) /\ ~HasCode(c2s'[s]) /\ Head(c2s[s]) = ExecuteCode(LastRun(c))
      BY <1>3, <1>4, <3>1, TakePacket
    <3>3. ExecuteCode(r).run = r /\ ExecuteCode(LastRun(c)).run = LastRun(c)
      BY PacketKinds
    <3> QED
      BY <1>4, <3>2, <3>3, AtStages
  <2>3. /\ ~HasCode(sendBuffer[c])
        /\ \A t \in SocketsOf(c), y \in Stage : At(t, y) => t = s /\ y = "sent"
        /\ isRunning[c] /\ view[c].running
    BY <1>1, <2>1, <2>2, Only
  <2>4. LastRun(c)' = LastRun(c)
    BY <1>2 DEF clientVars, pageVars, LastRun
  <2>5. ASSUME NEW t \in SocketsOf(c)
        PROVE  /\ OnlyCode(c2s'[t], LastRun(c)) /\ OneCode(c2s'[t]) /\ Len(s2c'[t]) <= 1
               /\ HasCode(c2s'[t]) => HasCode(c2s[t])
    <3>1. OneCode(c2s[t]) /\ OnlyCode(c2s[t], LastRun(c)) /\ Len(s2c[t]) <= 1
      BY <1>1 DEF OnePlace, LastOnly
    <3>2. c2s[t] \in Seq(Packet)
      BY <1>5 DEF TypeOK
    <3> QED
      BY <1>2, <1>6, <3>1, <3>2, TakePacket
  <2>6. ASSUME NEW t \in SocketsOf(c), NEW y \in Stage, At(t, y)'
        PROVE  t = s /\ y = "adding"
    <3>1. CASE y = "sent"
      <4>1. HasCode(c2s'[t]) /\ At(t, "sent")
        BY <2>5, <2>6, <3>1, AtStages
      <4> QED
        BY <2>1, <2>2, <2>3, <4>1
    <3>2. CASE y \in {"waiting", "answered"}
      <4>1. At(t, y)
        BY <1>2, <1>5, <2>4, <2>6, <3>2, AtStages
      <4> QED
        BY <2>3, <3>2, <4>1
    <3>3. CASE y = "adding"
      <4>1. <<t, LastRun(c)>> \in adding'
        BY <1>5, <2>4, <2>6, <3>3, AtStages
      <4>2. CASE t # s
        <5>1. At(t, "adding")
          BY <1>2, <1>5, <4>1, <4>2, AtStages
        <5> QED
          BY <2>1, <2>3, <5>1
      <4> QED
        BY <3>3, <4>2
    <3> QED
      BY <3>1, <3>2, <3>3 DEF Stage
  <2>7. OnePlace(c)' /\ Ended(c)'
    <3>1. sendBuffer'[c] = sendBuffer[c] /\ isRunning'[c] /\ view'[c].running
      BY <1>1, <1>2, <2>3, PageStays
    <3> QED
      BY <2>1, <2>3, <2>5, <2>6, <3>1, Alone
  <2>8. LastOnly(c)'
    <3>1. OnlyCode(sendBuffer[c], LastRun(c))
      BY <1>1 DEF LastOnly
    <3>2. \A t \in SocketsOf(c) : \A q \in Run : <<t, q>> \in adding' \cup waiting' => q = LastRun(c)
      <4>1. \A t \in SocketsOf(c) : \A q \in Run : <<t, q>> \in adding \cup waiting => q = LastRun(c)
        BY <1>1 DEF LastOnly
      <4>2. adding' = adding \cup {<<s, LastRun(c)>>} /\ waiting' = waiting
        BY <1>2, <1>9, <2>2
      <4> QED
        BY <4>1, <4>2
    <3>3. \A t \in SocketsOf(c) : \A i \in 1 .. Len(s2c'[t]) : s2c'[t][i].run = LastRun(c)
      BY <1>1, <1>2 DEF LastOnly
    <3> QED
      BY <1>1, <1>2, <2>4, <2>5, <3>1, <3>2, <3>3, PageStays DEF LastOnly, SocketsOf
  <2>9. JobInv(c)'
    BY <1>1, <1>2, <2>1, <2>2, <2>3, <2>4, PageStays DEF JobInv, SocketsOf
  <2> QED
    BY <1>1, <1>2, <1>7, <2>4, <2>7, <2>8, <2>9, PageStays, AnswersStay
<1> QED
  BY <1>8, <1>9

\* The handler of a run answers it: "adding" or "waiting" to "answered", or to
\* nowhere when the socket is gone.
LEMMA AnswerStep ==
  ASSUME TypeOK, RequestsInv, NEW s \in Socket, NEW r \in Run, <<s, r>> \in adding \cup waiting,
         NEW status \in Status, status # "failed" => status = outcome[r] /\ outcome' = outcome,
         adding' = adding \ {<<s, r>>}, waiting' = waiting \ {<<s, r>>},
         UNCHANGED outcome \/ (<<s, r>> \in adding /\ Queue!Add(r)),
         AnswerRun(s, r, status), UNCHANGED clientVars, UNCHANGED c2s
  PROVE  ClientInv(s[1])'
<1> DEFINE c == s[1]
           m == [run |-> r, status |-> status]
<1>1. /\ c \in Client /\ s \in SocketsOf(c) /\ r = LastRun(c) /\ ClientInv(c)
      /\ \E x \in {"adding", "waiting"} : At(s, x)
  BY InHand
<1>2. PICK x \in {"adding", "waiting"} : At(s, x)
  BY <1>1
<1> HIDE DEF c
<1> USE DEF ClientInv
<1>3. x \in Stage /\ "answered" \in Stage
  BY DEF Stage
<1>4. /\ ~HasCode(sendBuffer[c])
      /\ \A t \in SocketsOf(c), y \in Stage : At(t, y) => t = s /\ y = x
      /\ isRunning[c] /\ view[c].running
  BY <1>1, <1>2, <1>3, Only
<1>5. \A t \in SocketsOf(c) : t \in Socket /\ t[1] = c
  BY DEF SocketsOf
<1>6. /\ s2c'[s] = IF Live(s) THEN Append(s2c[s], m) ELSE s2c[s]
      /\ \A t \in Socket : t # s => s2c'[t] = s2c[t]
      /\ m.run = r /\ m.status = status
  BY AnswerType
<1> HIDE DEF m
<1>7. LastRun(c)' = LastRun(c)
  BY DEF clientVars, pageVars, LastRun
<1>8. /\ runs'[c] = runs[c] /\ isRunning'[c] /\ view'[c].running /\ output'[c] = output[c]
      /\ sendBuffer'[c] = sendBuffer[c] /\ ConnInv(c)'
  BY <1>1, <1>4, PageStays
<1>9. Keeps(c)
  <2>1. CASE outcome' = outcome
    BY <2>1 DEF Keeps
  <2>2. CASE <<s, r>> \in adding /\ Queue!Add(r)
    <3>1. outcome[r] = "none" /\ \A q \in Run : q # r => outcome'[q] = outcome[q]
      BY <2>2 DEF Queue!Add, TypeOK
    <3> QED
      BY <1>1, <2>2, <3>1 DEF Keeps
  <2> QED
    BY <2>1, <2>2
<1>10. \A t \in SocketsOf(c) : s2c[t] = <<>>
  BY <1>3, <1>4, AtStages
<1>11. ASSUME NEW t \in SocketsOf(c)
       PROVE  s2c'[t] = <<>> \/ (t = s /\ Len(s2c'[t]) = 1 /\ s2c'[t][1] = m)
  <2>1. Len(Append(<<>>, m)) = 1 /\ Append(<<>>, m)[1] = m
    OBVIOUS
  <2> QED
    BY <1>5, <1>6, <1>10, <2>1
<1>12. ASSUME NEW t \in SocketsOf(c)
       PROVE  Len(s2c'[t]) <= 1 /\ \A i \in 1 .. Len(s2c'[t]) : s2c'[t][i] = m
  <2>1. CASE s2c'[t] = <<>>
    <3>1. Len(s2c'[t]) = 0
      BY <2>1, EmptySeq
    <3> QED
      BY <3>1
  <2>2. CASE Len(s2c'[t]) = 1 /\ s2c'[t][1] = m
    BY <2>2
  <2> QED
    BY <1>11, <2>1, <2>2
<1>13. ASSUME NEW t \in SocketsOf(c), NEW y \in Stage, At(t, y)'
       PROVE  t = s /\ y = "answered"
  <2>1. CASE y = "answered"
    <3>1. s2c'[t] # <<>>
      BY <1>13, <2>1, AtStages
    <3> QED
      BY <1>11, <2>1, <3>1
  <2>2. CASE y # "answered"
    <3>1. At(t, y)
      BY <1>5, <1>7, <1>13, <2>2, AtStages DEF Stage
    <3>2. t = s /\ y = x
      BY <1>4, <3>1
    <3>3. <<s, LastRun(c)>> \in adding' \cup waiting'
      BY <1>5, <1>7, <1>13, <3>2, AtStages
    <3> QED
      BY <1>1, <3>3
  <2> QED
    BY <2>1, <2>2
<1>14. OnePlace(c)' /\ Ended(c)'
  <2>1. \A t \in SocketsOf(c) : OneCode(c2s'[t])
    BY <1>1 DEF OnePlace
  <2> QED
    BY <1>1, <1>3, <1>4, <1>8, <1>12, <1>13, <2>1, Alone
<1>15. LastOnly(c)'
  <2>1. \A t \in SocketsOf(c) : \A q \in Run : <<t, q>> \in adding' \cup waiting' => q = LastRun(c)
    BY <1>1 DEF LastOnly
  <2>2. \A t \in SocketsOf(c) : \A i \in 1 .. Len(s2c'[t]) : s2c'[t][i].run = LastRun(c)
    BY <1>1, <1>6, <1>12
  <2>3. \A t \in SocketsOf(c) : OnlyCode(c2s'[t], LastRun(c))
    BY <1>1 DEF LastOnly
  <2>4. OnlyCode(sendBuffer'[c], LastRun(c))
    BY <1>1, <1>8 DEF LastOnly
  <2> QED
    BY <1>7, <2>1, <2>2, <2>3, <2>4 DEF LastOnly, SocketsOf
<1>16. JobInv(c)'
  <2>1. \A t \in SocketsOf(c) : ~At(t, "sent")' /\ ~At(t, "adding")'
    BY <1>13 DEF Stage
  <2>2. \A t \in SocketsOf(c) : \A i \in 1 .. Len(s2c'[t]) :
          s2c'[t][i].status # "failed" => s2c'[t][i].status = outcome'[LastRun(c)]
    BY <1>1, <1>6, <1>12
  <2>3. \A n \in 1 .. MaxRun[c] : n > runs'[c] => outcome'[<<c, n>>] = "none"
    BY <1>1, <1>8, <1>9, OutcomeStays DEF JobInv
  <2> QED
    BY <1>4, <1>7, <1>8, <2>1, <2>2, <2>3 DEF JobInv, SocketsOf
<1> QED
  BY <1>1, <1>7, <1>8, <1>9, <1>14, <1>15, <1>16, AnswersStay DEF c

\* queue.add resolves: "adding" to "waiting".
LEMMA AddedStep ==
  ASSUME TypeOK, RequestsInv, NEW s \in Socket, NEW r \in Run, JobAdded(s, r)
  PROVE  ClientInv(s[1])'
<1> DEFINE c == s[1]
<1>1. /\ c \in Client /\ s \in SocketsOf(c) /\ r = LastRun(c) /\ ClientInv(c) /\ At(s, "adding")
  BY InHand DEF JobAdded
<1>2. /\ UNCHANGED clientVars /\ UNCHANGED <<c2s, s2c>>
      /\ adding' = adding \ {<<s, r>>} /\ waiting' = waiting \cup {<<s, r>>}
      /\ outcome[r] = "none" /\ outcome' = [outcome EXCEPT ![r] = "pending"]
  BY DEF JobAdded, Queue!Add
<1> HIDE DEF c
<1> USE DEF ClientInv
<1>3. {"adding", "waiting", "sent", "answered"} = Stage
  BY DEF Stage
<1>4. /\ ~HasCode(sendBuffer[c])
      /\ \A t \in SocketsOf(c), y \in Stage : At(t, y) => t = s /\ y = "adding"
      /\ isRunning[c] /\ view[c].running
  BY <1>1, <1>3, Only
<1>5. \A t \in SocketsOf(c) : t \in Socket /\ t[1] = c
  BY DEF SocketsOf
<1>6. LastRun(c)' = LastRun(c)
  BY <1>2 DEF clientVars, pageVars, LastRun
<1>7. /\ runs'[c] = runs[c] /\ isRunning'[c] /\ view'[c].running /\ output'[c] = output[c]
      /\ sendBuffer'[c] = sendBuffer[c] /\ ConnInv(c)'
  BY <1>1, <1>2, <1>4, PageStays
<1>8. Keeps(c)
  <2>1. \A q \in Run : q # r => outcome'[q] = outcome[q]
    BY <1>2 DEF TypeOK
  <2>2. outcome[r] = "none" /\ <<s, r>> \in adding /\ <<s, r>> \notin adding'
    BY <1>2 DEF JobAdded
  <2> QED
    BY <1>1, <2>1, <2>2 DEF Keeps
<1>9. ASSUME NEW t \in SocketsOf(c), NEW y \in Stage, At(t, y)'
      PROVE  t = s /\ y = "waiting"
  <2>1. CASE y \in {"sent", "answered"}
    <3>1. At(t, y)
      BY <1>2, <1>9, <2>1, AtStages
    <3> QED
      BY <1>4, <2>1, <3>1
  <2>2. CASE y = "adding"
    <3>1. <<t, LastRun(c)>> \in adding /\ <<t, LastRun(c)>> # <<s, r>>
      BY <1>2, <1>5, <1>6, <1>9, <2>2, AtStages
    <3>2. At(t, "adding")
      BY <1>5, <3>1, AtStages
    <3> QED
      BY <1>1, <1>3, <1>4, <3>1, <3>2
  <2>3. CASE y = "waiting"
    <3>1. <<t, LastRun(c)>> \in waiting'
      BY <1>5, <1>6, <1>9, <2>3, AtStages
    <3>2. ASSUME t # s
          PROVE  FALSE
      <4>1. At(t, "waiting")
        BY <1>2, <1>5, <3>1, <3>2, AtStages
      <4> QED
        BY <1>3, <1>4, <3>2, <4>1
    <3> QED
      BY <2>3, <3>2
  <2> QED
    BY <1>3, <2>1, <2>2, <2>3
<1>10. OnePlace(c)' /\ Ended(c)'
  <2>1. \A t \in SocketsOf(c) : OneCode(c2s'[t]) /\ Len(s2c'[t]) <= 1
    BY <1>1, <1>2 DEF OnePlace
  <2> QED
    BY <1>1, <1>3, <1>4, <1>7, <1>9, <2>1, Alone
<1>11. LastOnly(c)'
  <2>1. \A t \in SocketsOf(c) : \A q \in Run : <<t, q>> \in adding' \cup waiting' => q = LastRun(c)
    BY <1>1, <1>2 DEF LastOnly
  <2>2. \A t \in SocketsOf(c) : /\ OnlyCode(c2s'[t], LastRun(c))
                                /\ \A i \in 1 .. Len(s2c'[t]) : s2c'[t][i].run = LastRun(c)
    BY <1>1, <1>2 DEF LastOnly
  <2>3. OnlyCode(sendBuffer'[c], LastRun(c))
    BY <1>1, <1>7 DEF LastOnly
  <2> QED
    BY <1>6, <2>1, <2>2, <2>3 DEF LastOnly, SocketsOf
<1>12. JobInv(c)'
  <2>1. \A t \in SocketsOf(c) : ~At(t, "sent")' /\ ~At(t, "adding")'
    BY <1>3, <1>9
  <2>2. \A t \in SocketsOf(c) : \A i \in 1 .. Len(s2c'[t]) :
          s2c'[t][i].status # "failed" => s2c'[t][i].status = outcome'[LastRun(c)]
    BY <1>1, <1>2, <1>6, <1>8, AnswersStay
  <2>3. \A n \in 1 .. MaxRun[c] : n > runs'[c] => outcome'[<<c, n>>] = "none"
    BY <1>1, <1>7, <1>8, OutcomeStays DEF JobInv
  <2> QED
    BY <1>4, <1>6, <1>7, <2>1, <2>2, <2>3 DEF JobInv, SocketsOf
<1> QED
  BY <1>1, <1>6, <1>7, <1>8, <1>10, <1>11, <1>12, AnswersStay DEF c

\* A step of a handler, whichever client it is.
LEMMA HandlerInv ==
  ASSUME TypeOK, RequestsInv, NEW s \in Socket, NEW r \in Run, HandlerStep(s, r), NEW c \in Client
  PROVE  ClientInv(c)'
<1>1. ASSUME WaitSettles(s, r)
      PROVE  ClientInv(s[1])'
  <2> DEFINE status == IF outcome[r] = "error" THEN "failed" ELSE outcome[r]
  <2>1. <<s, r>> \in waiting /\ outcome[r] \in Queue!Outcome
    BY <1>1 DEF WaitSettles
  <2>2. status \in Status /\ (status # "failed" => status = outcome[r])
    BY <2>1, StatusAssumption DEF Queue!Outcome
  <2>3. <<s, r>> \notin adding
    <3>1. /\ s[1] \in Client /\ s \in SocketsOf(s[1]) /\ OnePlace(s[1])
          /\ At(s, "waiting") /\ (<<s, r>> \in adding => At(s, "adding"))
      BY <2>1, InHand DEF ClientInv
    <3> QED
      BY <3>1 DEF OnePlace, Stage
  <2>4. /\ adding' = adding \ {<<s, r>>} /\ waiting' = waiting \ {<<s, r>>}
        /\ AnswerRun(s, r, status) /\ UNCHANGED clientVars /\ UNCHANGED <<outcome, c2s>>
    BY <1>1, <2>3 DEF WaitSettles
  <2> QED
    BY <2>1, <2>2, <2>4, AnswerStep
<1>2. ASSUME HandlerThrows(s, r)
      PROVE  ClientInv(s[1])'
  <2>1. /\ <<s, r>> \in adding \cup waiting
        /\ adding' = adding \ {<<s, r>>} /\ waiting' = waiting \ {<<s, r>>}
        /\ UNCHANGED outcome \/ (<<s, r>> \in adding /\ Queue!Add(r))
        /\ AnswerRun(s, r, "failed") /\ UNCHANGED clientVars /\ UNCHANGED c2s
    BY <1>2 DEF HandlerThrows
  <2>2. "failed" \in Status
    BY StatusAssumption
  <2> QED
    BY <2>1, <2>2, AnswerStep
<1>3. ClientInv(s[1])'
  BY <1>1, <1>2, AddedStep DEF HandlerStep
<1>4. CASE c # s[1]
  BY <1>4, HandlerOthers
<1> QED
  BY <1>3, <1>4

-----------------------------------------------------------------------------
(* The steps of the page.                                                  *)

\* "connect": a run waiting in the buffer is sent on the new socket.
LEMMA ConnectStep ==
  ASSUME TypeOK, RequestsInv, NEW c \in Client, HandleConnect(c)
  PROVE  ClientInv(c)'
<1> DEFINE s == <<c, conns[c] + 1>>
           q == Append(sendBuffer[c], JoinRoom)
<1> USE DEF ClientInv
<1>1. ClientInv(c)
  BY DEF RequestsInv
<1>2. s \in Socket /\ s \in SocketsOf(c)
  <2>1. conns[c] + 1 \in 1 .. MaxConn[c]
    BY DEF HandleConnect, TypeOK
  <2> QED
    BY <2>1, SocketShape DEF SocketsOf
<1>3. ConnInv(c)'
  BY DEF HandleConnect, TypeOK, ConnInv
<1>4. sendBuffer[c] \in Seq(Packet) /\ OneCode(sendBuffer[c]) /\ OnlyCode(sendBuffer[c], LastRun(c))
  BY <1>1 DEF TypeOK, OnePlace, LastOnly
<1>5. /\ HasCode(q) <=> HasCode(sendBuffer[c])
      /\ OneCode(q) /\ OnlyCode(q, LastRun(c))
  BY <1>4, AppendPacket, PacketKinds
<1>6. c2s'[s] = q /\ \A t \in SocketsOf(c) : t # s => c2s'[t] = c2s[t]
  BY <1>2 DEF HandleConnect, TypeOK, SocketsOf
<1> HIDE DEF s, q
<1>7. /\ UNCHANGED <<isRunning, output, view, runs, adding, waiting, outcome, s2c>>
      /\ sendBuffer'[c] = <<>> /\ ~HasCode(sendBuffer'[c])
  BY NoPackets DEF HandleConnect, pageVars, handlerVars, TypeOK
<1>8. LastRun(c)' = LastRun(c)
  BY <1>7 DEF LastRun
<1>9. Keeps(c)
  BY <1>7 DEF Keeps
<1>10. CASE ~HasCode(sendBuffer[c])
  <2>1. \A t \in SocketsOf(c) : c2s'[t] = c2s[t] \/ ~HasCode(c2s'[t])
    BY <1>5, <1>6, <1>10
  <2>2. isRunning[c] => view[c].running
    BY <1>1 DEF Ended
  <2>3. Fades(c)
    BY <1>7, <2>1, <2>2 DEF Fades
  <2> QED
    BY <1>1, <1>3, <1>9, <2>3, FadesStep
<1>11. CASE HasCode(sendBuffer[c])
  <2>1. \A t \in SocketsOf(c), x \in Stage : ~At(t, x)
    BY <1>1, <1>11 DEF OnePlace
  <2>2. isRunning[c] /\ view[c].running
    BY <1>1, <1>11 DEF Ended
  <2>3. \A t \in SocketsOf(c) : t \in Socket /\ t[1] = c
    BY DEF SocketsOf
  <2>4. ASSUME NEW t \in SocketsOf(c), NEW y \in Stage, At(t, y)'
        PROVE  t = s /\ y = "sent"
    <3>1. CASE y = "sent"
      <4>1. t # s => At(t, "sent")
        BY <1>6, <2>4, <3>1, AtStages
      <4> QED
        BY <2>1, <3>1, <4>1 DEF Stage
    <3>2. CASE y # "sent"
      <4>1. At(t, y)
        BY <1>7, <1>8, <2>3, <2>4, <3>2, AtStages DEF Stage
      <4> QED
        BY <2>1, <4>1
    <3> QED
      BY <3>1, <3>2
  <2>5. ASSUME NEW t \in SocketsOf(c)
        PROVE  /\ OneCode(c2s'[t]) /\ OnlyCode(c2s'[t], LastRun(c)) /\ Len(s2c'[t]) <= 1
               /\ \A r \in Run : <<t, r>> \in adding \cup waiting => r = LastRun(c)
               /\ \A i \in 1 .. Len(s2c[t]) : s2c[t][i].run = LastRun(c)
    <3>1. /\ OneCode(c2s[t]) /\ OnlyCode(c2s[t], LastRun(c)) /\ Len(s2c[t]) <= 1
          /\ \A r \in Run : <<t, r>> \in adding \cup waiting => r = LastRun(c)
          /\ \A i \in 1 .. Len(s2c[t]) : s2c[t][i].run = LastRun(c)
      BY <1>1 DEF OnePlace, LastOnly
    <3> QED
      BY <1>5, <1>6, <1>7, <3>1
  <2>6. OnePlace(c)' /\ Ended(c)'
    <3>1. "sent" \in Stage /\ isRunning'[c] /\ view'[c].running
      BY <1>7, <2>2 DEF Stage
    <3> QED
      BY <1>2, <1>7, <2>4, <2>5, <3>1, Alone
  <2>7. LastOnly(c)'
    <3>1. OnlyCode(sendBuffer'[c], LastRun(c))
      BY <1>7, NoPackets
    <3> QED
      BY <1>7, <1>8, <2>5, <3>1 DEF LastOnly, SocketsOf
  <2>8. JobInv(c)'
    BY <1>1, <1>7, <1>8, <1>11 DEF JobInv, SocketsOf
  <2> QED
    BY <1>1, <1>3, <1>7, <1>8, <1>9, <2>6, <2>7, <2>8, AnswersStay
<1> QED
  BY <1>10, <1>11

\* The button starts a run only when the page has shown the end of the last.
LEMMA RunCodeStep ==
  ASSUME TypeOK, RequestsInv, NEW c \in Client, HandleRunCode(c)
  PROVE  ClientInv(c)'
<1> DEFINE r == <<c, runs[c] + 1>>
<1> USE DEF ClientInv
<1>1. ClientInv(c) /\ ~isRunning[c]
  BY DEF RequestsInv, Ended, HandleRunCode
<1>2. ~HasCode(sendBuffer[c]) /\ \A s \in SocketsOf(c), x \in Stage : ~At(s, x)
  BY <1>1 DEF Ended
<1>3. r \in Run /\ outcome[r] = "none" /\ runs[c] \in Nat
  <2>1. runs[c] + 1 \in 1 .. MaxRun[c] /\ runs[c] + 1 > runs[c] /\ runs[c] \in Nat
    BY DEF HandleRunCode, StartRun, TypeOK
  <2> QED
    BY <1>1, <2>1, RunShape DEF JobInv
<1>4. /\ runs'[c] = runs[c] + 1 /\ isRunning'[c] /\ output'[c] = None /\ view'[c].running
      /\ LastRun(c)' = r
  BY DEF HandleRunCode, StartRun, TypeOK, LastRun
<1>5. UNCHANGED <<conns, connected, open, adding, waiting, outcome, s2c>>
  BY DEF HandleRunCode, StartRun, serverVars, handlerVars
<1>6. /\ ExecuteCode(r) \in Packet /\ ExecuteCode(r) # JoinRoom
      /\ \A q \in Seq(Packet) : ~HasCode(q) =>
           OneCode(Append(q, ExecuteCode(r))) /\ OnlyCode(Append(q, ExecuteCode(r)), r)
  <2>1. ExecuteCode(r) \in Packet /\ ExecuteCode(r) # JoinRoom
    BY <1>3, PacketKinds
  <2> SUFFICES ASSUME NEW q \in Seq(Packet), ~HasCode(q)
               PROVE  OneCode(Append(q, ExecuteCode(r))) /\ OnlyCode(Append(q, ExecuteCode(r)), r)
    BY <2>1
  <2> HIDE DEF r
  <2> QED
    BY <2>1, AppendPacket
<1>7. \/ /\ connected[c] /\ sendBuffer' = sendBuffer
         /\ c2s' = c2s \/ c2s' = [c2s EXCEPT ![Cur(c)] = Append(@, ExecuteCode(r))]
      \/ /\ ~connected[c] /\ c2s' = c2s
         /\ sendBuffer' = [sendBuffer EXCEPT ![c] = Append(@, ExecuteCode(r))]
  BY DEF HandleRunCode, StartRun
<1> HIDE DEF r
<1>8. ASSUME NEW s \in SocketsOf(c)
      PROVE  /\ s \in Socket /\ s[1] = c
             /\ ~HasCode(c2s[s]) /\ c2s[s] \in Seq(Packet) /\ s2c[s] = <<>> /\ Len(s2c[s]) = 0
             /\ \A q \in Run : <<s, q>> \notin adding \cup waiting
  <2>1. s \in Socket /\ s[1] = c
    BY DEF SocketsOf
  <2>2. ~HasCode(c2s[s]) /\ s2c[s] = <<>> /\ <<s, LastRun(c)>> \notin adding \cup waiting
    BY <1>2, <2>1, AtStages DEF Stage
  <2>3. \A q \in Run : <<s, q>> \in adding \cup waiting => q = LastRun(c)
    BY <1>1 DEF LastOnly
  <2> QED
    BY <2>1, <2>2, <2>3, EmptySeq DEF TypeOK
<1>9. ConnInv(c)'
  BY <1>1, <1>5 DEF ConnInv
<1>10. OutputInv(c)'
  BY <1>4 DEF OutputInv
<1>11. sendBuffer[c] \in Seq(Packet) /\ OneCode(sendBuffer[c]) /\ OnlyCode(sendBuffer[c], r)
  BY <1>2, NoCode DEF TypeOK
<1>12. /\ OneCode(sendBuffer'[c]) /\ OnlyCode(sendBuffer'[c], r)
       /\ ~connected[c] \/ ~HasCode(sendBuffer'[c])
  BY <1>2, <1>6, <1>7, <1>11 DEF TypeOK
<1>13. ASSUME NEW s \in SocketsOf(c)
       PROVE  /\ OneCode(c2s'[s]) /\ OnlyCode(c2s'[s], r)
              /\ HasCode(c2s'[s]) => connected[c] /\ s = Cur(c)
  <2>1. OneCode(c2s[s]) /\ OnlyCode(c2s[s], r) /\ ~HasCode(c2s[s])
    BY <1>8, NoCode
  <2>2. \/ c2s'[s] = c2s[s]
        \/ connected[c] /\ s = Cur(c) /\ c2s'[s] = Append(c2s[s], ExecuteCode(r))
    BY <1>7, <1>8 DEF TypeOK
  <2> QED
    BY <1>6, <1>8, <2>1, <2>2
<1>14. ASSUME NEW s \in SocketsOf(c), NEW x \in Stage, At(s, x)'
       PROVE  connected[c] /\ s = Cur(c) /\ x = "sent"
  <2>1. s2c'[s] = <<>> /\ <<s, r>> \notin adding' \cup waiting' /\ LastRun(s[1])' = r
    BY <1>3, <1>4, <1>5, <1>8
  <2>2. x = "sent" /\ HasCode(c2s'[s])
    BY <1>14, <2>1, AtStages DEF Stage
  <2> QED
    BY <1>13, <2>2
<1>15. OnePlace(c)'
  <2>1. \A s \in SocketsOf(c) : OneCode(c2s'[s]) /\ Len(s2c'[s]) <= 1
    BY <1>5, <1>8, <1>13
  <2> QED
    BY <1>12, <1>14, <2>1 DEF OnePlace, SocketsOf
<1>16. Ended(c)'
  BY <1>4 DEF Ended
<1>17. LastOnly(c)'
  BY <1>4, <1>5, <1>8, <1>12, <1>13 DEF LastOnly, SocketsOf
<1>18. JobInv(c)'
  <2>1. \A n \in 1 .. MaxRun[c] : n > runs'[c] => outcome'[<<c, n>>] = "none"
    BY <1>1, <1>3, <1>4, <1>5 DEF JobInv, TypeOK
  <2>2. outcome'[r] = "none" /\ \A s \in SocketsOf(c) : Len(s2c'[s]) = 0
    BY <1>3, <1>5, <1>8
  <2> QED
    BY <1>4, <2>1, <2>2 DEF JobInv, SocketsOf
<1> QED
  BY <1>9, <1>10, <1>15, <1>16, <1>17, <1>18

\* "execution-result": the page shows the last run's, and nothing is left.
LEMMA ResultStep ==
  ASSUME TypeOK, RequestsInv, NEW c \in Client, HandleExecutionResult(c)
  PROVE  ClientInv(c)'
<1> DEFINE s == Cur(c)
<1> USE DEF ClientInv
<1>1. ClientInv(c) /\ connected[c]
  BY DEF RequestsInv, HandleExecutionResult
<1>2. s \in SocketsOf(c) /\ s \in Socket
  BY <1>1, CurSocket DEF SocketsOf
<1>3. s2c[s] \in Seq(Result) /\ s2c[s] # <<>> /\ "answered" \in Stage
  BY <1>2 DEF HandleExecutionResult, TypeOK, Stage
<1>4. /\ UNCHANGED <<conns, connected, view, runs, sendBuffer, adding, waiting, outcome, c2s>>
      /\ output'[c] = Head(s2c[s]) /\ isRunning'[c] = FALSE
      /\ s2c'[s] = Tail(s2c[s]) /\ \A t \in SocketsOf(c) : t # s => s2c'[t] = s2c[t]
  BY <1>2 DEF HandleExecutionResult, handlerVars, TypeOK, SocketsOf
<1> HIDE DEF s
<1>5. /\ ~HasCode(sendBuffer[c])
      /\ \A t \in SocketsOf(c), y \in Stage : At(t, y) => t = s /\ y = "answered"
  BY <1>1, <1>2, <1>3, AtStages, Only
<1>6. Len(s2c[s]) = 1 /\ s2c'[s] = <<>> /\ Head(s2c[s]) = s2c[s][1]
  <2>1. Len(s2c[s]) <= 1
    BY <1>1, <1>2 DEF OnePlace
  <2>2. Len(s2c[s]) \in Nat \ {0}
    BY <1>3, EmptySeq
  <2>3. Tail(s2c[s]) \in Seq(Result) /\ Len(Tail(s2c[s])) = Len(s2c[s]) - 1
        /\ Head(s2c[s]) = s2c[s][1]
    BY <1>3, HeadTailProperties
  <2>4. Len(s2c[s]) = 1
    <3>1. \A n \in Nat \ {0} : n <= 1 => n = 1 /\ n - 1 = 0
      OBVIOUS
    <3> QED
      BY <2>1, <2>2, <3>1
  <2>5. Tail(s2c[s]) = <<>>
    <3>1. \A n : n = 1 => n - 1 \notin Nat \ {0}
      OBVIOUS
    <3> QED
      BY <2>3, <2>4, <3>1, EmptySeq
  <2>6. s2c'[s] = Tail(s2c[s])
    BY <1>4
  <2> QED
    BY <2>3, <2>4, <2>5, <2>6
<1>7. LastRun(c)' = LastRun(c)
  BY <1>4 DEF LastRun
<1>8. \A t \in SocketsOf(c) : s2c'[t] = <<>> /\ Len(s2c'[t]) = 0
  <2>1. \A t \in SocketsOf(c) : t # s => s2c[t] = <<>>
    BY <1>3, <1>5, AtStages
  <2> QED
    BY <1>4, <1>6, <2>1, EmptySeq
<1>9. ASSUME NEW t \in SocketsOf(c), NEW y \in Stage
      PROVE  ~At(t, y)'
  <2> SUFFICES ASSUME At(t, y)'
               PROVE  FALSE
    OBVIOUS
  <2>1. t[1] = c /\ s2c'[t] = <<>>
    BY <1>8 DEF SocketsOf
  <2>2. y # "answered"
    BY <2>1, AtStages
  <2>3. At(t, y)
    BY <1>4, <1>7, <2>1, <2>2, AtStages DEF Stage
  <2> QED
    BY <1>5, <2>2, <2>3
<1>10. ASSUME NEW t \in SocketsOf(c)
       PROVE  /\ OneCode(c2s'[t]) /\ OnlyCode(c2s'[t], LastRun(c)) /\ Len(s2c'[t]) <= 1
              /\ \A r \in Run : <<t, r>> \in adding' \cup waiting' => r = LastRun(c)
  BY <1>1, <1>4, <1>8 DEF OnePlace, LastOnly
<1>11. OnePlace(c)' /\ Ended(c)'
  BY <1>2, <1>3, <1>4, <1>5, <1>9, <1>10, Alone
<1>12. LastOnly(c)'
  <2>1. OnlyCode(sendBuffer'[c], LastRun(c))
    BY <1>1, <1>4 DEF LastOnly
  <2> QED
    BY <1>7, <1>8, <1>10, <2>1 DEF LastOnly, SocketsOf
<1>13. JobInv(c)'
  <2>1. \A n \in 1 .. MaxRun[c] : n > runs'[c] => outcome'[<<c, n>>] = "none"
    BY <1>1, <1>4 DEF JobInv
  <2> QED
    BY <1>4, <1>5, <1>8, <1>9, <2>1 DEF JobInv, SocketsOf, Stage
<1>14. OutputInv(c)'
  <2>1. /\ s2c[s][1].run = LastRun(c)
        /\ s2c[s][1].status # "failed" => s2c[s][1].status = outcome[LastRun(c)]
    BY <1>1, <1>2, <1>6 DEF LastOnly, JobInv
  <2> QED
    BY <1>4, <1>6, <1>7, <2>1 DEF OutputInv
<1>15. ConnInv(c)'
  BY <1>1, <1>4 DEF ConnInv
<1> QED
  BY <1>11, <1>12, <1>13, <1>14, <1>15

-----------------------------------------------------------------------------
(* The theorems.                                                           *)

LEMMA RequestsStart ==
  ASSUME Init
  PROVE  TypeOK /\ RequestsInv
<1> USE DEF Init
<1>1. \A c \in Client : <<>> \in Seq(Packet) /\ MaxRun[c] \in Nat /\ MaxConn[c] \in Nat
  BY NoPackets
<1>2. <<>> \in Seq(Result) /\ Len(<<>>) = 0
  BY EmptySeq
<1>3. TypeOK
  BY <1>1, <1>2 DEF TypeOK, Queue!Init
<1>4. ASSUME NEW c \in Client
      PROVE  ClientInv(c)
  <2>1. /\ sendBuffer[c] = <<>> /\ runs[c] = 0 /\ ~isRunning[c] /\ output[c] = None
        /\ conns[c] = 0 /\ ~connected[c]
    OBVIOUS
  <2>2. \A s \in SocketsOf(c) : c2s[s] = <<>> /\ s2c[s] = <<>>
    BY DEF SocketsOf
  <2>3. \A s \in SocketsOf(c), x \in Stage : ~At(s, x)
    BY <2>2, NoPackets, AtStages DEF Stage
  <2>4. \A n \in 1 .. MaxRun[c] : outcome[<<c, n>>] = "none"
    BY RunShape DEF Queue!Init
  <2>5. ConnInv(c) /\ OutputInv(c)
    BY <1>1, <2>1 DEF ConnInv, OutputInv
  <2>6. /\ ~HasCode(sendBuffer[c]) /\ OneCode(sendBuffer[c]) /\ OnlyCode(sendBuffer[c], LastRun(c))
        /\ adding = {} /\ waiting = {}
    BY <2>1, NoPackets
  <2> HIDE DEF Init
  <2>7. ASSUME NEW s \in SocketsOf(c)
        PROVE  OneCode(c2s[s]) /\ OnlyCode(c2s[s], LastRun(c)) /\ Len(s2c[s]) = 0
    BY <1>2, <2>2, NoPackets
  <2>8. LastOnly(c)
    BY <2>6, <2>7 DEF LastOnly
  <2>9. OnePlace(c) /\ Ended(c)
    BY <2>1, <2>3, <2>6, <2>7 DEF OnePlace, Ended
  <2>10. JobInv(c)
    BY <2>3, <2>4, <2>6, <2>7 DEF JobInv, Stage
  <2> QED
    BY <2>5, <2>8, <2>9, <2>10 DEF ClientInv
<1> QED
  BY <1>3, <1>4 DEF RequestsInv

LEMMA RequestsStep ==
  ASSUME TypeOK, RequestsInv, [Next]_vars
  PROVE  TypeOK' /\ RequestsInv'
<1>1. TypeOK'
  BY TypeStep
<1>2. ASSUME NEW d \in Client
      PROVE  ClientInv(d)'
  <2>1. ASSUME NEW c \in Client, ClientNext(c)
        PROVE  ClientInv(d)'
    <3>1. CASE d # c
      BY <2>1, <3>1, ClientOthers DEF RequestsInv
    <3>2. CASE d = c
      BY <2>1, <3>2, ConnectStep, RunCodeStep, ResultStep, FadingSteps DEF ClientNext
    <3> QED
      BY <3>1, <3>2
  <2>2. ASSUME NEW s \in Socket, ServerNext(s)
        PROVE  ClientInv(d)'
    BY <2>2, ExecuteStep, FadingSteps DEF ServerNext
  <2>3. ASSUME NEW s \in Socket, NEW r \in Run, HandlerStep(s, r)
        PROVE  ClientInv(d)'
    BY <2>3, HandlerInv
  <2>4. CASE UNCHANGED vars \/ ServerRestart \/ \E r \in Run : JobFinishes(r)
    BY <2>4, FadingSteps
  <2> QED
    BY <2>1, <2>2, <2>3, <2>4 DEF Next
<1> QED
  BY <1>1, <1>2 DEF RequestsInv

\* In every reachable state the types are right and each run has one place.
LEMMA RequestsInvariance == Spec => [](TypeOK /\ RequestsInv)
<1>1. Init => TypeOK /\ RequestsInv
  BY RequestsStart
<1>2. TypeOK /\ RequestsInv /\ [Next]_vars => (TypeOK /\ RequestsInv)'
  BY RequestsStep
<1> QED
  BY <1>1, <1>2, PTL DEF Spec

\* The type invariant of the page, the connections, the handlers and the jobs.
THEOREM RequestsTyping == Spec => []TypeOK
BY RequestsInvariance, PTL

\* The last run of a client is in one place at most, from the click to the
\* page, and in none once the page has shown its end.
THEOREM OneRunOnePlace == Spec => []RequestsInv
BY RequestsInvariance, PTL

\* The output shown is that of the client's last run, with its job's status.
THEOREM OutputOfLastRun == Spec => []OutputIsOwn
<1>1. RequestsInv => OutputIsOwn
  BY DEF RequestsInv, ClientInv, OutputInv, OutputIsOwn
<1> QED
  BY <1>1, RequestsInvariance, PTL

\* No earlier run can still be answered when the page can start the next.
THEOREM OneRunAtATime == Spec => []OneAtATime
<1>1. ASSUME TypeOK, RequestsInv, NEW c \in Client, NEW r \in UnderWay(c)
      PROVE  isRunning[c] /\ r = LastRun(c)
  <2> USE DEF ClientInv
  <2>1. r \in Run /\ ClientInv(c)
    BY <1>1 DEF UnderWay, RequestsInv
  <2>2. ExecuteCode(r) # JoinRoom /\ \A q : ExecuteCode(r) = ExecuteCode(q) => r = q
    <3>1. \A q : ExecuteCode(q).run = q
      BY PacketKinds
    <3> QED
      BY <3>1, PacketKinds
  <2>3. ASSUME NEW q, NEW i \in 1 .. Len(q), q[i] = ExecuteCode(r), OnlyCode(q, LastRun(c))
        PROVE  HasCode(q) /\ r = LastRun(c)
    BY <2>2, <2>3 DEF HasCode, OnlyCode
  <2>4. CASE \E i \in 1 .. Len(sendBuffer[c]) : sendBuffer[c][i] = ExecuteCode(r)
    BY <2>1, <2>3, <2>4 DEF LastOnly, Ended
  <2>5. CASE Cur(c) \in Socket
    <3>1. Cur(c) \in SocketsOf(c) /\ Cur(c)[1] = c
      BY <2>5 DEF SocketsOf, Cur
    <3>2. (\E x \in Stage : At(Cur(c), x)) => isRunning[c]
      BY <2>1, <3>1 DEF Ended
    <3>3. CASE <<Cur(c), r>> \in adding \cup waiting
      <4>1. r = LastRun(c)
        BY <2>1, <3>1, <3>3 DEF LastOnly
      <4> QED
        BY <3>1, <3>2, <3>3, <4>1, AtStages DEF Stage
    <3>4. CASE \E i \in 1 .. Len(c2s[Cur(c)]) : c2s[Cur(c)][i] = ExecuteCode(r)
      BY <2>1, <2>3, <3>1, <3>2, <3>4, AtStages DEF LastOnly, Stage
    <3>5. CASE \E i \in 1 .. Len(s2c[Cur(c)]) : s2c[Cur(c)][i].run = r
      <4>1. r = LastRun(c) /\ Len(s2c[Cur(c)]) # 0
        BY <2>1, <3>1, <3>5, EmptySeq DEF LastOnly
      <4>2. s2c[Cur(c)] # <<>>
        BY <4>1, EmptySeq
      <4> QED
        BY <3>2, <4>1, <4>2, AtStages DEF Stage
    <3> QED
      BY <1>1, <2>4, <3>3, <3>4, <3>5 DEF UnderWay
  <2>6. CASE Cur(c) \notin Socket
    <3>1. <<Cur(c), r>> \notin adding \cup waiting
      BY <1>1, <2>6 DEF TypeOK
    <3> QED
      BY <1>1, <2>4, <2>6, <3>1 DEF UnderWay
  <2> QED
    BY <2>5, <2>6
<1>2. TypeOK /\ RequestsInv => OneAtATime
  BY <1>1 DEF OneAtATime
<1> QED
  BY <1>2, RequestsInvariance, PTL

=============================================================================
