-------------------------- MODULE ExecutionRequests --------------------------
(***************************************************************************)
(* Running code from the editor: App.tsx in every browser, the socket.io   *)
(* connection, the "execute-code" handler of sync-server and the queue     *)
(* behind it, of which only the promises of JobQueue are used.             *)
(*                                                                         *)
(* A client is one load of the page.  Its socket reconnects as in          *)
(* CollabSync; every connection is a new socket <<client, n>> at the       *)
(* server.  What the user sees is React's last commit: a socket event      *)
(* changes the state first and the page a little later, whereas a click or *)
(* a key press is committed before the next one.                           *)
(*                                                                         *)
(* An operator X_Y is X with the bug Y; nothing uses it.                   *)
(***************************************************************************)
EXTENDS Naturals, Sequences

CONSTANTS
  Client,
  None,
  Status,     \* the statuses of an ExecutionResult
  MaxRun,     \* MaxRun[c]: bound on the runs of client c
  MaxConn,    \* MaxConn[c]: bound on the connections of client c
  MaxRestart  \* bound on the restarts of the sync-server

ASSUME StatusAssumption == "failed" \in Status /\ Status \cap {"none", "pending", "error"} = {}
ASSUME MaxRunAssumption == MaxRun \in [Client -> Nat]
ASSUME MaxConnAssumption == MaxConn \in [Client -> Nat]
ASSUME MaxRestartAssumption == MaxRestart \in Nat

VARIABLES
  conns,       \* conns[c]: number of "connect" events so far
  connected,   \* connected[c]: the client end of its socket is connected
  isRunning,   \* isRunning[c]: the React state of that name
  output,      \* output[c]: likewise
  view,        \* view[c]: isRunning and connected as last committed
  runs,        \* runs[c]: number of runs the user has started
  via,         \* history: the connection on which the last one was emitted
  sendBuffer,  \* sendBuffer[c]: packets emitted while disconnected
  open,        \* sockets whose "disconnect" the server has not handled
  joined,      \* sockets with currentRoomId set
  adding,      \* <<s, r>>: the handler of run r on s awaits queue.add
  waiting,     \* <<s, r>>: it awaits job.waitUntilFinished
  c2s,         \* c2s[s]: packets on their way to the server
  s2c,         \* s2c[s]: execution-results on their way to the client
  restarts,    \* number of restarts of the server so far
  outcome      \* outcome[r]: the job of run r in the queue

pageVars == <<isRunning, output, view, runs, via>>
clientVars == <<conns, connected, sendBuffer, pageVars>>
handlerVars == <<adding, waiting, outcome>>
serverVars == <<open, joined, restarts>>
vars == <<clientVars, serverVars, handlerVars, c2s, s2c>>

\* Run <<c, n>> is the n-th of client c; its job has a random UUID of its own.
Run == UNION {{c} \X (1 .. MaxRun[c]) : c \in Client}
Socket == UNION {{c} \X (1 .. MaxConn[c]) : c \in Client}

Queue == INSTANCE JobQueue WITH Job <- Run

JoinRoom == [type |-> "join-room"]
ExecuteCode(r) == [type |-> "execute-code", run |-> r]
Packet == {JoinRoom} \cup {ExecuteCode(r) : r \in Run}
Result == [run : Run, status : Status]

TypeOK ==
  /\ conns \in [Client -> Nat]
  /\ connected \in [Client -> BOOLEAN]
  /\ isRunning \in [Client -> BOOLEAN]
  /\ output \in [Client -> Result \cup {None}]
  /\ view \in [Client -> [running : BOOLEAN, connected : BOOLEAN]]
  /\ runs \in [Client -> Nat] /\ \A c \in Client : runs[c] <= MaxRun[c]
  /\ via \in [Client -> Nat]
  /\ sendBuffer \in [Client -> Seq(Packet)]
  /\ open \in SUBSET Socket
  /\ joined \in SUBSET open
  /\ adding \in SUBSET (Socket \X Run)
  /\ waiting \in SUBSET (Socket \X Run)
  /\ c2s \in [Socket -> Seq(Packet)]
  /\ s2c \in [Socket -> Seq(Result)]
  /\ restarts \in 0 .. MaxRestart
  /\ outcome \in [Run -> {"none", "pending"} \cup Queue!Outcome]

\* The socket and the run a client used last.
Cur(c) == <<c, conns[c]>>
LastRun(c) == <<c, runs[c]>>

\* The client end of s is connected, so what the server emits can arrive.
Live(s) == connected[s[1]] /\ conns[s[1]] = s[2]

ServerEmit(S, m) ==
  s2c' = [s \in Socket |-> IF s \in S /\ Live(s) THEN Append(s2c[s], m) ELSE s2c[s]]

Init ==
  /\ conns = [c \in Client |-> 0]
  /\ connected = [c \in Client |-> FALSE]
  /\ isRunning = [c \in Client |-> FALSE]
  /\ output = [c \in Client |-> None]
  /\ view = [c \in Client |-> [running |-> FALSE, connected |-> FALSE]]
  /\ runs = [c \in Client |-> 0]
  /\ via = [c \in Client |-> 0]
  /\ sendBuffer = [c \in Client |-> <<>>]
  /\ open = {} /\ joined = {}
  /\ adding = {} /\ waiting = {}
  /\ c2s = [s \in Socket |-> <<>>]
  /\ s2c = [s \in Socket |-> <<>>]
  /\ restarts = 0
  /\ Queue!Init

-----------------------------------------------------------------------------
(* The client.                                                             *)

\* "connect": the send buffer is flushed before the handler emits join-room.
HandleConnect(c) ==
  LET s == <<c, conns[c] + 1>> IN
  /\ ~connected[c] /\ conns[c] < MaxConn[c]
  /\ conns' = [conns EXCEPT ![c] = @ + 1]
  /\ connected' = [connected EXCEPT ![c] = TRUE]
  /\ sendBuffer' = [sendBuffer EXCEPT ![c] = <<>>]
  /\ open' = open \cup {s}
  /\ c2s' = [c2s EXCEPT ![s] = Append(sendBuffer[c], JoinRoom)]
  /\ UNCHANGED <<pageVars, joined, restarts, handlerVars, s2c>>

\* "disconnect" at the client.  isRunning is left alone.
HandleDisconnect(c) ==
  /\ connected[c]
  /\ connected' = [connected EXCEPT ![c] = FALSE]
  /\ s2c' = [s2c EXCEPT ![Cur(c)] = <<>>]
  /\ UNCHANGED <<conns, sendBuffer, pageVars, serverVars, handlerVars, c2s>>

\* React commits the state that socket events have changed.
Commit(c) ==
  /\ view' = [view EXCEPT ![c] = [running |-> isRunning[c], connected |-> connected[c]]]
  /\ UNCHANGED <<conns, connected, isRunning, output, runs, via, sendBuffer,
                 serverVars, handlerVars, c2s, s2c>>

\* setIsRunning(true), setOutput(null) and emit, committed at once.
StartRun(c) ==
  LET r == <<c, runs[c] + 1>> IN
  /\ runs[c] < MaxRun[c]
  /\ runs' = [runs EXCEPT ![c] = @ + 1]
  /\ isRunning' = [isRunning EXCEPT ![c] = TRUE]
  /\ output' = [output EXCEPT ![c] = None]
  /\ view' = [view EXCEPT ![c] = [running |-> TRUE, connected |-> connected[c]]]
  /\ via' = [via EXCEPT ![c] = IF connected[c] THEN conns[c] ELSE 0]
  /\ IF connected[c]
     THEN /\ c2s' = IF Cur(c) \in open
                    THEN [c2s EXCEPT ![Cur(c)] = Append(@, ExecuteCode(r))] ELSE c2s
          /\ UNCHANGED sendBuffer
     ELSE /\ sendBuffer' = [sendBuffer EXCEPT ![c] = Append(@, ExecuteCode(r))]
          /\ UNCHANGED c2s
  /\ UNCHANGED <<conns, connected, serverVars, handlerVars, s2c>>

HandleRunCode_NotGuarded(c) == view[c].connected /\ StartRun(c)

\* The Run button and Ctrl+Enter: both are guarded by what was committed.
HandleRunCode(c) == view[c].connected /\ ~view[c].running /\ StartRun(c)

\* "execution-result": shown whichever run it belongs to.
HandleExecutionResult(c) ==
  /\ connected[c] /\ s2c[Cur(c)] # <<>>
  /\ output' = [output EXCEPT ![c] = Head(s2c[Cur(c)])]
  /\ isRunning' = [isRunning EXCEPT ![c] = FALSE]
  /\ s2c' = [s2c EXCEPT ![Cur(c)] = Tail(@)]
  /\ UNCHANGED <<conns, connected, view, runs, via, sendBuffer, serverVars, handlerVars, c2s>>

-----------------------------------------------------------------------------
(* The server.                                                             *)

ServerReceives(s, type) ==
  /\ s \in open /\ c2s[s] # <<>> /\ Head(c2s[s]).type = type
  /\ c2s' = [c2s EXCEPT ![s] = Tail(@)]

OnJoinRoom(s) ==
  /\ ServerReceives(s, "join-room")
  /\ joined' = joined \cup {s}
  /\ UNCHANGED <<clientVars, open, restarts, handlerVars, s2c>>

\* The handler up to the first await; "if (!currentRoomId) return".
OnExecuteCode(s) ==
  /\ ServerReceives(s, "execute-code")
  /\ adding' = IF s \in joined THEN adding \cup {<<s, Head(c2s[s]).run>>} ELSE adding
  /\ UNCHANGED <<clientVars, serverVars, waiting, outcome, s2c>>

\* executionQueue.add resolves.
JobAdded(s, r) ==
  /\ <<s, r>> \in adding
  /\ Queue!Add(r)
  /\ adding' = adding \ {<<s, r>>}
  /\ waiting' = waiting \cup {<<s, r>>}
  /\ UNCHANGED <<clientVars, serverVars, c2s, s2c>>

JobFinishes(r) ==
  /\ Queue!Finish(r)
  /\ UNCHANGED <<clientVars, serverVars, adding, waiting, c2s, s2c>>

AnswerRun_ToRoom(s, r, status) ==
  ServerEmit(joined, [run |-> r, status |-> status])

\* The handler ends by emitting to the socket that sent execute-code.
AnswerRun(s, r, status) ==
  ServerEmit({s}, [run |-> r, status |-> status])

\* waitUntilFinished settles: a job that failed makes it throw.
WaitSettles(s, r) ==
  /\ <<s, r>> \in waiting /\ outcome[r] \in Queue!Outcome
  /\ waiting' = waiting \ {<<s, r>>}
  /\ AnswerRun(s, r, IF outcome[r] = "error" THEN "failed" ELSE outcome[r])
  /\ UNCHANGED <<clientVars, serverVars, adding, outcome, c2s>>

HandlerThrows_Silent(s, r) ==
  /\ <<s, r>> \in adding \cup waiting
  /\ adding' = adding \ {<<s, r>>}
  /\ waiting' = waiting \ {<<s, r>>}
  /\ UNCHANGED outcome \/ (<<s, r>> \in adding /\ Queue!Add(r))
  /\ UNCHANGED <<clientVars, serverVars, c2s, s2c>>

\* Redis refuses one of the two calls, or gracefulShutdown has closed the
\* queue: the catch block answers.  The job, which is in the queue even where
\* queue.add failed after it had reached Redis, goes on.
HandlerThrows(s, r) ==
  /\ <<s, r>> \in adding \cup waiting
  /\ adding' = adding \ {<<s, r>>}
  /\ waiting' = waiting \ {<<s, r>>}
  /\ UNCHANGED outcome \/ (<<s, r>> \in adding /\ Queue!Add(r))
  /\ AnswerRun(s, r, "failed")
  /\ UNCHANGED <<clientVars, serverVars, c2s>>

OnDisconnect_StaysJoined(s) ==
  /\ s \in open
  /\ open' = open \ {s}
  /\ c2s' = [c2s EXCEPT ![s] = <<>>]
  /\ UNCHANGED <<clientVars, joined, restarts, handlerVars, s2c>>

\* "disconnect" at the server.  The handlers that await go on.
OnDisconnect(s) ==
  /\ s \in open
  /\ open' = open \ {s}
  /\ joined' = joined \ {s}
  /\ c2s' = [c2s EXCEPT ![s] = <<>>]
  /\ UNCHANGED <<clientVars, restarts, handlerVars, s2c>>

\* The process stops and is started again; of the calls of queue.add under
\* way those in "done" have reached Redis.
ServerRestart ==
  /\ restarts < MaxRestart
  /\ restarts' = restarts + 1
  /\ open' = {} /\ joined' = {} /\ adding' = {} /\ waiting' = {}
  /\ c2s' = [s \in Socket |-> <<>>]
  /\ \E done \in SUBSET {r \in Run : \E s \in Socket : <<s, r>> \in adding} :
       outcome' = [r \in Run |-> IF r \in done THEN "pending" ELSE outcome[r]]
  /\ UNCHANGED <<clientVars, s2c>>

-----------------------------------------------------------------------------
HandlerStep(s, r) == JobAdded(s, r) \/ WaitSettles(s, r) \/ HandlerThrows(s, r)

ClientNext(c) ==
  \/ HandleConnect(c)
  \/ HandleDisconnect(c)
  \/ Commit(c)
  \/ HandleRunCode(c)
  \/ HandleExecutionResult(c)

ServerNext(s) ==
  \/ OnJoinRoom(s)
  \/ OnExecuteCode(s)
  \/ OnDisconnect(s)

Next ==
  \/ \E c \in Client : ClientNext(c)
  \/ \E s \in Socket : ServerNext(s)
  \/ \E s \in Socket, r \in Run : HandlerStep(s, r)
  \/ \E r \in Run : JobFinishes(r)
  \/ ServerRestart

Spec == Init /\ [][Next]_vars

\* Event loops handle what has arrived, an end of a connection whose other
\* end is gone finds out, Redis answers and jobs finish (ExecutionEngine).
Fairness ==
  /\ \A c \in Client :
       /\ WF_vars(Commit(c))
       /\ WF_vars(HandleExecutionResult(c))
       /\ WF_vars(Cur(c) \notin open /\ HandleDisconnect(c))
  /\ \A s \in Socket :
       /\ WF_vars(OnJoinRoom(s) \/ OnExecuteCode(s))
       /\ WF_vars(~Live(s) /\ OnDisconnect(s))
  /\ \A s \in Socket, r \in Run : WF_vars(HandlerStep(s, r))
  /\ \A r \in Run : WF_vars(JobFinishes(r))

FairSpec == Spec /\ Fairness

-----------------------------------------------------------------------------
(* Properties.                                                             *)

\* The output shown is the result of the run the user started last, of no
\* older one and of nobody else's, and a status other than "failed" is the
\* one the job had.
OutputIsOwn ==
  \A c \in Client : output[c] # None =>
    /\ output[c].run = LastRun(c)
    /\ output[c].status # "failed" => output[c].status = outcome[LastRun(c)]

\* The runs of client c that can still be answered on its connection.
UnderWay(c) ==
  {r \in Run :
    \/ <<Cur(c), r>> \in adding \cup waiting
    \/ \E i \in 1 .. Len(sendBuffer[c]) : sendBuffer[c][i] = ExecuteCode(r)
    \/ Cur(c) \in Socket /\ \E i \in 1 .. Len(c2s[Cur(c)]) : c2s[Cur(c)][i] = ExecuteCode(r)
    \/ Cur(c) \in Socket /\ \E i \in 1 .. Len(s2c[Cur(c)]) : s2c[Cur(c)][i].run = r}

\* A client has one run at a time: when it can start one, no earlier run can
\* still be answered and take the new one's place, however late it is.
OneAtATime ==
  \A c \in Client : UnderWay(c) \subseteq (IF isRunning[c] THEN {LastRun(c)} ELSE {})

\* A run that is emitted on a connection that lasts is answered, whether the
\* job finishes or the queue fails.
RunAnswered ==
  \A c \in Client :
    isRunning[c] /\ connected[c] /\ via[c] = conns[c] ~> ~isRunning[c] \/ ~connected[c]

\* shared-types, ExecutionResult: "Result returned after a code execution job
\* completes."  A client that stays connected in the end gets it.  The code
\* does not provide this: the result of a job that finishes after its socket
\* is gone is dropped, and isRunning stays set.
ResultReturned ==
  \A r \in Run :
    <>[]connected[r[1]] =>
      (runs[r[1]] = r[2] /\ outcome[r] \in Queue!Outcome ~> ~isRunning[r[1]])

-----------------------------------------------------------------------------
(* What makes OutputIsOwn and OneAtATime inductive.                        *)

\* Packets q contain an execute-code, and no two.
HasCode(q) == \E i \in 1 .. Len(q) : q[i] # JoinRoom
OneCode(q) == \A i, j \in 1 .. Len(q) : q[i] # JoinRoom /\ q[j] # JoinRoom => i = j

\* The only run that packets q ask for is r.
OnlyCode(q, r) == \A i \in 1 .. Len(q) : q[i] \in {JoinRoom, ExecuteCode(r)}

\* How far socket s has got with the last run of its client.
At(s, stage) ==
  LET r == LastRun(s[1]) IN
  \/ stage = "sent" /\ HasCode(c2s[s])
  \/ stage = "adding" /\ <<s, r>> \in adding
  \/ stage = "waiting" /\ <<s, r>> \in waiting
  \/ stage = "answered" /\ s2c[s] # <<>>

Stage == {"sent", "adding", "waiting", "answered"}
SocketsOf(c) == {s \in Socket : s[1] = c}

\* The socket of a client that is connected is one of its own.
ConnInv(c) ==
  /\ conns[c] <= MaxConn[c]
  /\ connected[c] => conns[c] >= 1

\* Whatever is on its way for a client is of its last run.
LastOnly(c) ==
  /\ OnlyCode(sendBuffer[c], LastRun(c))
  /\ \A s \in SocketsOf(c) :
       /\ OnlyCode(c2s[s], LastRun(c))
       /\ \A r \in Run : <<s, r>> \in adding \cup waiting => r = LastRun(c)
       /\ \A i \in 1 .. Len(s2c[s]) : s2c[s][i].run = LastRun(c)

\* The last run is in one place at most, of the buffer, the channels and the
\* handlers of all the client's sockets.
OnePlace(c) ==
  /\ OneCode(sendBuffer[c])
  /\ \A s \in SocketsOf(c) : OneCode(c2s[s]) /\ Len(s2c[s]) <= 1
  /\ \A s, t \in SocketsOf(c), x, y \in Stage : At(s, x) /\ At(t, y) => s = t /\ x = y
  /\ HasCode(sendBuffer[c]) => \A s \in SocketsOf(c), x \in Stage : ~At(s, x)

\* A run that the page has shown the end of is nowhere any more.
Ended(c) ==
  /\ isRunning[c] => view[c].running
  /\ ~isRunning[c] =>
       ~HasCode(sendBuffer[c]) /\ \A s \in SocketsOf(c), x \in Stage : ~At(s, x)

\* The queue has not heard of a run before the handler has added it, and an
\* answer that tells the job's outcome tells it for good.
JobInv(c) ==
  /\ \A n \in 1 .. MaxRun[c] : n > runs[c] => outcome[<<c, n>>] = "none"
  /\ HasCode(sendBuffer[c]) => outcome[LastRun(c)] = "none"
  /\ \A s \in SocketsOf(c) : At(s, "sent") \/ At(s, "adding") => outcome[LastRun(c)] = "none"
  /\ \A s \in SocketsOf(c) : \A i \in 1 .. Len(s2c[s]) :
       s2c[s][i].status # "failed" => s2c[s][i].status = outcome[LastRun(c)]

OutputInv(c) ==
  output[c] # None =>
    /\ output[c].run = LastRun(c)
    /\ output[c].status # "failed" => output[c].status = outcome[LastRun(c)]

\* The inductive invariant: a run has one place on its way from the click to
\* the page, and none when the page is ready for the next one.
ClientInv(c) ==
  ConnInv(c) /\ LastOnly(c) /\ OnePlace(c) /\ Ended(c) /\ JobInv(c) /\ OutputInv(c)

RequestsInv == \A c \in Client : ClientInv(c)
=============================================================================
