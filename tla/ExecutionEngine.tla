--------------------------- MODULE ExecutionEngine ---------------------------
(***************************************************************************)
(* The execution engine: the BullMQ worker of worker.ts, the function      *)
(* executeInSandbox it runs for every job, and the Docker containers that  *)
(* this creates.  BullMQ (queue, job locks, the check for stalled jobs)    *)
(* and Docker are outside the repository and modelled as the engine uses   *)
(* them; every call to Docker may fail, and may never answer.              *)
(*                                                                         *)
(* A job is taken again when its lock was lost, so it has attempts         *)
(* <<job, n>>.  An attempt occupies a slot of the worker until the         *)
(* processor's promise settles; when the hang timer settles it first,      *)
(* executeInSandbox goes on without a slot.                                *)
(*                                                                         *)
(* An operator X_Y is X with the bug Y; nothing uses it.                   *)
(***************************************************************************)
EXTENDS Naturals, FiniteSets

CONSTANTS
  Job,
  Concurrency,   \* WORKER_CONCURRENCY
  MaxStalled,    \* maxStalledCount
  MaxRestart     \* bound on the restarts of the worker process

ASSUME ConcurrencyAssumption == Concurrency \in Nat \ {0}
ASSUME MaxStalledAssumption == MaxStalled \in Nat
ASSUME MaxRestartAssumption == MaxRestart \in Nat

VARIABLES
  job,         \* job[j]: its state in the queue, or its outcome
  stalls,      \* stalls[j]: how often the job was found stalled
  locked,      \* jobs whose lock exists
  processing,  \* attempts that occupy a slot of the worker
  phase,       \* phase[t]: where executeInSandbox stands in attempt t
  result,      \* result[t]: status of the ExecutionResult it has made
  container,   \* container[t]: the container of attempt t, as Docker has it
  stray,       \* history: attempts whose container the engine lost track of
  closing,     \* worker.close() was called
  restarts     \* number of restarts of the worker so far

queueVars == <<job, stalls, locked>>
workerVars == <<processing, closing, restarts>>
sandboxVars == <<phase, result, container, stray>>
vars == <<queueVars, workerVars, sandboxVars>>

Attempt == Job \X (1 .. MaxStalled + 1)

Status == {"completed", "failed", "timeout"}
Outcome == Status \cup {"error"}

\* Until "remove" executeInSandbox waits for the call of that name.
HasHandle == {"start", "wait", "stop", "collect", "remove"}
InSandbox == {"image", "create"} \cup HasHandle
Phase == InSandbox \cup {"idle", "returned", "dead"}
Container == {"none", "created", "running", "exited", "removed"}

TypeOK ==
  /\ job \in [Job -> {"none", "waiting", "active"} \cup Outcome]
  /\ stalls \in [Job -> 0 .. MaxStalled + 1]
  /\ locked \in SUBSET Job
  /\ processing \in SUBSET Attempt
  /\ phase \in [Attempt -> Phase]
  /\ result \in [Attempt -> Status \cup {"none"}]
  /\ container \in [Attempt -> Container]
  /\ stray \in SUBSET Attempt
  /\ closing \in BOOLEAN
  /\ restarts \in 0 .. MaxRestart

\* The attempt the job is in, or will be in when it is taken next.
Cur(j) == <<j, stalls[j] + 1>>

\* Attempt t holds its job's lock.
Holds(t) == job[t[1]] = "active" /\ t[1] \in locked /\ t = Cur(t[1])

Exists(t) == container[t] \in {"created", "running", "exited"}

Init ==
  /\ job = [j \in Job |-> "none"]
  /\ stalls = [j \in Job |-> 0]
  /\ locked = {}
  /\ processing = {}
  /\ phase = [t \in Attempt |-> "idle"]
  /\ result = [t \in Attempt |-> "none"]
  /\ container = [t \in Attempt |-> "none"]
  /\ stray = {}
  /\ closing = FALSE
  /\ restarts = 0

-----------------------------------------------------------------------------
(* The queue.                                                              *)

\* queue.add of the sync-server.
Add(j) ==
  /\ job[j] = "none"
  /\ job' = [job EXCEPT ![j] = "waiting"]
  /\ UNCHANGED <<stalls, locked, workerVars, sandboxVars>>

\* The lock expires after lockDuration without a renewal: the worker that
\* took the job is gone, or was cut off from Redis for that long.
LockExpires(j) ==
  /\ job[j] = "active" /\ j \in locked
  /\ locked' = locked \ {j}
  /\ UNCHANGED <<job, stalls, workerVars, sandboxVars>>

MoveStalled_Forever(j) ==
  /\ job[j] = "active" /\ j \notin locked
  /\ stalls' = [stalls EXCEPT ![j] = @ + 1]
  /\ job' = [job EXCEPT ![j] = "waiting"]
  /\ UNCHANGED <<locked, workerVars, sandboxVars>>

MoveStalled_NotCounted(j) ==
  /\ job[j] = "active" /\ j \notin locked
  /\ job' = [job EXCEPT ![j] = "waiting"]
  /\ UNCHANGED <<stalls, locked, workerVars, sandboxVars>>

MoveStalled_OneTooFew(j) ==
  /\ job[j] = "active" /\ j \notin locked
  /\ stalls' = [stalls EXCEPT ![j] = @ + 1]
  /\ job' = [job EXCEPT ![j] = IF stalls[j] + 1 >= MaxStalled THEN "error" ELSE "waiting"]
  /\ UNCHANGED <<locked, workerVars, sandboxVars>>

\* The check every stalledInterval: a job without its lock waits again, up to
\* maxStalledCount times.
MoveStalled(j) ==
  /\ job[j] = "active" /\ j \notin locked
  /\ stalls' = [stalls EXCEPT ![j] = @ + 1]
  /\ job' = [job EXCEPT ![j] = IF stalls[j] = MaxStalled THEN "error" ELSE "waiting"]
  /\ UNCHANGED <<locked, workerVars, sandboxVars>>

-----------------------------------------------------------------------------
(* executeInSandbox, one action for each Docker call it waits for.         *)

Transition(t, from, to) ==
  /\ phase[t] = from
  /\ phase' = [phase EXCEPT ![t] = to]

\* The catch branch; finally removes the container when there is a handle.
Fail(t, from) ==
  /\ Transition(t, from, IF from \in HasHandle THEN "remove" ELSE "returned")
  /\ result' = [result EXCEPT ![t] = "failed"]

\* ensureImageExists: inspect, or pull.
EnsureImage(t) ==
  /\ \/ Transition(t, "image", "create") /\ UNCHANGED result
     \/ Fail(t, "image")
  /\ UNCHANGED <<queueVars, workerVars, container, stray>>

\* docker.createContainer.  A call that fails may have made the container all
\* the same; the engine has no handle to it then.
CreateContainer(t) ==
  /\ \/ /\ Transition(t, "create", "start")
        /\ container' = [container EXCEPT ![t] = "created"]
        /\ UNCHANGED <<result, stray>>
     \/ /\ Fail(t, "create")
        /\ \/ UNCHANGED <<container, stray>>
           \/ /\ container' = [container EXCEPT ![t] = "created"]
              /\ stray' = stray \cup {t}
  /\ UNCHANGED <<queueVars, workerVars>>

\* container.start, which sets the sandbox timer when it answers.
StartContainer(t) ==
  /\ \/ Transition(t, "start", "wait") /\ UNCHANGED result
     \/ Fail(t, "start")
  /\ \/ container' = [container EXCEPT ![t] = "running"]
     \/ phase'[t] = "remove" /\ UNCHANGED container
  /\ UNCHANGED <<queueVars, workerVars, stray>>

\* The program ends, or is stopped.
ContainerExits(t) ==
  /\ container[t] = "running"
  /\ container' = [container EXCEPT ![t] = "exited"]
  /\ UNCHANGED <<queueVars, workerVars, phase, result, stray>>

\* container.wait answers first.
WaitAnswers(t) ==
  /\ \/ container[t] = "exited" /\ Transition(t, "wait", "collect") /\ UNCHANGED result
     \/ Fail(t, "wait")
  /\ UNCHANGED <<queueVars, workerVars, container, stray>>

TimerFires_FallsThrough(t) ==
  /\ Transition(t, "wait", "collect")
  /\ UNCHANGED <<queueVars, workerVars, result, container, stray>>

TimerFires_Unset(t) ==
  /\ FALSE
  /\ UNCHANGED vars

\* The timer of timeoutMs fires first.
TimerFires(t) ==
  /\ Transition(t, "wait", "stop")
  /\ UNCHANGED <<queueVars, workerVars, result, container, stray>>

StopContainer_NoRemove(t) ==
  /\ Transition(t, "stop", "returned")
  /\ result' = [result EXCEPT ![t] = "timeout"]
  /\ container' = [container EXCEPT ![t] = "exited"]
  /\ UNCHANGED <<queueVars, workerVars, stray>>

\* container.stop; its failure is ignored.
StopContainer(t) ==
  /\ Transition(t, "stop", "remove")
  /\ result' = [result EXCEPT ![t] = "timeout"]
  /\ \/ container' = [container EXCEPT ![t] = "exited"]
     \/ UNCHANGED container
  /\ UNCHANGED <<queueVars, workerVars, stray>>

\* container.logs and container.inspect; the exit code decides the status.
CollectOutput(t) ==
  /\ \/ /\ Transition(t, "collect", "remove")
        /\ \E r \in {"completed", "failed"} : result' = [result EXCEPT ![t] = r]
     \/ Fail(t, "collect")
  /\ UNCHANGED <<queueVars, workerVars, container, stray>>

\* container.remove({ force: true }) in finally; its failure is ignored.
RemoveContainer(t) ==
  /\ Transition(t, "remove", "returned")
  /\ \/ container' = [container EXCEPT ![t] = "removed"] /\ UNCHANGED stray
     \/ stray' = stray \cup {t} /\ UNCHANGED container
  /\ UNCHANGED <<queueVars, workerVars, result>>

-----------------------------------------------------------------------------
(* The worker.                                                             *)

\* The worker takes a job and calls executeInSandbox.
ProcessJob(j) ==
  /\ job[j] = "waiting"
  /\ ~closing /\ Cardinality(processing) < Concurrency
  /\ job' = [job EXCEPT ![j] = "active"]
  /\ locked' = locked \cup {j}
  /\ processing' = processing \cup {Cur(j)}
  /\ phase' = [phase EXCEPT ![Cur(j)] = "image"]
  /\ UNCHANGED <<stalls, closing, restarts, result, container, stray>>

FinishJob_Unlocked(t, o) ==
  /\ processing' = processing \ {t}
  /\ job' = [job EXCEPT ![t[1]] = o]
  /\ locked' = locked \ {t[1]}

\* The processor's promise settles with outcome o.  BullMQ rejects it when
\* the attempt does not hold the lock any more.
FinishJob(t, o) ==
  /\ processing' = processing \ {t}
  /\ job' = IF Holds(t) THEN [job EXCEPT ![t[1]] = o] ELSE job
  /\ locked' = IF Holds(t) THEN locked \ {t[1]} ELSE locked

\* sandboxPromise wins the race of the processor.
SandboxReturns(t) ==
  /\ t \in processing /\ phase[t] = "returned"
  /\ FinishJob(t, result[t])
  /\ UNCHANGED <<stalls, closing, restarts, sandboxVars>>

HangTimeout_ArmedLate(t) ==
  /\ t \in processing /\ phase[t] \notin {"image", "create", "returned"}
  /\ FinishJob(t, "error")
  /\ UNCHANGED <<stalls, closing, restarts, sandboxVars>>

\* The timer of timeoutMs + 30 s wins: "Sandbox hung indefinitely".
HangTimeout(t) ==
  /\ t \in processing /\ phase[t] # "returned"
  /\ FinishJob(t, "error")
  /\ UNCHANGED <<stalls, closing, restarts, sandboxVars>>

\* The process ends and a new one is started.  Of the Docker calls under way
\* those of the attempts in "done" have taken effect.
NewProcess ==
  LET cut == {t \in Attempt : phase[t] \in InSandbox} IN
  /\ restarts < MaxRestart
  /\ restarts' = restarts + 1
  /\ closing' = FALSE
  /\ processing' = {}
  /\ phase' = [t \in Attempt |-> IF t \in cut THEN "dead" ELSE phase[t]]
  /\ \E done \in SUBSET {t \in cut : phase[t] \in {"create", "start", "remove"}} :
       container' = [t \in Attempt |->
         IF t \notin done THEN container[t]
         ELSE CASE phase[t] = "create" -> "created"
                [] phase[t] = "start" -> "running"
                [] phase[t] = "remove" -> "removed"]
  /\ stray' = stray \cup cut
  /\ UNCHANGED <<queueVars, result>>

Crash == NewProcess

\* gracefulShutdown: worker.close() takes no more jobs, waits for the ones
\* being processed and then exits, whatever is left in a sandbox.
GracefulShutdown ==
  /\ ~closing /\ restarts < MaxRestart
  /\ closing' = TRUE
  /\ UNCHANGED <<queueVars, processing, restarts, sandboxVars>>

Exit == closing /\ processing = {} /\ NewProcess

-----------------------------------------------------------------------------
SandboxStep(t) ==
  \/ EnsureImage(t)
  \/ CreateContainer(t)
  \/ StartContainer(t)
  \/ WaitAnswers(t)
  \/ TimerFires(t)
  \/ StopContainer(t)
  \/ CollectOutput(t)
  \/ RemoveContainer(t)

JobNext(j) == Add(j) \/ LockExpires(j) \/ MoveStalled(j) \/ ProcessJob(j)

AttemptNext(t) ==
  SandboxStep(t) \/ ContainerExits(t) \/ SandboxReturns(t) \/ HangTimeout(t)

Next ==
  \/ \E j \in Job : JobNext(j)
  \/ \E t \in Attempt : AttemptNext(t)
  \/ Crash \/ GracefulShutdown \/ Exit

Spec == Init /\ [][Next]_vars

\* BullMQ hands out jobs, notices those whose worker is gone and records
\* outcomes; the hang timer fires.  Docker owes nothing: it may hang.
Fairness ==
  /\ \A j \in Job :
       /\ WF_vars(ProcessJob(j))
       /\ WF_vars(Cur(j) \notin processing /\ LockExpires(j))
       /\ WF_vars(MoveStalled(j))
  /\ \A t \in Attempt : WF_vars(SandboxReturns(t) \/ HangTimeout(t))
  /\ WF_vars(Exit)

FairSpec == Spec /\ Fairness

\* Every call to Docker is answered at some time, except that container.wait
\* may wait for ever for a program that does not end.
DockerAnswers ==
  \A t \in Attempt :
    /\ WF_vars(phase[t] # "wait" /\ SandboxStep(t))
    /\ WF_vars(TimerFires(t))

-----------------------------------------------------------------------------
(* Properties.                                                             *)

\* What the queue shows of a job.
Recorded == [j \in Job |-> IF job[j] \in {"waiting", "active"} THEN "pending" ELSE job[j]]

Queue == INSTANCE JobQueue WITH outcome <- Recorded

\* The engine keeps the promises of the queue: an outcome is recorded once,
\* a result of an attempt that lost its job changes nothing, and every job
\* finishes even when Docker does not answer and when the worker crashes.
QueueSpec == Queue!Spec

\* Containers are ephemeral: one exists only while executeInSandbox holds its
\* handle and is going to remove it, unless the process ended, createContainer
\* failed after making it, or the removal failed.
ContainersAccounted ==
  \A t \in Attempt : Exists(t) /\ t \notin stray => phase[t] \in HasHandle

\* When Docker answers, the container of every program goes away in the end,
\* that of a program that never ends included, with the same exceptions.
ContainersGo ==
  DockerAnswers => \A t \in Attempt : Exists(t) ~> (~Exists(t) \/ t \in stray)

\* The recorded status is the one of the job's last attempt, "completed" is
\* never the status of a program that still runs, and a job fails without a
\* status only when that attempt has begun, and hung, or when the job has
\* stalled once more than it may be requeued: no requeue is saved.
StatusIsReal ==
  /\ \A j \in Job : job[j] \in Status => job[j] = result[Cur(j)]
  /\ \A j \in Job : job[j] = "error" => stalls[j] = MaxStalled + 1 \/ phase[Cur(j)] # "idle"
  /\ \A t \in Attempt : result[t] = "completed" => container[t] \in {"exited", "removed"}

-----------------------------------------------------------------------------
(* What makes ContainersAccounted and StatusIsReal inductive.              *)

\* Attempt t is still to come.
NotBegun(t) ==
  \/ t[2] > stalls[t[1]] + 1
  \/ t = Cur(t[1]) /\ job[t[1]] \in {"none", "waiting"}

AttemptInv(t) ==
  /\ NotBegun(t) => phase[t] = "idle"
  /\ phase[t] = "idle" => container[t] = "none"
  /\ phase[t] \in {"remove", "returned"} => result[t] # "none"
  /\ phase[t] \in Phase \ {"remove", "returned", "dead"} => result[t] = "none"
  /\ phase[t] = "collect" => container[t] = "exited"
  /\ result[t] = "completed" => container[t] \in {"exited", "removed"}
  /\ Exists(t) /\ t \notin stray => phase[t] \in HasHandle

JobInv(j) ==
  /\ job[j] = "none" => stalls[j] = 0
  /\ job[j] \in {"waiting", "active"} \cup Status => stalls[j] <= MaxStalled
  /\ job[j] \in Status => phase[Cur(j)] = "returned" /\ job[j] = result[Cur(j)]
  /\ job[j] = "active" => phase[Cur(j)] # "idle"
  /\ job[j] = "error" => stalls[j] = MaxStalled + 1 \/ phase[Cur(j)] # "idle"

\* The inductive invariant: an attempt starts from nothing, its result exists
\* once the container is to be removed and not before, a job that has a
\* status has it from an attempt that has returned, and one that failed without
\* has begun its last attempt or has none left.
EngineInv == (\A t \in Attempt : AttemptInv(t)) /\ (\A j \in Job : JobInv(j))
=============================================================================
