------------------------ MODULE ExecutionEngineProofs ------------------------
(***************************************************************************)
(* The safety of the execution engine, for any jobs, any number of slots   *)
(* and retries and any number of restarts: types, the inductive invariant, *)
(* the accounting of containers, and that each step of the engine is a     *)
(* step of JobQueue or leaves its state alone.                             *)
(***************************************************************************)
EXTENDS ExecutionEngine, TLAPS

USE MaxStalledAssumption, MaxRestartAssumption

\* Everything the steps keep.
FullInv == TypeOK /\ EngineInv

-----------------------------------------------------------------------------
(* Attempts.                                                               *)

\* An attempt is a job and a number.
LEMMA AttemptParts ==
  ASSUME NEW t \in Attempt
  PROVE  /\ t[1] \in Job
         /\ t[2] \in 1 .. MaxStalled + 1
         /\ t = <<t[1], t[2]>>
BY DEF Attempt

\* A job that waits, runs or has a status has a current attempt.
LEMMA CurIsAttempt ==
  ASSUME TypeOK, NEW j \in Job, stalls[j] <= MaxStalled
  PROVE  Cur(j) \in Attempt
BY DEF TypeOK, Cur, Attempt

-----------------------------------------------------------------------------
(* The initial states.                                                     *)

LEMMA InitInv == Init => FullInv
<1> SUFFICES ASSUME Init PROVE FullInv
  OBVIOUS
<1>1. TypeOK
  <2>1. stalls \in [Job -> 0 .. MaxStalled + 1] /\ restarts \in 0 .. MaxRestart
    BY DEF Init
  <2>2. closing \in BOOLEAN
    BY Zenon DEF Init
  <2>3. /\ job \in [Job -> {"none", "waiting", "active"} \cup Outcome]
        /\ phase \in [Attempt -> Phase]
        /\ result \in [Attempt -> Status \cup {"none"}]
        /\ container \in [Attempt -> Container]
    BY DEF Init, Phase, Container
  <2> QED
    BY <2>1, <2>2, <2>3 DEF Init, TypeOK
<1>2. ASSUME NEW t \in Attempt PROVE AttemptInv(t)
  BY DEF Init, AttemptInv, Phase, InSandbox, HasHandle, Exists
<1>3. ASSUME NEW j \in Job PROVE JobInv(j)
  BY DEF Init, JobInv, Status
<1> QED
  BY <1>1, <1>2, <1>3 DEF FullInv, EngineInv

-----------------------------------------------------------------------------
(* Types.                                                                  *)

\* The docker calls and the program in the container.
LEMMA SandboxTypes ==
  ASSUME TypeOK, NEW t \in Attempt, SandboxStep(t) \/ ContainerExits(t)
  PROVE  TypeOK'
<1> USE DEF TypeOK, Transition, Fail, Phase, InSandbox, HasHandle, Status, Container,
            queueVars, workerVars
<1>1. CASE EnsureImage(t)
  BY <1>1 DEF EnsureImage
<1>2. CASE CreateContainer(t)
  BY <1>2 DEF CreateContainer
<1>3. CASE StartContainer(t)
  BY <1>3 DEF StartContainer
<1>4. CASE WaitAnswers(t)
  BY <1>4 DEF WaitAnswers
<1>5. CASE TimerFires(t)
  BY <1>5 DEF TimerFires
<1>6. CASE StopContainer(t)
  BY <1>6 DEF StopContainer
<1>7. CASE CollectOutput(t)
  BY <1>7 DEF CollectOutput
<1>8. CASE RemoveContainer(t)
  BY <1>8 DEF RemoveContainer
<1>9. CASE ContainerExits(t)
  BY <1>9 DEF ContainerExits
<1> QED
  BY <1>1, <1>2, <1>3, <1>4, <1>5, <1>6, <1>7, <1>8, <1>9 DEF SandboxStep

\* The end of the process, which both Crash and Exit are.
LEMMA ProcessTypes ==
  ASSUME TypeOK, NewProcess
  PROVE  TypeOK'
<1>1. phase' \in [Attempt -> Phase] /\ stray' \in SUBSET Attempt
  BY DEF TypeOK, NewProcess, Phase
<1>2. container' \in [Attempt -> Container]
  <2> PICK done \in SUBSET {t \in Attempt : phase[t] \in {"create", "start", "remove"}} :
        container' = [t \in Attempt |->
          IF t \notin done THEN container[t]
          ELSE CASE phase[t] = "create" -> "created"
                 [] phase[t] = "start" -> "running"
                 [] phase[t] = "remove" -> "removed"]
    BY DEF NewProcess, InSandbox, HasHandle
  <2>1. ASSUME NEW t \in Attempt
        PROVE  (IF t \notin done THEN container[t]
                ELSE CASE phase[t] = "create" -> "created"
                       [] phase[t] = "start" -> "running"
                       [] phase[t] = "remove" -> "removed") \in Container
    BY DEF TypeOK, Container
  <2> QED
    BY <2>1
<1>3. restarts' \in 0 .. MaxRestart
  BY DEF TypeOK, NewProcess
<1>4. closing' \in BOOLEAN
  BY Zenon DEF NewProcess
<1> QED
  BY <1>1, <1>2, <1>3, <1>4 DEF TypeOK, NewProcess, queueVars

\* The actions on the queue and the settling of a processor.
LEMMA QueueTypes ==
  ASSUME TypeOK, EngineInv,
         \/ \E j \in Job : JobNext(j)
         \/ \E t \in Attempt : SandboxReturns(t) \/ HangTimeout(t)
         \/ GracefulShutdown
  PROVE  TypeOK'
<1> USE DEF TypeOK, queueVars, workerVars, sandboxVars
<1>1. ASSUME NEW j \in Job, Add(j) PROVE TypeOK'
  BY <1>1 DEF Add
<1>2. ASSUME NEW j \in Job, LockExpires(j) PROVE TypeOK'
  BY <1>2 DEF LockExpires
<1>3. ASSUME NEW j \in Job, MoveStalled(j) PROVE TypeOK'
  <2>1. stalls[j] <= MaxStalled
    BY <1>3 DEF MoveStalled, EngineInv, JobInv
  <2> QED
    BY <1>3, <2>1 DEF MoveStalled, Outcome
<1>4. ASSUME NEW j \in Job, ProcessJob(j) PROVE TypeOK'
  <2>1. stalls[j] <= MaxStalled
    BY <1>4 DEF ProcessJob, EngineInv, JobInv
  <2>2. Cur(j) \in Attempt
    BY <2>1, CurIsAttempt
  <2> QED
    BY <1>4, <2>2 DEF ProcessJob, Phase, InSandbox
<1>5. ASSUME NEW t \in Attempt, SandboxReturns(t) PROVE TypeOK'
  <2>1. result[t] \in Outcome
    BY <1>5 DEF SandboxReturns, EngineInv, AttemptInv, Outcome
  <2> QED
    BY <1>5, <2>1, AttemptParts DEF SandboxReturns, FinishJob
<1>6. ASSUME NEW t \in Attempt, HangTimeout(t) PROVE TypeOK'
  BY <1>6, AttemptParts DEF HangTimeout, FinishJob, Outcome
<1>7. CASE GracefulShutdown
  BY <1>7 DEF GracefulShutdown
<1> QED
  BY <1>1, <1>2, <1>3, <1>4, <1>5, <1>6, <1>7 DEF JobNext

LEMMA NextTypes == FullInv /\ [Next]_vars => TypeOK'
<1> SUFFICES ASSUME FullInv, [Next]_vars PROVE TypeOK'
  OBVIOUS
<1> USE DEF FullInv
<1>1. CASE \E j \in Job : JobNext(j)
  BY <1>1, QueueTypes
<1>2. ASSUME NEW t \in Attempt, AttemptNext(t) PROVE TypeOK'
  BY <1>2, QueueTypes, SandboxTypes DEF AttemptNext
<1>3. CASE Crash \/ Exit
  BY <1>3, ProcessTypes DEF Crash, Exit
<1>4. CASE GracefulShutdown
  BY <1>4, QueueTypes
<1>5. CASE UNCHANGED vars
  BY <1>5 DEF TypeOK, vars, queueVars, workerVars, sandboxVars
<1> QED
  BY <1>1, <1>2, <1>3, <1>4, <1>5 DEF Next

-----------------------------------------------------------------------------
(* The inductive invariant, attempt by attempt.                            *)

\* An attempt that a step leaves alone, and does not make one to come.
LEMMA SameAttempt ==
  ASSUME NEW u \in Attempt, AttemptInv(u),
         phase'[u] = phase[u], result'[u] = result[u], container'[u] = container[u],
         stray \subseteq stray', NotBegun(u)' => NotBegun(u)
  PROVE  AttemptInv(u)'
BY DEF AttemptInv, Exists

\* A call of executeInSandbox changes its own attempt only.
LEMMA SandboxFrame ==
  ASSUME TypeOK, NEW t \in Attempt, SandboxStep(t) \/ ContainerExits(t),
         NEW u \in Attempt, u # t
  PROVE  /\ phase'[u] = phase[u]
         /\ result'[u] = result[u]
         /\ container'[u] = container[u]
         /\ stray \subseteq stray'
         /\ UNCHANGED queueVars
<1> USE DEF TypeOK, Transition, Fail
<1>1. CASE EnsureImage(t)
  BY <1>1 DEF EnsureImage
<1>2. CASE CreateContainer(t)
  BY <1>2 DEF CreateContainer
<1>3. CASE StartContainer(t)
  BY <1>3 DEF StartContainer
<1>4. CASE WaitAnswers(t)
  BY <1>4 DEF WaitAnswers
<1>5. CASE TimerFires(t)
  BY <1>5 DEF TimerFires
<1>6. CASE StopContainer(t)
  BY <1>6 DEF StopContainer
<1>7. CASE CollectOutput(t)
  BY <1>7 DEF CollectOutput
<1>8. CASE RemoveContainer(t)
  BY <1>8 DEF RemoveContainer
<1>9. CASE ContainerExits(t)
  BY <1>9 DEF ContainerExits
<1> QED
  BY <1>1, <1>2, <1>3, <1>4, <1>5, <1>6, <1>7, <1>8, <1>9 DEF SandboxStep

\* What the call does to its own attempt.
LEMMA SandboxAttempt ==
  ASSUME TypeOK, NEW t \in Attempt, AttemptInv(t), SandboxStep(t) \/ ContainerExits(t)
  PROVE  AttemptInv(t)'
<1> USE DEF TypeOK, AttemptInv, Transition, Fail, Exists, Phase, InSandbox, HasHandle,
            Status, NotBegun, Cur, queueVars
<1>1. CASE EnsureImage(t)
  BY <1>1 DEF EnsureImage
<1>2. CASE CreateContainer(t)
  BY <1>2 DEF CreateContainer
<1>3. CASE StartContainer(t)
  BY <1>3 DEF StartContainer
<1>4. CASE WaitAnswers(t)
  BY <1>4 DEF WaitAnswers
<1>5. CASE TimerFires(t)
  BY <1>5 DEF TimerFires
<1>6. CASE StopContainer(t)
  BY <1>6 DEF StopContainer
<1>7. CASE CollectOutput(t)
  BY <1>7 DEF CollectOutput
<1>8. CASE RemoveContainer(t)
  BY <1>8 DEF RemoveContainer
<1>9. CASE ContainerExits(t)
  BY <1>9 DEF ContainerExits
<1> QED
  BY <1>1, <1>2, <1>3, <1>4, <1>5, <1>6, <1>7, <1>8, <1>9 DEF SandboxStep

LEMMA SandboxAttempts ==
  ASSUME FullInv, NEW t \in Attempt, SandboxStep(t) \/ ContainerExits(t),
         NEW u \in Attempt
  PROVE  AttemptInv(u)'
<1>1. CASE u = t
  BY <1>1, SandboxAttempt DEF FullInv, EngineInv
<1>2. CASE u # t
  <2>1. /\ phase'[u] = phase[u] /\ result'[u] = result[u] /\ container'[u] = container[u]
        /\ stray \subseteq stray' /\ UNCHANGED queueVars
    BY <1>2, SandboxFrame DEF FullInv
  <2>2. NotBegun(u)' => NotBegun(u)
    BY <2>1 DEF NotBegun, Cur, queueVars
  <2> QED
    BY <2>1, <2>2, SameAttempt DEF FullInv, EngineInv
<1> QED
  BY <1>1, <1>2

\* No action on the queue makes an attempt that has begun one to come, and
\* taking a job begins its current attempt.
LEMMA QueueAttempts ==
  ASSUME FullInv,
         \/ \E j \in Job : JobNext(j)
         \/ \E t \in Attempt : SandboxReturns(t) \/ HangTimeout(t)
         \/ GracefulShutdown,
         NEW u \in Attempt
  PROVE  AttemptInv(u)'
<1> USE DEF FullInv, TypeOK, queueVars, workerVars, sandboxVars
<1>a. AttemptInv(u)
  BY DEF EngineInv
<1>b. u[1] \in Job /\ u[2] \in Nat /\ u = <<u[1], u[2]>> /\ stalls[u[1]] \in Nat
  BY AttemptParts
<1>0. ASSUME UNCHANGED sandboxVars, NotBegun(u)' => NotBegun(u) PROVE AttemptInv(u)'
  BY <1>0, <1>a, SameAttempt
<1>1. ASSUME NEW j \in Job, Add(j) PROVE AttemptInv(u)'
  BY <1>1, <1>0 DEF Add, NotBegun, Cur
<1>2. ASSUME NEW j \in Job, LockExpires(j) PROVE AttemptInv(u)'
  BY <1>2, <1>0 DEF LockExpires, NotBegun, Cur
<1>3. ASSUME NEW j \in Job, MoveStalled(j) PROVE AttemptInv(u)'
  <2>1. NotBegun(u)' => NotBegun(u)
    BY <1>3, <1>b DEF MoveStalled, NotBegun, Cur
  <2> QED
    BY <1>3, <2>1, <1>0 DEF MoveStalled
<1>4. ASSUME NEW j \in Job, ProcessJob(j) PROVE AttemptInv(u)'
  <2>1. stalls[j] \in Nat
    OBVIOUS
  <2>2. CASE u = Cur(j)
    <3>1. NotBegun(u) /\ ~NotBegun(u)'
      BY <1>4, <2>1, <2>2 DEF ProcessJob, NotBegun, Cur
    <3>2. phase'[u] = "image" /\ UNCHANGED <<result, container, stray>>
      BY <1>4, <2>2 DEF ProcessJob
    <3> QED
      BY <1>a, <3>1, <3>2 DEF AttemptInv, Phase, Exists, InSandbox
  <2>3. CASE u # Cur(j)
    <3>1. /\ phase'[u] = phase[u]
          /\ UNCHANGED <<result, container, stray>>
          /\ NotBegun(u)' => NotBegun(u)
      BY <1>4, <2>3, <1>b DEF ProcessJob, NotBegun, Cur
    <3> QED
      BY <1>a, <3>1, SameAttempt
  <2> QED
    BY <2>2, <2>3
<1>5. ASSUME NEW t \in Attempt, SandboxReturns(t) \/ HangTimeout(t) PROVE AttemptInv(u)'
  <2>1. NotBegun(u)' => NotBegun(u)
    <3>1. t[1] \in Job /\ UNCHANGED stalls
      BY <1>5, AttemptParts DEF SandboxReturns, HangTimeout
    <3>2. job' = job \/ (job[t[1]] = "active" /\ \E o \in Outcome : job' = [job EXCEPT ![t[1]] = o])
      <4>1. CASE SandboxReturns(t)
        <5>1. result[t] \in Outcome
          BY <4>1 DEF SandboxReturns, EngineInv, AttemptInv, Outcome
        <5> QED
          BY <4>1, <5>1 DEF SandboxReturns, FinishJob, Holds
      <4>2. CASE HangTimeout(t)
        BY <4>2 DEF HangTimeout, FinishJob, Holds, Outcome
      <4> QED
        BY <1>5, <4>1, <4>2
    <3>3. job'[u[1]] \in {"none", "waiting"} => job[u[1]] \in {"none", "waiting"}
      BY <3>1, <3>2, <1>b DEF Outcome, Status
    <3> QED
      BY <3>1, <3>3 DEF NotBegun, Cur
  <2> QED
    BY <1>5, <2>1, <1>0 DEF SandboxReturns, HangTimeout
<1>6. CASE GracefulShutdown
  BY <1>6, <1>0 DEF GracefulShutdown, NotBegun, Cur
<1> QED
  BY <1>1, <1>2, <1>3, <1>4, <1>5, <1>6 DEF JobNext

\* When the process ends, the containers of the attempts it cuts short are
\* lost track of; the others had none or removed it.
LEMMA ProcessAttempts ==
  ASSUME FullInv, NewProcess, NEW u \in Attempt
  PROVE  AttemptInv(u)'
<1>1. AttemptInv(u) /\ UNCHANGED <<job, stalls, result>>
  BY DEF FullInv, EngineInv, NewProcess, queueVars
<1>2. NotBegun(u)' => NotBegun(u)
  BY <1>1 DEF NotBegun, Cur
<1>3. CASE phase[u] \in InSandbox
  <2>1. phase'[u] = "dead" /\ u \in stray'
    BY <1>3 DEF NewProcess
  <2>2. result[u] = "completed" => container'[u] \in {"exited", "removed"}
    BY <1>1 DEF NewProcess, AttemptInv, Phase, InSandbox, HasHandle
  <2> QED
    BY <1>1, <1>2, <1>3, <2>1, <2>2 DEF AttemptInv, InSandbox, HasHandle
<1>4. CASE phase[u] \notin InSandbox
  <2>1. phase'[u] = phase[u] /\ container'[u] = container[u] /\ stray \subseteq stray'
    BY <1>4 DEF NewProcess, FullInv, TypeOK, InSandbox, HasHandle
  <2> QED
    BY <1>1, <1>2, <2>1, SameAttempt
<1> QED
  BY <1>3, <1>4

-----------------------------------------------------------------------------
(* The inductive invariant, job by job.                                    *)

\* A step that leaves the queue and the returned attempts alone.
LEMMA SameJob ==
  ASSUME TypeOK, NEW j \in Job, JobInv(j), UNCHANGED <<job, stalls>>,
         \A u \in Attempt : phase[u] = "returned" =>
           phase'[u] = "returned" /\ result'[u] = result[u],
         \A u \in Attempt : phase[u] # "idle" => phase'[u] # "idle"
  PROVE  JobInv(j)'
<1>1. Cur(j)' = Cur(j) /\ (stalls[j] <= MaxStalled => Cur(j) \in Attempt)
  BY CurIsAttempt DEF Cur
<1>2. stalls[j] <= MaxStalled \/ stalls[j] = MaxStalled + 1
  BY MaxStalledAssumption DEF TypeOK
<1>3. CASE job[j] \in Status
  BY <1>1, <1>3 DEF JobInv, Status
<1>4. CASE job[j] \notin Status
  BY <1>1, <1>2, <1>4 DEF JobInv
<1> QED
  BY <1>3, <1>4

\* executeInSandbox makes no call in an attempt that has returned.
LEMMA SandboxJobs ==
  ASSUME FullInv, NEW t \in Attempt, SandboxStep(t) \/ ContainerExits(t), NEW j \in Job
  PROVE  JobInv(j)'
<1>1. ASSUME NEW u \in Attempt, phase[u] = "returned"
      PROVE  phase'[u] = "returned" /\ result'[u] = result[u]
  <2>1. CASE u = t
    BY <1>1, <2>1 DEF SandboxStep, EnsureImage, CreateContainer, StartContainer, WaitAnswers,
      TimerFires, StopContainer, CollectOutput, RemoveContainer, ContainerExits, Transition, Fail
  <2>2. CASE u # t
    BY <1>1, <2>2, SandboxFrame DEF FullInv
  <2> QED
    BY <2>1, <2>2
<1>2. UNCHANGED <<job, stalls>>
  BY DEF SandboxStep, EnsureImage, CreateContainer, StartContainer, WaitAnswers,
    TimerFires, StopContainer, CollectOutput, RemoveContainer, ContainerExits, queueVars
<1>3. ASSUME NEW u \in Attempt, phase[u] # "idle"
      PROVE  phase'[u] # "idle"
  <2>1. CASE u = t
    BY <1>3, <2>1 DEF SandboxStep, EnsureImage, CreateContainer, StartContainer, WaitAnswers,
      TimerFires, StopContainer, CollectOutput, RemoveContainer, ContainerExits, Transition, Fail,
      FullInv, TypeOK
  <2>2. CASE u # t
    BY <1>3, <2>2, SandboxFrame DEF FullInv
  <2> QED
    BY <2>1, <2>2
<1> QED
  BY <1>1, <1>2, <1>3, SameJob DEF FullInv, EngineInv

\* The outcome that settling attempt t gives: only the job whose lock it
\* holds, and then it is the job's current attempt.
LEMMA SettleJobs ==
  ASSUME FullInv, NEW t \in Attempt, NEW o \in Outcome, FinishJob(t, o),
         o \in Status => phase[t] = "returned" /\ result[t] = o,
         UNCHANGED <<stalls, sandboxVars>>, NEW j \in Job
  PROVE  JobInv(j)'
<1>1. JobInv(j)
  BY DEF FullInv, EngineInv
<1>2. CASE Holds(t) /\ j = t[1]
  <2>1. /\ job'[j] = o /\ Cur(j)' = t /\ Cur(j) = t
        /\ stalls'[j] = stalls[j] /\ stalls[j] <= MaxStalled /\ phase[t] # "idle"
    BY <1>1, <1>2 DEF FullInv, TypeOK, FinishJob, Holds, Cur, JobInv
  <2>2. phase' = phase /\ result' = result
    BY DEF sandboxVars
  <2> QED
    BY <2>1, <2>2 DEF JobInv, Outcome, Status
<1>3. CASE ~(Holds(t) /\ j = t[1])
  <2>1. job'[j] = job[j] /\ UNCHANGED <<stalls, phase, result>>
    BY <1>3, AttemptParts DEF FullInv, TypeOK, FinishJob, sandboxVars
  <2> QED
    BY <1>1, <2>1 DEF JobInv, Cur
<1> QED
  BY <1>2, <1>3

LEMMA QueueJobs ==
  ASSUME FullInv,
         \/ \E i \in Job : JobNext(i)
         \/ \E t \in Attempt : SandboxReturns(t) \/ HangTimeout(t)
         \/ GracefulShutdown,
         NEW j \in Job
  PROVE  JobInv(j)'
<1>a. JobInv(j) /\ stalls[j] \in Nat /\ stalls \in [Job -> Nat] /\ TypeOK
  BY DEF FullInv, EngineInv, TypeOK
<1> USE DEF queueVars, workerVars, sandboxVars
<1>1. ASSUME NEW i \in Job, Add(i) PROVE JobInv(j)'
  BY <1>1, <1>a DEF Add, JobInv, Cur, TypeOK, Status
<1>2. ASSUME NEW i \in Job, LockExpires(i) PROVE JobInv(j)'
  BY <1>2, <1>a DEF LockExpires, JobInv, Cur
<1>3. ASSUME NEW i \in Job, MoveStalled(i) PROVE JobInv(j)'
  <2>1. CASE i = j
    <3>1. stalls[j] <= MaxStalled
      BY <1>3, <1>a, <2>1 DEF MoveStalled, JobInv
    <3>2. /\ stalls'[j] = stalls[j] + 1
          /\ job'[j] = IF stalls[j] = MaxStalled THEN "error" ELSE "waiting"
      BY <1>3, <1>a, <2>1 DEF MoveStalled, TypeOK
    <3> QED
      BY <1>a, <3>1, <3>2 DEF JobInv, Status
  <2>2. CASE i # j
    BY <1>3, <1>a, <2>2 DEF MoveStalled, JobInv, Cur, TypeOK
  <2> QED
    BY <2>1, <2>2
<1>4. ASSUME NEW i \in Job, ProcessJob(i) PROVE JobInv(j)'
  <2>1. CASE i = j
    <3>1. stalls[j] <= MaxStalled /\ Cur(j) \in Attempt /\ Cur(j)' = Cur(j)
      BY <1>4, <1>a, <2>1, CurIsAttempt DEF ProcessJob, JobInv, Cur
    <3>2. job'[j] = "active" /\ stalls'[j] = stalls[j] /\ phase'[Cur(j)] = "image"
      BY <1>4, <1>a, <2>1, <3>1 DEF ProcessJob, TypeOK
    <3> QED
      BY <3>1, <3>2 DEF JobInv, Status
  <2>2. CASE i # j
    <3>1. Cur(i) # Cur(j) /\ job'[j] = job[j] /\ UNCHANGED <<stalls, result>>
      BY <1>4, <1>a, <2>2 DEF ProcessJob, TypeOK, Cur
    <3>2. Cur(j) \in Attempt => phase'[Cur(j)] = phase[Cur(j)]
      BY <1>4, <1>a, <3>1 DEF ProcessJob, TypeOK
    <3>3. /\ Cur(j)' = Cur(j)
          /\ (stalls[j] <= MaxStalled /\ Cur(j) \in Attempt) \/ stalls[j] = MaxStalled + 1
      BY <1>a, <3>1, CurIsAttempt, MaxStalledAssumption DEF TypeOK, Cur
    <3> QED
      BY <1>a, <3>1, <3>2, <3>3 DEF JobInv, Status
  <2> QED
    BY <2>1, <2>2
<1>5. ASSUME NEW t \in Attempt, SandboxReturns(t) PROVE JobInv(j)'
  <2>1. result[t] \in Outcome
    BY <1>5 DEF SandboxReturns, FullInv, TypeOK, EngineInv, AttemptInv, Outcome
  <2> QED
    BY <1>5, <2>1, SettleJobs DEF SandboxReturns
<1>6. ASSUME NEW t \in Attempt, HangTimeout(t) PROVE JobInv(j)'
  <2>1. "error" \in Outcome /\ "error" \notin Status
    BY DEF Outcome, Status
  <2> QED
    BY <1>6, <2>1, SettleJobs DEF HangTimeout
<1>7. CASE GracefulShutdown
  BY <1>7, <1>a, SameJob DEF GracefulShutdown
<1> QED
  BY <1>1, <1>2, <1>3, <1>4, <1>5, <1>6, <1>7 DEF JobNext

LEMMA ProcessJobs ==
  ASSUME FullInv, NewProcess, NEW j \in Job
  PROVE  JobInv(j)'
<1>1. ASSUME NEW u \in Attempt, phase[u] = "returned"
      PROVE  phase'[u] = "returned" /\ result'[u] = result[u]
  BY <1>1 DEF NewProcess, InSandbox, HasHandle
<1>2. UNCHANGED <<job, stalls>>
  BY DEF NewProcess, queueVars
<1>3. ASSUME NEW u \in Attempt, phase[u] # "idle"
      PROVE  phase'[u] # "idle"
  BY <1>3 DEF NewProcess
<1> QED
  BY <1>1, <1>2, <1>3, SameJob DEF FullInv, EngineInv

-----------------------------------------------------------------------------
(* The engine and the queue: adding a job and recording an outcome are the *)
(* steps of JobQueue, all others leave what it shows alone.                *)

LEMMA RecordedBy ==
  ASSUME NEW j \in Job
  PROVE  /\ Recorded[j] = IF job[j] \in {"waiting", "active"} THEN "pending" ELSE job[j]
         /\ Recorded'[j] = IF job'[j] \in {"waiting", "active"} THEN "pending" ELSE job'[j]
BY DEF Recorded

LEMMA InitRefines == Init => Queue!Init
BY DEF Init, Recorded, Queue!Init

\* The outcome of job j is recorded.
LEMMA FinishRefines ==
  ASSUME NEW j \in Job, NEW o \in Outcome, TypeOK,
         job[j] = "active", job' = [job EXCEPT ![j] = o]
  PROVE  Queue!Finish(j)
<1>1. o \in Queue!Outcome /\ o \notin {"waiting", "active"}
  BY DEF Outcome, Queue!Outcome, Status
<1>2. Recorded[j] = "pending"
  BY RecordedBy
<1>3. Recorded' = [Recorded EXCEPT ![j] = o]
  BY <1>1 DEF TypeOK, Recorded
<1> QED
  BY <1>1, <1>2, <1>3 DEF Queue!Finish

\* Settling a promise records the outcome of the job whose lock it holds.
LEMMA SettleRefines ==
  ASSUME TypeOK, NEW t \in Attempt, NEW o \in Outcome, FinishJob(t, o)
  PROVE  Queue!Next \/ UNCHANGED Recorded
<1>1. CASE Holds(t)
  BY <1>1, AttemptParts, FinishRefines DEF FinishJob, Holds, Queue!Next
<1>2. CASE ~Holds(t)
  BY <1>2 DEF FinishJob, Recorded
<1> QED
  BY <1>1, <1>2

LEMMA StepRefines == FullInv /\ [Next]_vars => [Queue!Next]_Recorded
<1> SUFFICES ASSUME FullInv, [Next]_vars PROVE Queue!Next \/ UNCHANGED Recorded
  OBVIOUS
<1> USE DEF FullInv
<1>1. ASSUME NEW j \in Job, Add(j) PROVE Queue!Next
  <2>1. Recorded[j] = "none"
    BY <1>1, RecordedBy DEF Add
  <2>2. Recorded' = [Recorded EXCEPT ![j] = "pending"]
    BY <1>1 DEF Add, TypeOK, Recorded
  <2> QED
    BY <2>1, <2>2 DEF Queue!Next, Queue!Add
<1>2. ASSUME NEW j \in Job, MoveStalled(j) PROVE Queue!Next \/ UNCHANGED Recorded
  <2>1. CASE stalls[j] = MaxStalled
    BY <1>2, <2>1, FinishRefines DEF MoveStalled, Outcome, Queue!Next
  <2>2. CASE stalls[j] # MaxStalled
    BY <1>2, <2>2 DEF MoveStalled, TypeOK, Recorded
  <2> QED
    BY <2>1, <2>2
<1>3. ASSUME NEW j \in Job, ProcessJob(j) PROVE UNCHANGED Recorded
  BY <1>3 DEF ProcessJob, TypeOK, Recorded
<1>4. ASSUME NEW t \in Attempt, SandboxReturns(t) PROVE Queue!Next \/ UNCHANGED Recorded
  <2>1. result[t] \in Outcome
    BY <1>4 DEF SandboxReturns, TypeOK, EngineInv, AttemptInv, Outcome
  <2> QED
    BY <1>4, <2>1, SettleRefines DEF SandboxReturns
<1>5. ASSUME NEW t \in Attempt, HangTimeout(t) PROVE Queue!Next \/ UNCHANGED Recorded
  BY <1>5, SettleRefines DEF HangTimeout, Outcome
<1>6. ASSUME UNCHANGED job PROVE UNCHANGED Recorded
  BY <1>6 DEF Recorded
<1>7. ASSUME NEW j \in Job, LockExpires(j) PROVE UNCHANGED job
  BY <1>7 DEF LockExpires
<1>8. ASSUME NEW t \in Attempt, SandboxStep(t) \/ ContainerExits(t) PROVE UNCHANGED job
  BY <1>8 DEF SandboxStep, EnsureImage, CreateContainer, StartContainer, WaitAnswers,
    TimerFires, StopContainer, CollectOutput, RemoveContainer, ContainerExits, queueVars
<1>9. CASE Crash \/ GracefulShutdown \/ Exit \/ UNCHANGED vars
  <2>1. UNCHANGED job
    BY <1>9 DEF Crash, Exit, NewProcess, GracefulShutdown, vars, queueVars
  <2> QED
    BY <2>1, <1>6
<1> QED
  BY <1>1, <1>2, <1>3, <1>4, <1>5, <1>6, <1>7, <1>8, <1>9 DEF Next, JobNext, AttemptNext

-----------------------------------------------------------------------------
(* The theorems.                                                           *)

LEMMA NextInv == FullInv /\ [Next]_vars => FullInv'
<1> SUFFICES ASSUME FullInv, [Next]_vars PROVE FullInv'
  OBVIOUS
<1>1. TypeOK'
  BY NextTypes
<1>2. ASSUME NEW u \in Attempt PROVE AttemptInv(u)'
  <2>1. CASE UNCHANGED vars
    <3>1. UNCHANGED <<phase, result, container, stray, job, stalls>>
      BY <2>1 DEF vars, queueVars, sandboxVars
    <3>2. NotBegun(u)' => NotBegun(u)
      BY <3>1 DEF NotBegun, Cur
    <3> QED
      BY <3>1, <3>2, SameAttempt DEF FullInv, EngineInv
  <2>2. CASE Next
    BY <2>2, SandboxAttempts, QueueAttempts, ProcessAttempts DEF Next, AttemptNext, Crash, Exit
  <2> QED
    BY <2>1, <2>2
<1>3. ASSUME NEW j \in Job PROVE JobInv(j)'
  <2>1. CASE UNCHANGED vars
    BY <2>1, SameJob DEF FullInv, EngineInv, vars, queueVars, sandboxVars
  <2>2. CASE Next
    BY <2>2, SandboxJobs, QueueJobs, ProcessJobs DEF Next, AttemptNext, Crash, Exit
  <2> QED
    BY <2>1, <2>2
<1> QED
  BY <1>1, <1>2, <1>3 DEF FullInv, EngineInv

LEMMA Always == Spec => []FullInv
BY InitInv, NextInv, PTL DEF Spec

\* Every variable of the engine keeps its type: in particular a job is not
\* requeued more than maxStalledCount times (worker.ts, options).
THEOREM EngineTyping == Spec => []TypeOK
<1>1. FullInv => TypeOK
  BY DEF FullInv
<1> QED
  BY Always, <1>1, PTL

\* The inductive invariant of the attempts and the jobs (worker.ts, sandbox.ts).
THEOREM EngineInvariance == Spec => []EngineInv
<1>1. FullInv => EngineInv
  BY DEF FullInv
<1> QED
  BY Always, <1>1, PTL

\* Containers are ephemeral: outside executeInSandbox one exists only where
\* the engine lost track of it (sandbox.ts, finally).
THEOREM Accounting == Spec => []ContainersAccounted
<1>1. FullInv => ContainersAccounted
  BY DEF FullInv, EngineInv, AttemptInv, ContainersAccounted
<1> QED
  BY Always, <1>1, PTL

\* The status of a job is that of its last attempt, and "completed" is never
\* said of a program that still runs (sandbox.ts, the race).
THEOREM RealStatus == Spec => []StatusIsReal
<1>1. FullInv => StatusIsReal
  BY DEF FullInv, EngineInv, AttemptInv, JobInv, StatusIsReal
<1> QED
  BY Always, <1>1, PTL

\* The engine implements the queue that the sync-server relies on: whatever
\* Docker, locks and crashes do, a job gets its outcome once and for good
\* (worker.ts, the processor).
THEOREM QueueRefinement == Spec => Queue!Safety
<1>1. Init => Queue!Init
  BY InitRefines
<1>2. FullInv /\ [Next]_vars => [Queue!Next]_Recorded
  BY StepRefines
<1> QED
  BY Always, <1>1, <1>2, PTL DEF Spec, Queue!Safety
=============================================================================
