------------------------------ MODULE JobQueue ------------------------------
(***************************************************************************)
(* What the queue "code-execution" promises to the sync-server, which adds *)
(* jobs to it and waits until they are finished: a job that was added gets *)
(* one outcome, which never changes.  ExecutionEngine implements this;     *)
(* ExecutionRequests relies on it.                                         *)
(***************************************************************************)
CONSTANTS
  Job,
  Status   \* the statuses of the ExecutionResult that a job may return

VARIABLE outcome   \* outcome[j]: "none" until the job is added, "pending"
                   \* while it is queued or running, then its outcome

\* "error" is BullMQ's failed state: the processor threw or the job stalled
\* too often.
Outcome == Status \cup {"error"}

Init == outcome = [j \in Job |-> "none"]

Add(j) ==
  /\ outcome[j] = "none"
  /\ outcome' = [outcome EXCEPT ![j] = "pending"]

Finish(j) ==
  /\ outcome[j] = "pending"
  /\ \E o \in Outcome : outcome' = [outcome EXCEPT ![j] = o]

Next == \E j \in Job : Add(j) \/ Finish(j)

\* Every job that is added finishes.
Finishes == \A j \in Job : outcome[j] = "pending" ~> outcome[j] \in Outcome

Safety == Init /\ [][Next]_outcome

Spec == Safety /\ Finishes
=============================================================================
