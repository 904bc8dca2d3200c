----------------------------- MODULE TaskQueue -----------------------------
(***************************************************************************)
(* The asynq queue as internal/queue uses it: one task per submission,     *)
(* enqueued by client.go with asynq.MaxRetry(3) and served by the server   *)
(* that server.go configures.  asynq is a library, not code of this        *)
(* repository, so these operators are an external model: they say what     *)
(* one queue transition does to one task.  Execution.tla decides when the  *)
(* worker performs each of them.                                           *)
(***************************************************************************)
EXTENDS Naturals

CONSTANTS Submission,   \* the submissions, identified by their row id
          MaxRetry      \* asynq.MaxRetry(3)

ASSUME MaxRetryAssumption == MaxRetry \in Nat

VARIABLES task,         \* the state of the submission's task in Redis
          retried       \* asynq's retry count, as GetRetryCount reports it

queueVars == <<task, retried>>

\* "none" until EnqueueSubmission; "retry" is the delayed set; asynq deletes
\* a task that was acknowledged, which is "done" here.
TaskState == {"none", "pending", "active", "retry", "archived", "done"}

QueueTypeOK == /\ task \in [Submission -> TaskState]
               /\ retried \in [Submission -> 0..MaxRetry]

QueueInit == /\ task = [s \in Submission |-> "none"]
             /\ retried = [s \in Submission |-> 0]

Move(s, from, to) == /\ task[s] = from
                     /\ task' = [task EXCEPT ![s] = to]
                     /\ UNCHANGED retried

EnqueueTask(s) == Move(s, "none", "pending")

Dequeue(s) == Move(s, "pending", "active")

AckTask(s) == Move(s, "active", "done")

\* The delay RetryDelayFunc chose has passed.
ForwardTask(s) == Move(s, "retry", "pending")

\* Shutdown: an unfinished task goes back without counting a retry.
RequeueTask(s) == Move(s, "active", "pending")

\* Off by one in either direction: one retry too many, one too few.
FailTaskLate(s) ==
  /\ task[s] = "active"
  /\ IF retried[s] > MaxRetry
     THEN task' = [task EXCEPT ![s] = "archived"] /\ UNCHANGED retried
     ELSE task' = [task EXCEPT ![s] = "retry"] /\ retried' = [retried EXCEPT ![s] = @ + 1]

FailTaskEarly(s) ==
  /\ task[s] = "active"
  /\ IF retried[s] + 1 >= MaxRetry
     THEN task' = [task EXCEPT ![s] = "archived"] /\ UNCHANGED retried
     ELSE task' = [task EXCEPT ![s] = "retry"] /\ retried' = [retried EXCEPT ![s] = @ + 1]

\* A failed attempt: scheduled again, or archived once the retries are used up.
FailTask(s) ==
  /\ task[s] = "active"
  /\ IF retried[s] >= MaxRetry
     THEN /\ task' = [task EXCEPT ![s] = "archived"]
          /\ UNCHANGED retried
     ELSE /\ task' = [task EXCEPT ![s] = "retry"]
          /\ retried' = [retried EXCEPT ![s] = @ + 1]
============================================================================
