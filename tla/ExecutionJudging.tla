-------------------------- MODULE ExecutionJudging -------------------------
(***************************************************************************)
(* The worker of Execution implements Judging.  A submission's verdict is  *)
(* published when its task leaves the queue as done, and what is published *)
(* is what Postgres then holds: the mapping reads it from status, so that  *)
(* a late write to the row would be a second verdict.                      *)
(***************************************************************************)
EXTENDS MCExecution

Phase(s) == CASE task[s] = "none"               -> "new"
              [] task[s] \in {"pending", "retry"} -> "queued"
              [] task[s] = "active"             -> "judging"
              [] task[s] = "done"               -> "judged"
              [] task[s] = "archived"           -> "abandoned"

J == INSTANCE Judging WITH
       Verdicts  <- Terminal,
       Retries   <- MaxRetry,
       phase     <- [s \in Submission |-> Phase(s)],
       strikes   <- retried,
       published <- [s \in Submission |-> IF task[s] = "done" THEN status[s] ELSE "none"]

\* Every behaviour of the worker, faults included, is one of Judging: the
\* queue's settling of a submission and the row the client reads agree.
ImplementsJudging == J!Spec
============================================================================
