--------------------------- MODULE WorkerShutdown ---------------------------
(***************************************************************************)
(* How a worker process stops.  main starts asynq's srv.Run in a goroutine *)
(* and waits for SIGINT or SIGTERM; Run waits for the same signals.  Both  *)
(* get each signal and call srv.Shutdown, of which the first call stops    *)
(* the server and waits for the tasks, and the second returns at once.     *)
(* When main is through, it closes the metrics server, the deferred        *)
(* Pool.Close runs, and the process exits, whatever Run is at.             *)
(*                                                                         *)
(* asynq's server and the pgx pool are libraries, modelled from what the   *)
(* process calls.  A task is executed by a goroutine that alternates       *)
(* between sandbox work and statements, each on a connection of the pool.  *)
(***************************************************************************)
EXTENDS TaskQueue, FiniteSets

CONSTANTS MaxSignals    \* how often the operator signals the process

ASSUME ShutdownAssumption == MaxSignals \in Nat

VARIABLES main,         \* the main goroutine
          run,          \* the goroutine of srv.Run
          heard,        \* which of the two has a signal in its channel
          signals,      \* how many were sent
          server,       \* the state of asynq's server
          owner,        \* whose call of Shutdown stops the server
          timer,        \* ShutdownTimeout: the abort channel
          fetching,     \* the processor is inside of Dequeue
          work,         \* what the goroutine of each task does
          attached,     \* asynq waits for it and its context is alive
          pool,         \* whether the pgx pool accepts statements
          paid          \* tasks whose attempt failed on its own

control == <<main, run, heard, signals, server, owner, timer>>
tasks == <<task, retried, fetching, work, attached, paid>>
vars == <<main, run, heard, signals, server, owner, timer, task, retried,
          fetching, work, attached, pool, paid>>

Init == /\ QueueInit
        /\ main = "starting" /\ run = "starting"
        /\ heard = {} /\ signals = 0
        /\ server = "new" /\ owner = "none" /\ timer = "unset"
        /\ fetching = FALSE
        /\ work = [s \in Submission |-> "none"]
        /\ attached = [s \in Submission |-> FALSE]
        /\ pool = "open"
        /\ paid = {}

Gone == main \in {"exited", "killed"}
Alive == ~Gone

----------------------------------------------------------------------------
(* Signals.  A goroutine that has registered finds each signal in its      *)
(* channel; with nobody registered the process dies.                       *)
Registered == {g \in {"main", "run"} : \/ g = "main" /\ main # "starting"
                                       \/ g = "run" /\ run \notin {"starting", "started"}}

\* The end of the process, without and with the deferred calls.
Die(how) == /\ main' = how
            /\ work' = [s \in Submission |-> "none"]
            /\ attached' = [s \in Submission |-> FALSE]
            /\ fetching' = FALSE

Signal ==
  /\ Alive /\ signals < MaxSignals
  /\ signals' = signals + 1
  /\ IF Registered = {}
     THEN Die("killed") /\ UNCHANGED heard
     ELSE heard' = heard \cup Registered /\ UNCHANGED <<main, work, attached, fetching>>
  /\ UNCHANGED <<run, server, owner, timer, task, retried, pool, paid>>

\* signal.Notify of main.
Register ==
  /\ main = "starting"
  /\ main' = "waiting"
  /\ UNCHANGED <<run, heard, signals, server, owner, timer, tasks, pool>>

\* srv.Start, in Run.
StartServer ==
  /\ Alive /\ run = "starting"
  /\ run' = "started" /\ server' = "active"
  /\ UNCHANGED <<main, heard, signals, owner, timer, tasks, pool>>

\* waitForSignals, in Run.
RegisterRun ==
  /\ Alive /\ run = "started"
  /\ run' = "waiting"
  /\ UNCHANGED <<main, heard, signals, server, owner, timer, tasks, pool>>

\* Run stops the fetching of tasks before it calls Shutdown.
RunReceives ==
  /\ Alive /\ run = "waiting" /\ "run" \in heard
  /\ run' = "stopping"
  /\ server' = IF server = "active" THEN "stopped" ELSE server
  /\ UNCHANGED <<main, heard, signals, owner, timer, tasks, pool>>

Receive ==
  /\ main = "waiting" /\ "main" \in heard
  /\ main' = "stopping"
  /\ UNCHANGED <<run, heard, signals, server, owner, timer, tasks, pool>>

----------------------------------------------------------------------------
(* srv.Shutdown.                                                           *)

\* The call that stops the server, and sets the timer.
Own(g) == /\ server \in {"active", "stopped"}
          /\ server' = "closed" /\ owner' = g /\ timer' = "set"

ReturnsAtOnce == server \in {"new", "closed"} /\ UNCHANGED <<server, owner, timer>>

RunStops ==
  /\ Alive /\ run = "stopping"
  /\ \/ Own("run") /\ run' = "draining"
     \/ ReturnsAtOnce /\ run' = "returned"
  /\ UNCHANGED <<main, heard, signals, tasks, pool>>

MainStops ==
  /\ main = "stopping"
  /\ \/ Own("main") /\ main' = "draining"
     \/ ReturnsAtOnce /\ main' = "closing"
  /\ UNCHANGED <<run, heard, signals, tasks, pool>>

\* The timer that is never set off.
AbortNever == FALSE /\ UNCHANGED vars

\* ShutdownTimeout has passed.
Abort ==
  /\ Alive /\ timer = "set"
  /\ timer' = "fired"
  /\ UNCHANGED <<main, run, heard, signals, server, owner, tasks, pool>>

\* The tasks alone, not the token that the processor holds while it fetches.
DrainedButFetching == \A s \in Submission : ~attached[s]

\* Shutdown has all the tokens of the processor.
Drained == ~fetching /\ \A s \in Submission : ~attached[s]

RunDrained ==
  /\ Alive /\ run = "draining" /\ Drained
  /\ run' = "returned"
  /\ UNCHANGED <<main, heard, signals, server, owner, timer, tasks, pool>>

MainDrained ==
  /\ main = "draining" /\ Drained
  /\ main' = "closing"
  /\ UNCHANGED <<run, heard, signals, server, owner, timer, tasks, pool>>

\* defer db.Pool.Close() refuses new statements at once ...
ClosePool ==
  /\ main = "closing"
  /\ main' = "leaving" /\ pool' = "closed"
  /\ UNCHANGED <<run, heard, signals, server, owner, timer, tasks>>

\* ... and returns when no connection is in use.
Exit ==
  /\ main = "leaving"
  /\ \A s \in Submission : work[s] # "statement"
  /\ Die("exited")
  /\ UNCHANGED <<run, heard, signals, server, owner, timer, task, retried, pool, paid>>

----------------------------------------------------------------------------
(* Tasks.                                                                  *)
Enqueue(s) ==
  /\ EnqueueTask(s)
  /\ UNCHANGED <<control, fetching, work, attached, pool, paid>>

\* The processor takes a token and asks Redis for a task.
Fetch ==
  /\ Alive /\ server = "active" /\ ~fetching
  /\ fetching' = TRUE
  /\ UNCHANGED <<control, task, retried, work, attached, pool, paid>>

\* The answer may come after the server has been stopped.
Fetched ==
  /\ Alive /\ fetching
  /\ fetching' = FALSE
  /\ \/ \E s \in Submission :
          /\ work[s] = "none" /\ Dequeue(s)
          /\ work' = [work EXCEPT ![s] = "sandbox"]
          /\ attached' = [attached EXCEPT ![s] = TRUE]
     \/ UNCHANGED <<task, retried, work, attached>>
  /\ UNCHANGED <<control, pool, paid>>

BeginStatement(s) ==
  /\ work[s] = "sandbox" /\ attached[s] /\ pool = "open"
  /\ work' = [work EXCEPT ![s] = "statement"]
  /\ UNCHANGED <<control, task, retried, fetching, attached, pool, paid>>

EndStatement(s) ==
  /\ work[s] = "statement"
  /\ work' = [work EXCEPT ![s] = "sandbox"]
  /\ UNCHANGED <<control, task, retried, fetching, attached, pool, paid>>

Leave(s) == /\ work' = [work EXCEPT ![s] = "none"]
            /\ attached' = [attached EXCEPT ![s] = FALSE]

\* The statements that Execute cannot do without fail on a closed pool, and so
\* does the one of the ErrorHandler.
Refused(s) ==
  /\ work[s] = "sandbox" /\ attached[s] /\ pool = "closed"
  /\ FailTask(s) /\ Leave(s)
  /\ UNCHANGED <<control, fetching, pool, paid>>

\* The verdict was stored while the pool was open.
Succeed(s) ==
  /\ work[s] = "sandbox" /\ attached[s]
  /\ AckTask(s) /\ Leave(s)
  /\ UNCHANGED <<control, fetching, pool, paid>>

\* An infrastructure error that has nothing to do with the shutdown.
Fail(s) ==
  /\ work[s] = "sandbox" /\ attached[s]
  /\ FailTask(s) /\ Leave(s)
  /\ paid' = paid \cup {s}
  /\ UNCHANGED <<control, fetching, pool>>

\* Aborted: the task goes back, its goroutine runs on with a dead context.
Requeue(s) ==
  /\ Alive /\ timer = "fired" /\ attached[s]
  /\ RequeueTask(s)
  /\ attached' = [attached EXCEPT ![s] = FALSE]
  /\ UNCHANGED <<control, fetching, work, pool, paid>>

Vanish(s) ==
  /\ work[s] = "sandbox" /\ ~attached[s]
  /\ work' = [work EXCEPT ![s] = "none"]
  /\ UNCHANGED <<control, task, retried, fetching, attached, pool, paid>>

\* The recoverer of another process, or of the next one.
Recover(s) ==
  /\ Gone /\ FailTask(s)
  /\ UNCHANGED <<control, fetching, work, attached, pool, paid>>

Next == \/ Signal \/ Register \/ StartServer \/ RegisterRun \/ RunReceives \/ Receive
        \/ RunStops \/ MainStops \/ Abort \/ RunDrained \/ MainDrained \/ ClosePool \/ Exit
        \/ Fetch \/ Fetched
        \/ \E s \in Submission : \/ Enqueue(s) \/ BeginStatement(s) \/ EndStatement(s)
                                 \/ Refused(s) \/ Succeed(s) \/ Fail(s)
                                 \/ Requeue(s) \/ Vanish(s) \/ Recover(s)

Spec == Init /\ [][Next]_vars

\* The two goroutines go on, the timer runs, Redis answers, and Postgres
\* answers every statement.  Nothing is asked of the sandboxes.
FairSpec ==
  /\ Spec
  /\ WF_vars(Receive) /\ WF_vars(MainStops) /\ WF_vars(MainDrained)
  /\ WF_vars(ClosePool) /\ WF_vars(Exit) /\ WF_vars(Abort) /\ WF_vars(Fetched)
  /\ \A s \in Submission : WF_vars(EndStatement(s)) /\ WF_vars(Requeue(s))

----------------------------------------------------------------------------
TypeOK ==
  /\ QueueTypeOK
  /\ main \in {"starting", "waiting", "stopping", "draining", "closing", "leaving",
               "exited", "killed"}
  /\ run \in {"starting", "started", "waiting", "stopping", "draining", "returned"}
  /\ heard \subseteq {"main", "run"}
  /\ signals \in 0..MaxSignals
  /\ server \in {"new", "active", "stopped", "closed"}
  /\ owner \in {"none", "main", "run"}
  /\ timer \in {"unset", "set", "fired"}
  /\ fetching \in BOOLEAN
  /\ work \in [Submission -> {"none", "sandbox", "statement"}]
  /\ attached \in [Submission -> BOOLEAN]
  /\ pool \in {"open", "closed"}
  /\ paid \subseteq Submission

\* When main stops the server, the shutdown costs no task one of its retries:
\* every task is finished or back in the queue before the pool is closed, and
\* none is left for a recoverer.
ShutdownIsFree ==
  owner = "main" => \A s \in Submission :
    retried[s] > 0 \/ task[s] = "archived" => s \in paid

\* A signal that main gets ends the process, however long the sandboxes run.
Stops == main = "stopping" ~> main = "exited"

\* main.go: "shutting down worker, waiting for active tasks to finish".  Once
\* the server has been stopped, by whichever call, main exits with no task active.
WaitsForTasks ==
  main = "exited" /\ owner # "none" => \A s \in Submission : task[s] # "active"
============================================================================
