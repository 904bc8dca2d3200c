----------------------------- MODULE Execution -----------------------------
(***************************************************************************)
(* The worker: asynq goroutines that run ExecutionService.Execute on       *)
(* submissions, the rows they write in Postgres, and the queue transitions *)
(* that follow.  A handler is one goroutine; it stays in Execute after     *)
(* asynq has given up on it (deadline, lost lease, shutdown), with a dead  *)
(* context, and is then not "attached" any more.                           *)
(*                                                                         *)
(* Every failure the code handles (or forgets to) is a fault of a named    *)
(* kind: a model allows a set FaultKinds of them, MaxFaults in all.        *)
(*   fetch     reading the submission, language or test cases              *)
(*   box       temp dir, sandbox init, writing or copying files            *)
(*   compile   isolate exit code 2, unreadable metadata, copying artifacts *)
(*   run       isolate exit code 2, unreadable metadata                    *)
(*   mark      updateStatus           row      updateTestCaseResult        *)
(*   complete  CompleteSubmission     handler  the same in ErrorHandler    *)
(*   ambiguous CompleteSubmission commits and reports an error             *)
(*   panic     Execute panics; asynq recovers it and takes it for an error *)
(*   crash     the worker process dies                                     *)
(*   timeout   the task's deadline passes                                  *)
(*   lease     the worker loses the lease of the task                      *)
(*   shutdown  the worker is stopped before the task has finished          *)
(* isolate may also refuse to clean up a sandbox, which is only logged: at *)
(* most MaxLeft times in one Execute, and at the cost of no fault.         *)
(***************************************************************************)
EXTENDS TaskQueue, Verdict, Integers, FiniteSets

CONSTANTS Handler,      \* goroutines
          Worker,       \* worker processes
          HostOf,       \* the process of each goroutine
          Concurrency,  \* asynq.Config.Concurrency of every worker
          Mode,         \* submissions.mode
          Compiled,     \* whether the language has a compile command
          NumTests,     \* number of test_case_results rows
          Reports,      \* the sandbox reports the model lets a program cause
          FaultKinds, MaxFaults,
          MaxLeft,      \* how many sandboxes of an Execute isolate may keep
          NoJob

ASSUME ExecutionAssumption ==
  /\ HostOf \in [Handler -> Worker]
  /\ Concurrency \in Nat \ {0}
  /\ Mode \in [Submission -> {"single", "batch"}]
  /\ Compiled \in [Submission -> BOOLEAN]
  /\ NumTests \in [Submission -> Nat \ {0}]
  /\ \A s \in Submission : Mode[s] = "single" => NumTests[s] = 1
  /\ Reports \subseteq Report
  /\ MaxFaults \in Nat /\ MaxLeft \in Nat
  /\ NoJob \notin Submission

VARIABLES status,       \* submissions.status
          rows,         \* test_case_results.status, by position
          pc,           \* where each handler is
          job,          \* the submission it executes
          attached,     \* asynq still waits for it and its context is alive
          tc,           \* the test case at hand, 0 while a batch compiles
          found,        \* the status of that test case
          overall,      \* the status of the submission so far
          tries,        \* failed calls of CompleteSubmission
          boxes,        \* how many sandboxes this Execute has made that still exist
          left,         \* how many of them nobody will try to clean up again
          faults        \* number of faults so far

dbVars == <<status, rows>>
locals == <<tc, found, overall, tries>>
sandboxes == <<boxes, left>>
vars == <<task, retried, status, rows, pc, job, attached,
          tc, found, overall, tries, boxes, left, faults>>

Label == {"idle", "fetch", "tmp", "init", "files", "markCompiling", "compile",
          "markRunning", "run", "row", "complete", "succeeded", "failed",
          "erred"}

\* Where a goroutine is inside Execute.
Inside == Label \ {"idle", "succeeded", "failed", "erred"}

Init ==
  /\ QueueInit
  /\ status = [s \in Submission |-> "pending"]
  /\ rows = [s \in Submission |-> [i \in 1..NumTests[s] |-> "pending"]]
  /\ pc = [h \in Handler |-> "idle"]
  /\ job = [h \in Handler |-> NoJob]
  /\ attached = [h \in Handler |-> FALSE]
  /\ tc = [h \in Handler |-> 0]
  /\ found = [h \in Handler |-> "accepted"]
  /\ overall = [h \in Handler |-> "accepted"]
  /\ tries = [h \in Handler |-> 0]
  /\ boxes = [h \in Handler |-> 0]
  /\ left = [h \in Handler |-> 0]
  /\ faults = 0

----------------------------------------------------------------------------
Single(h) == Mode[job[h]] = "single"

Goto(h, l) == pc' = [pc EXCEPT ![h] = l]

Fault(kind) == /\ kind \in FaultKinds
               /\ faults < MaxFaults
               /\ faults' = faults + 1

\* Statements issued under a context that is never cancelled.
DbWorksDetached(h) == UNCHANGED faults

\* A statement reaches Postgres only while the context is alive.
DbWorks(h) == attached[h] /\ UNCHANGED faults
DbFails(h, kind) == IF attached[h] THEN Fault(kind) ELSE UNCHANGED faults

\* executeSingle keeps its box until it returns; executeBatch frees each box
\* as soon as it has read the output.
Open(h) == boxes' = [boxes EXCEPT ![h] = @ + 1] /\ UNCHANGED left
Held(h) == boxes[h] - left[h]
LeaveBehind(h) == left' = [left EXCEPT ![h] = @ + 1] /\ UNCHANGED boxes
CloseForgotten(h) == UNCHANGED sandboxes  \* executeBatch without its cleanupBox calls

\* cleanupBox: that isolate --cleanup failed is logged, and the box stays.
Close(h) == \/ boxes' = [boxes EXCEPT ![h] = @ - 1] /\ UNCHANGED left
            \/ left[h] < MaxLeft /\ LeaveBehind(h)
CloseIfBatch(h) == IF Single(h) THEN UNCHANGED sandboxes ELSE Close(h)
CloseIfSingle(h) == IF Single(h) THEN Close(h) ELSE UNCHANGED sandboxes

Result(h, testStatus, submissionStatus) ==
  /\ found' = [found EXCEPT ![h] = testStatus]
  /\ overall' = [overall EXCEPT ![h] = submissionStatus]

\* An infrastructure error in the step h is at.  Execute returns it, except
\* in a test case of a batch, which it turns into an internal_error result.
Lose(h) ==
  IF Single(h) \/ tc[h] = 0
  THEN Goto(h, "failed") /\ UNCHANGED <<found, overall>>
  ELSE Goto(h, "row") /\ Result(h, "internal_error", "internal_error")

Reset(f, H, value) == [h \in Handler |-> IF h \in H THEN value ELSE f[h]]

ForgetLocals(H) == /\ tc' = Reset(tc, H, 0)
                   /\ found' = Reset(found, H, "accepted")
                   /\ overall' = Reset(overall, H, "accepted")
                   /\ tries' = Reset(tries, H, 0)
                   /\ boxes' = Reset(boxes, H, 0)
                   /\ left' = Reset(left, H, 0)

\* The slot is not given back.
LeaveBusy(h) == /\ pc' = [pc EXCEPT ![h] = "idle"]
                /\ job' = [job EXCEPT ![h] = NoJob]
                /\ ForgetLocals({h})
                /\ UNCHANGED attached

\* What a goroutine that has returned leaves behind.
Leave(h) == /\ pc' = [pc EXCEPT ![h] = "idle"]
            /\ job' = [job EXCEPT ![h] = NoJob]
            /\ attached' = [attached EXCEPT ![h] = FALSE]
            /\ ForgetLocals({h})

----------------------------------------------------------------------------
(* The API has committed the rows; EnqueueSubmission hands over the task.  *)
Enqueue(s) ==
  /\ EnqueueTask(s)
  /\ UNCHANGED <<dbVars, pc, job, attached, locals, sandboxes, faults>>

Forward(s) ==
  /\ ForwardTask(s)
  /\ UNCHANGED <<dbVars, pc, job, attached, locals, sandboxes, faults>>

Busy(w) == {h \in Handler : HostOf[h] = w /\ attached[h]}

Start(h, s) ==
  /\ pc[h] = "idle"
  /\ Cardinality(Busy(HostOf[h])) < Concurrency
  /\ Dequeue(s)
  /\ Goto(h, "fetch")
  /\ job' = [job EXCEPT ![h] = s]
  /\ attached' = [attached EXCEPT ![h] = TRUE]
  /\ UNCHANGED <<dbVars, locals, sandboxes, faults>>

Fetch(h) ==
  /\ pc[h] = "fetch"
  /\ \/ /\ DbWorks(h)
        /\ Goto(h, IF Single(h) THEN "init" ELSE "tmp")
        /\ tc' = [tc EXCEPT ![h] = IF Single(h) \/ ~Compiled[job[h]] THEN 1 ELSE 0]
     \/ /\ DbFails(h, "fetch")
        /\ Goto(h, "failed")
        /\ UNCHANGED tc
  /\ UNCHANGED <<queueVars, dbVars, job, attached, found, overall, tries, sandboxes>>

\* Also writes the source of an interpreted program into the directory.
MakeTempDir(h) ==
  /\ pc[h] = "tmp"
  /\ \/ /\ UNCHANGED faults
        /\ Goto(h, IF Compiled[job[h]] THEN "markCompiling" ELSE "markRunning")
     \/ Fault("box") /\ Goto(h, "failed")
  /\ UNCHANGED <<queueVars, dbVars, job, attached, locals, sandboxes>>

InitBox(h) ==
  /\ pc[h] = "init"
  /\ \/ Open(h) /\ Goto(h, "files") /\ UNCHANGED <<found, overall, faults>>
     \/ Fault("box") /\ Lose(h) /\ UNCHANGED sandboxes
  /\ UNCHANGED <<queueVars, dbVars, job, attached, tc, tries>>

CreateFiles(h) ==
  /\ pc[h] = "files"
  /\ \/ /\ Goto(h, IF Single(h)
                   THEN IF Compiled[job[h]] THEN "markCompiling" ELSE "markRunning"
                   ELSE IF tc[h] = 0 THEN "compile" ELSE "run")
        /\ UNCHANGED <<found, overall, faults, sandboxes>>
     \/ Fault("box") /\ Lose(h) /\ Close(h)
  /\ UNCHANGED <<queueVars, dbVars, job, attached, tc, tries>>

\* updateStatus logs an error and goes on.
Mark(h, mark) ==
  \/ DbWorks(h) /\ status' = [status EXCEPT ![job[h]] = mark]
  \/ DbFails(h, "mark") /\ UNCHANGED status

MarkCompiling(h) ==
  /\ pc[h] = "markCompiling"
  /\ Mark(h, "compiling")
  /\ Goto(h, IF Single(h) THEN "compile" ELSE "init")
  /\ UNCHANGED <<queueVars, rows, job, attached, locals, sandboxes>>

Compile(h) ==
  /\ pc[h] = "compile"
  /\ \/ /\ Goto(h, "markRunning")
        /\ tc' = [tc EXCEPT ![h] = 1]
        /\ CloseIfBatch(h)
        /\ UNCHANGED <<found, overall, faults>>
     \/ /\ Goto(h, "row")
        /\ tc' = [tc EXCEPT ![h] = 1]
        /\ Result(h, "compilation_error", "compilation_error")
        /\ CloseIfBatch(h)
        /\ UNCHANGED faults
     \/ /\ Fault("compile")
        /\ Goto(h, "failed")
        /\ Close(h)
        /\ UNCHANGED <<tc, found, overall>>
  /\ UNCHANGED <<queueVars, dbVars, job, attached, tries>>

MarkRunning(h) ==
  /\ pc[h] = "markRunning"
  /\ Mark(h, "running")
  /\ Goto(h, IF Single(h) THEN "run" ELSE "init")
  /\ UNCHANGED <<queueVars, rows, job, attached, locals, sandboxes>>

Run(h) ==
  /\ pc[h] = "run"
  /\ \/ /\ \E r \in Reports :
             Result(h, TestStatus(r), Overall(overall[h], TestStatus(r)))
        /\ Goto(h, "row")
        /\ CloseIfBatch(h) /\ UNCHANGED faults
     \/ Fault("run") /\ Lose(h) /\ Close(h)
  /\ UNCHANGED <<queueVars, dbVars, job, attached, tc, tries>>

\* After a compilation error every row gets it; otherwise the next test case runs.
NextRow(h) ==
  IF tc[h] < NumTests[job[h]]
  THEN /\ tc' = [tc EXCEPT ![h] = @ + 1]
       /\ Goto(h, IF overall[h] = "compilation_error" THEN "row" ELSE "init")
  ELSE Goto(h, "complete") /\ UNCHANGED tc

\* updateTestCaseResult logs an error and goes on.
WriteRow(h) ==
  /\ pc[h] = "row"
  /\ \/ /\ DbWorks(h)
        /\ rows' = [rows EXCEPT ![job[h]][tc[h]] = found[h]]
     \/ DbFails(h, "row") /\ UNCHANGED rows
  /\ NextRow(h)
  /\ UNCHANGED <<queueVars, status, job, attached, found, overall, tries, sandboxes>>

\* completeSubmission without its last return: the lost update looks like success.
TryAgainQuietly(h) ==
  IF tries[h] < 2
  THEN /\ tries' = [tries EXCEPT ![h] = @ + 1]
       /\ UNCHANGED <<pc, sandboxes>>
  ELSE Goto(h, "succeeded") /\ CloseIfSingle(h) /\ UNCHANGED tries

\* completeSubmission gives up after three calls that reported an error.
TryAgain(h) ==
  IF tries[h] < 2
  THEN /\ tries' = [tries EXCEPT ![h] = @ + 1]
       /\ UNCHANGED <<pc, sandboxes>>
  ELSE Goto(h, "failed") /\ CloseIfSingle(h) /\ UNCHANGED tries

Complete(h) ==
  /\ pc[h] = "complete"
  /\ \/ /\ DbWorks(h)
        /\ status' = [status EXCEPT ![job[h]] = overall[h]]
        /\ Goto(h, "succeeded") /\ CloseIfSingle(h) /\ UNCHANGED tries
     \/ DbFails(h, "complete") /\ TryAgain(h) /\ UNCHANGED status
     \/ /\ attached[h] /\ Fault("ambiguous")
        /\ status' = [status EXCEPT ![job[h]] = overall[h]]
        /\ TryAgain(h)
  /\ UNCHANGED <<queueVars, rows, job, attached, tc, found, overall>>

\* A panic runs what executeSingle has deferred; executeBatch defers no
\* cleanupBox, so that its sandbox stays.
Panic(h) ==
  /\ pc[h] \in Inside
  /\ Fault("panic")
  /\ Goto(h, "failed")
  /\ \/ Held(h) = 0 /\ UNCHANGED sandboxes
     \/ Held(h) > 0 /\ Single(h) /\ Close(h)
     \/ Held(h) > 0 /\ ~Single(h) /\ LeaveBehind(h)
  /\ UNCHANGED <<queueVars, dbVars, job, attached, locals>>

----------------------------------------------------------------------------
(* What asynq does when Execute returns.                                   *)
Acknowledge(h) ==
  /\ pc[h] = "succeeded" /\ attached[h]
  /\ AckTask(job[h])
  /\ Leave(h)
  /\ UNCHANGED <<dbVars, faults>>

ExhaustedLate(h) == retried[job[h]] > MaxRetry        \* > for >=
ExhaustedEarly(h) == retried[job[h]] + 1 >= MaxRetry  \* counts from one

Exhausted(h) == retried[job[h]] >= MaxRetry

\* The ErrorHandler of server.go: one CompleteSubmission, its error logged.
HandleError(h) ==
  /\ pc[h] = "failed" /\ attached[h]
  /\ Goto(h, "erred")
  /\ IF Exhausted(h)
     THEN \/ DbWorks(h) /\ status' = [status EXCEPT ![job[h]] = "internal_error"]
          \/ DbFails(h, "handler") /\ UNCHANGED status
     ELSE UNCHANGED <<status, faults>>
  /\ UNCHANGED <<queueVars, rows, job, attached, locals, sandboxes>>

GiveBack(h) ==
  /\ pc[h] = "erred"
  /\ FailTask(job[h])
  /\ Leave(h)
  /\ UNCHANGED <<dbVars, faults>>

\* Nobody waits for this goroutine any more.
Vanish(h) ==
  /\ pc[h] \in {"succeeded", "failed"} /\ ~attached[h]
  /\ Leave(h)
  /\ UNCHANGED <<queueVars, dbVars, faults>>

----------------------------------------------------------------------------
(* Failures around Execute.  The ErrorHandler runs in the first two too,   *)
(* but with the dead context, so that it changes nothing.                  *)
Detach(h) == /\ pc[h] \notin {"idle", "erred"} /\ attached[h]
             /\ attached' = [attached EXCEPT ![h] = FALSE]
             /\ UNCHANGED <<dbVars, pc, job, locals, sandboxes>>

TimeOut(h) == Detach(h) /\ Fault("timeout") /\ FailTask(job[h])

LoseLease(h) == Detach(h) /\ Fault("lease") /\ UNCHANGED queueVars

Shutdown(h) == Detach(h) /\ Fault("shutdown") /\ RequeueTask(job[h])

\* The process comes back with empty memory.
Crash(w) ==
  LET dead == {h \in Handler : HostOf[h] = w}
  IN /\ Fault("crash")
     /\ pc' = Reset(pc, dead, "idle")
     /\ job' = Reset(job, dead, NoJob)
     /\ attached' = Reset(attached, dead, FALSE)
     /\ ForgetLocals(dead)
     /\ UNCHANGED <<queueVars, dbVars>>

\* A recoverer that does not look at the lease.
RecoverEager(s) == FailTask(s) /\ UNCHANGED <<dbVars, pc, job, attached, locals, sandboxes, faults>>

\* asynq's recoverer, for active tasks whose lease has run out.  It retries
\* or archives the task itself and does not call the ErrorHandler.
Recover(s) ==
  /\ \A h \in Handler : ~(attached[h] /\ job[h] = s)
  /\ FailTask(s)
  /\ UNCHANGED <<dbVars, pc, job, attached, locals, sandboxes, faults>>

----------------------------------------------------------------------------
Step(h) == \/ Fetch(h) \/ MakeTempDir(h) \/ InitBox(h) \/ CreateFiles(h)
           \/ MarkCompiling(h) \/ Compile(h) \/ MarkRunning(h) \/ Run(h)
           \/ WriteRow(h) \/ Complete(h) \/ Panic(h)
           \/ Acknowledge(h) \/ HandleError(h) \/ GiveBack(h) \/ Vanish(h)

Interrupt(h) == TimeOut(h) \/ LoseLease(h) \/ Shutdown(h)

Next == \/ \E s \in Submission : Enqueue(s) \/ Forward(s) \/ Recover(s)
        \/ \E h \in Handler, s \in Submission : Start(h, s)
        \/ \E h \in Handler : Step(h) \/ Interrupt(h)
        \/ \E w \in Worker : Crash(w)

Spec == Init /\ [][Next]_vars

\* Redis and the goroutine scheduler keep going: every sandbox run ends, by
\* its wall-time limit if not earlier, every delay passes, and the recoverer
\* polls for ever.  Nothing forces a task to be enqueued or a fault to happen.
Fairness == /\ \A h \in Handler : WF_vars(Step(h))
            /\ \A s \in Submission : WF_vars(Forward(s)) /\ WF_vars(Recover(s))
            /\ \A s \in Submission : WF_vars(\E h \in Handler : Start(h, s))

FairSpec == Spec /\ Fairness

----------------------------------------------------------------------------
DbTypeOK ==
  /\ status \in [Submission -> Status]
  /\ DOMAIN rows = Submission
  /\ \A s \in Submission : rows[s] \in [1..NumTests[s] -> Status]

HandlerTypeOK ==
  /\ pc \in [Handler -> Label]
  /\ job \in [Handler -> Submission \cup {NoJob}]
  /\ attached \in [Handler -> BOOLEAN]
  /\ tc \in [Handler -> Nat]
  /\ found \in [Handler -> Terminal]
  /\ overall \in [Handler -> Terminal]
  /\ tries \in [Handler -> 0..2]
  /\ boxes \in [Handler -> Int] /\ left \in [Handler -> Nat]

TypeOK == QueueTypeOK /\ DbTypeOK /\ HandlerTypeOK /\ faults \in 0..MaxFaults

\* At most one goroutine that asynq still waits for, and whose statements
\* therefore reach Postgres, executes a submission, and only while its task
\* is active: a recovered, timed out or requeued task never gets two writers.
OneWriter ==
  \A h \in Handler : attached[h] =>
    /\ job[h] \in Submission /\ task[job[h]] = "active"
    /\ \A g \in Handler : attached[g] /\ job[g] = job[h] => g = h

\* A task leaves the queue as done only after a verdict reached Postgres:
\* completeSubmission's retries never report success for an update that is lost.
DoneHasVerdict == \A s \in Submission : task[s] = "done" => status[s] \in Terminal

\* What a client has read of an acknowledged submission, its status and the
\* results of its test cases, never changes again, whatever goroutines of
\* earlier attempts are still running.
KeepsDone == \A s \in Submission : task[s] = "done" =>
               task'[s] = "done" /\ status'[s] = status[s] /\ rows'[s] = rows[s]
FinalVerdictStable == [][KeepsDone]_vars

\* README: user code errors do not retry.  Each retry of a submission, and
\* its archiving, is paid for by an infrastructure fault of its own.
RetryNeedsFault ==
  \A s \in Submission : /\ retried[s] <= faults
                        /\ task[s] = "archived" => retried[s] < faults

\* Every path of executeSingle and executeBatch, of success and of failure,
\* cleans up the one sandbox it has at a time, before Execute returns.  What
\* stays behind is what isolate refused to clean up and what a panic in a batch
\* skipped.
OneBox == \A h \in Handler :
            /\ Held(h) \in {0, 1}
            /\ pc[h] \in {"succeeded", "failed", "erred"} => Held(h) = 0

\* The status of a finished submission agrees with the results of its test
\* cases.  Holds while every updateTestCaseResult succeeds ("row" is no fault).
VerdictMatchesRows ==
  \A s \in Submission : task[s] = "done" =>
    /\ status[s] \in {rows[s][i] : i \in DOMAIN rows[s]}
    /\ \A i \in DOMAIN rows[s] :
         /\ rows[s][i] \in Terminal
         /\ status[s] = "accepted" => rows[s][i] = "accepted"
         /\ status[s] = "compilation_error" <=> rows[s][i] = "compilation_error"
         /\ rows[s][i] # "accepted" /\ (\A j \in 1 .. i - 1 : rows[s][j] = "accepted")
              => status[s] \in {rows[s][i], "internal_error"}

\* The ErrorHandler marks every archived submission as internal_error.  Holds
\* while its CompleteSubmission succeeds and no attempt is lost outside of it.
ArchivedIsMarked == \A s \in Submission : task[s] = "archived" => status[s] = "internal_error"

\* A terminal status is not overwritten.  Holds while attempts fail by
\* returning an error; a lost attempt is run again from any status, and so is
\* one whose CompleteSubmission reports an error although it took effect.
TerminalIsFinal ==
  [][\A s \in Submission : status[s] \in Terminal => status'[s] = status[s]]_vars

\* Every enqueued submission ends: executed to a verdict or archived.
Settles == \A s \in Submission :
             task[s] = "pending" ~> task[s] \in {"done", "archived"}

\* It is executed to a verdict unless more faults happen than there are retries:
\* no fault costs more than one of them.
Judged == \A s \in Submission :
            task[s] = "pending" ~> task[s] = "done" \/ faults > MaxRetry

\* README: infrastructure failures retry up to 3 times.  internal_error is the
\* verdict only of a submission whose retries are used up.
InternalErrorAfterRetries ==
  \A s \in Submission : task[s] = "done" /\ status[s] = "internal_error" => retried[s] = MaxRetry

\* openapi.yaml: poll until the status is not pending, compiling or running.
\* A submission the queue has given up on does not stay in those.
PollingEnds == \A s \in Submission : task[s] = "archived" => status[s] \in Terminal
============================================================================
