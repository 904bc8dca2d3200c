# Exec0 in TLA+

Exec0 is an online judge: an HTTP API stores a program as a *submission* with
one or more *test cases*, an asynq queue in Redis carries its id to a worker,
and the worker compiles and runs the program in `isolate` sandboxes and writes
the verdict to Postgres, where the client polls for it. This directory models
the protocol between those parts in TLA+, checks it with TLC and proves its
safety properties with TLAPS. Paths below are relative to `src/`.

## 1. Inventory

| Part | State it keeps | Operations | Talks to |
|---|---|---|---|
| **Execution worker** `internal/services/execution.go` | rows of `submissions` and `test_case_results`; locals of one goroutine (current test case, overall status, sandbox) | `Execute`, `executeSingle`, `executeBatch`, `updateStatus`, `updateTestCaseResult`, `completeSubmission` | queue (calls it), Postgres, isolate |
| **Task queue** `internal/queue` over asynq | one task per submission: pending, active, retry, archived; retry count | `EnqueueSubmission`, the `ErrorHandler`; asynq's dequeue, ack, retry, archive, requeue, recoverer | API (producer), worker (consumer) |
| **Sandbox allocation** `execution.go:28-34`, `569-606`, `682-773` | a counter in each process; box directories and `/tmp/isolate_meta_<n>.txt` | `nextBoxID`, `initBox`, `createFiles`, `run`/`compile`, `readMetadata`, `cleanupBox` | isolate |
| **Metadata parsing** `execution.go:723-764` | none | `readMetadata` | sandbox |
| **Submission intake** `handlers/submissions.go`, `services/submissions.go` | open transactions, pool connections, committed rows | `Create`, `CreateBatch`, with the defaults and maxima of `buildSubmissionParams` | Postgres, queue |
| **Submission reading** same files | none of its own | `Get`, `List` | Postgres |
| **Worker shutdown** `cmd/worker/main.go` | asynq's server, the pool, the two goroutines that handle signals | signals, `srv.Run`, `srv.Shutdown`, deferred calls | tasks, pool, operating system |
| **HTTP server, middleware, health** `cmd/Exec0/main.go`, `internal/server`, `internal/middleware`, `handlers/health.go` | the process's life cycle, the requests in flight, the `err` two goroutines share | `Start`, `Shutdown`, the allowlist, `Recovery`, `Logging`, `Metrics`, the health check | all handlers |
| **Languages, monitoring** | none (read-only) | lists and probes | Postgres, Redis |
| **Configuration, observability, schema, deployment** | counters, constants | start-up | all |

What is hard here, and what is correct there:

* **Worker and queue.** asynq delivers at least once. An attempt may end because
  `Execute` returns, because the deadline passes, because the lease is lost,
  because the process is shut down or because it dies; in the middle three the
  goroutine *goes on* with a cancelled context (`exec.Command` is not bound to
  it). Writes of a status or a row that fail are only logged, the final write is
  retried three times and may take effect although it reports an error. Correct
  means: never two goroutines whose writes take effect on one submission; no
  acknowledgement without a stored verdict; nothing an acknowledged client has
  read changes later; retries only for infrastructure failures; every submission
  ends; verdict and rows agree; every path cleans up its sandboxes.
* **Sandboxes.** Box numbers are a counter modulo 999 and nobody records which
  are in use; metadata files are named by the number and survive a crash.
  Correct means: what is read back is one's own run, unless two live boxes have
  the same number; nothing of an earlier process is read; and a number in the
  report that is out of range is not taken for success.
* **Intake.** Transaction, commit, language lookup and enqueue are separate
  steps under a context that a disconnecting client cancels. Correct means:
  whole submissions or none, within the limits; a task only for a committed
  submission, one task for every id that was returned; a submission
  without a task only for a failure of the system's own; no waiting for each other on the
  pool.
* **Reading.** Two statements without a transaction, while the worker writes;
  pages by offset, while rows appear in the middle. Correct means: the response
  that ends the polling agrees with itself and stands, and a walk through the
  pages misses nothing that was there.
* **Shutdown.** In the worker two goroutines receive each signal and call
  `srv.Shutdown`; in the API the goroutine of `Start` and `main` share `err`.
  Correct means: a shutdown costs no task one of its retries, exit code 0 means
  that every request was answered, and the process ends.
* **Middleware and health.** A panic skips what the layers do on the way back; the
  two pings of a health check share three seconds and the client's context.
  Correct means: what is counted was sent, and a check reports nothing down that
  the process itself has closed.

`PROJECT.json` lists every hazard with its line and the properties that cover it.

## 2. Modules

```
                    TaskQueue ----- WorkerShutdown ------- WorkerShutdown_proofs
                        |
  Verdict ---------- Execution ---- Execution_proofs
                     |      |                    |
                     |     MCExecution           |
                     |      |                    |
                     |    ExecutionJudging ----- ExecutionVerdict_proofs
                     |      '.. Judging (abstract)     |
   MCExec0 ------- Exec0 ------------------------ Exec0_proofs
                     :                                 :
              SubmissionAPI -- MCSubmissionAPI         :
                     |                                 :
              SubmissionAPI_proofs ....................:

  BoxAllocator (.. Metadata) -- MCBoxAllocator,  BoxAllocator_proofs
  HTTPServer   -- MCHTTPServer,  HTTPServer_proofs
  Listing      -- MCListing,     Listing_proofs
```

A line is EXTENDS, from left to right and downwards; dots are INSTANCE. The MC
modules give small values to the constants of the module they extend.

* **TaskQueue** is the external model of asynq for one task per submission: each
  operator is one atomic broker script. "done" stands for a task that has been
  acknowledged and deleted; a failed attempt goes to "retry" until `MaxRetry`
  (3 in `client.go:33`) retries are used, then to "archived".
* **Verdict** is pure: `mapIsolateStatus`, the status of one test case and the
  accumulation of a batch. A `Report` keeps only what those decisions read.
* **Execution** is the worker. A `Handler` is one goroutine; `pc` names the step
  of `executeSingle`/`executeBatch` it is at; `attached` says that asynq still
  waits for it and its context is alive. A database statement takes effect only
  while it is attached (`DbWorks`), a sandbox command always does. One action
  per step of the code:

  | Action | Code |
  |---|---|
  | `Fetch` | `Execute`: submission, language, test cases (any of the reads may fail) |
  | `MakeTempDir` | `executeBatch:295-300`, and the source of an interpreted program, `369-373` |
  | `InitBox`, `CreateFiles` | `initBox`, `createFiles`, in a batch the copying of artifacts and stdin |
  | `MarkCompiling`, `MarkRunning` | `updateStatus`, whose error is logged |
  | `Compile`, `Run` | `compile`, `run`, and what the callers make of the result |
  | `WriteRow` | `updateTestCaseResult`, whose error is logged; the loop goes on |
  | `Complete` | one call of `CompleteSubmission` in the retry loop of `completeSubmission` |
  | `HandleError`, then `GiveBack` | the `ErrorHandler`, then asynq's retry or archive |
  | `Acknowledge`, `Vanish` | the goroutine returns to asynq, or to nobody |
  | `TimeOut`, `LoseLease`, `Shutdown` | asynq stops waiting (deadline, lease, process stop) |
  | `Crash`, `Recover` | the process dies; the recoverer finds tasks without a lease |

* **Judging** is the abstract promise: a submission is judged by one attempt at a
  time, given back with at most `Retries` strikes, and settled once, with a
  verdict that is published for good or by being abandoned. **ExecutionJudging**
  maps the worker to it; `published` is read from the row in Postgres, so that
  the mapping fails if a late write changes an acknowledged row.
* **BoxAllocator** follows each use of a sandbox from `nextBoxID` to `cleanupBox`
  on the files of its container. A tag names a use; boxes and metadata files
  remember whose source, output and report they hold, and whether the report is
  of the compilation or of the run after it (`turn`). Nothing keeps `Claim` from
  the number of a live sandbox; the history variable `met` records which
  goroutines have met one a whole number of rounds of the counter away.
* **Metadata** is pure: `readMetadata` as a loop over lines of key and value, with
  the parse to `int32` whose error is ignored (`ParseInt` saturates, as
  `strconv` does) and the scanner's error for a line that is too long. `Reports`
  are the files that **BoxAllocator** takes to be written.
* **SubmissionAPI** has one goroutine per request, from the checks of the body to
  the answer, with the pool's connections, cancellation and crashes. The single
  and the batch service function are the same actions with one or more tests.
  One `limit` stands for the six that `valOrDefault` treats alike.
* **Exec0** is the whole judge: the actions of **SubmissionAPI** (an instance
  whose queue is read off **TaskQueue**), of **Execution**, and clients that poll
  what they were answered 201 for. `Intake` is a step of a request, which pushes
  the task that the workers then find; `Get` is one of the two statements of the
  handler (which comes first is `Reads`) or its failure, `Look` is the client's
  decision.
* **WorkerShutdown** has `main` and `srv.Run` as two goroutines, from their
  registration for signals to the exit of the process, asynq's server with its
  processor inside of a dequeue or not (`fetching`), the pool, and tasks that
  alternate between sandbox work and statements.
* **HTTPServer** has the goroutine of each request on its way down the
  middleware, into a handler and back up, or unwinding from a panic, and the two
  goroutines of the process: `main` and the one of `srv.Start`. Both read `err`
  after they have assigned it, and find their own value or the other's: Go gives
  no order to the race, so each read chooses among the two. `prompt` is the set
  of services that a ping reaches in time: Postgres leaves it when it is down or
  slow, or when its pool has no free connection. A ping may fail while its
  service is not prompt or once its client has hung up, and the first may use up
  the time of the second. `trouble` records what a check has met of that.
* **Listing** has a table whose rows are begun and committed at different times,
  and a client that walks its pages. `Page`, `PerPage` and `Offset` are the
  conversions and products of `int32`, with `Half` in place of 2^31.

Abstractions, all deliberate:

* Programs, outputs, limits and messages are abstracted to reports and bodies.
* The `default` branch of `switch sub.Mode` is left out: a CHECK of the table
  excludes other modes.
* A statement that is in flight when its context is cancelled either took effect
  before the cancellation or fails after it; the case between, an effect with an
  error, is the fault kind *ambiguous* for the writes where it matters.
* `Fetch` is one action although it makes three reads: it fails or succeeds as a
  whole, and nothing else writes what it reads at that time.
* asynq's lease loss after the `ErrorHandler` has run, and cancellation on
  requeue, are taken together with the step before.
* `Panic` may end `Execute` at any of its steps; asynq recovers it and takes it
  for a returned error. Only the deferred calls run: `executeSingle` has deferred
  its `cleanupBox`, `executeBatch` has not.
* `Close` is `cleanupBox`: isolate may refuse, which the code only logs. `left`
  counts the sandboxes that nobody will try to clean up again, so that
  `boxes - left` (`Held`) are those that Execute still has to see to.
* In BoxAllocator, "unlaunched" is a use whose `isolate --run` did not start (no
  `ExitError`), after which the code reads the metadata file all the same, and
  "guessed" is one that found a file there. A use whose report is read may run a
  second time (`resetMetadata`, then `run` with `turn` 2), as `executeSingle` does
  after compiling; the removal of a file succeeds. A handler reads metadata and
  output in one step.
* In Exec0, an error response (404, 500) means: poll again. The intake, the
  workers and the reads of the GET have fault kinds and bounds of their own.
* In WorkerShutdown, `Recover` waits for the end of the process: a live worker
  extends the leases of its tasks. The two goroutines of `main` and `Run` stand
  for everything that handles signals; the pool's `Close` refuses statements and
  then waits for those that run.
* In HTTPServer, status codes are classes, and what a handler does before its
  answer is nothing: the handlers' own models are the other modules. A client may
  hang up during its health check only, the one handler modelled here whose
  answer depends on it. A ping that fails because its service *was* late is taken
  to end while it is late.
* In Listing, no two transactions begin in the same microsecond.

## 3. Runs

Every fault is of a kind (list at the head of the modules); a run allows a set
of kinds and `MaxFaults` of them. All failures of one attempt, two overlapping
attempts and the retry after them need at most three faults. In the runs of the
worker, submissions are named `cs`, `is`, `cb`, `ib`: compiled or interpreted,
single or batch; a batch has two test cases, the smallest with a first and a last
one. `MaxRetry` is 1 instead of 3: the code only compares the count with the
limit, and with 1 an attempt can be the first, the last, and one that is
retried.

Runs that pass:

| Run | Instance | Shows |
|---|---|---|
| `Execution_attempts` | `cb`, two goroutines for one slot, any 3 faults but a failed row update, isolate may refuse 1 cleanup in each `Execute` (`MaxLeft`) | `OneWriter`, `DoneHasVerdict`, `RetryNeedsFault`, `OneBox`, `VerdictMatchesRows`, `FinalVerdictStable`, and with `ImplementsJudging` that the worker implements `Judging` |
| `Execution_settles` | `cs` and `is` for one slot; 2 faults out of a crash, a panic, a timeout, a returned error, a row update, a failing `ErrorHandler`; fair | `Settles`, `Judged` |
| `Exec0_journey` | two requests for a batch on a pool of one connection, a worker, the client of one request; 2 errors that `Execute` returns or logs, 1 failing or unheard statement of the intake, 1 failing read of the GET; fair | `ArchivedIsMarked`, `FoundComplete`, `ResponseAgrees`, `AnswerStands`, `TerminalIsFinal`, `GetsAnswer` |
| `BoxAllocator_crash` | 3 goroutines, 2 numbers, 4 uses in each life of the process, a restart, isolate may fail to start; metadata files of up to 3 lines, an int32 of -4..3 | `OwnResult`, `NoStaleResult`, `MetadataIsRead`; the counter wraps into live sandboxes |
| `SubmissionAPI_intake` | 2 requests on a pool of one connection, 12 bodies, a default of 1 and a maximum of 3, any 3 faults; fair | `AllOrNothing`, `QueuedIsCommitted`, `CreatedIsQueued`, `NoOrphan`, `WithinLimits`, `Answered` |
| `WorkerShutdown_stop` | 2 tasks without retries, 2 signals; fair | `ShutdownIsFree`, `Stops` |
| `HTTPServer_stop` | 2 requests, one from an address that is covered and one from an address that does not parse; every list out of a right entry and a misspelt one; each service becomes late and recovers at will; fair | `CleanExit`, `DegradedIsTrouble`, `CountedIsSent`, `Stops` |
| `Listing_walk` | 4 submissions, a default of 2 rows and a maximum of 3, an int32 of -6..5, `per_page` below 1, in range, above the maximum and beyond the int32 | `WalkSeesAll`, `NothingSlipsPast` |

The runs of a module with a type invariant check it as well.

With two numbers every third use meets the number of the first: two goroutines
collide while a third is next to both, and four uses go round twice. One restart
is enough to tell files of this process from older ones. Two requests are the fewest that can mix their ids, and one
connection the fewest that the pool can run out of. Four submissions are two
pages and a row that comes between them. With `MaxRetry` 0 every strike at
shutdown is an archived task.

The runs `Execution_attempts` and `BoxAllocator_crash` reduce by the symmetry of
their goroutines, which no definition tells apart; neither checks liveness.

`CHECK_DEADLOCK FALSE` is set throughout because every instance may stop: each
submission is settled, each request answered, the process gone, the walk over,
or the bound on uses reached.

Where a property holds only while some fault is excluded, its comment names the
fault, and the hazard is listed. `VerdictMatchesRows` excludes a failed row
update (the code completes the submission over it); `ArchivedIsMarked`,
`TerminalIsFinal`, `AnswerStands`, `ResponseAgrees` and `GetsAnswer` exclude
attempts lost outside of the `ErrorHandler`, and all but the first a
`CompleteSubmission` that takes effect and reports an error; `ResponseAgrees`
excludes a failed row update as well. `NoOrphan` excludes nothing: it
counts, and finds that the submissions of answered requests that have no task are
never more than the faults that are not a disconnect; a request that a crash of
the API cut off was not answered and is not counted. `OneBox` does not count the
sandboxes that isolate refused to clean up and the one that a panic in a batch
skipped, and `OwnResult` excuses those who met another sandbox of their number.

Each property has a mutant of the code that breaks it under the same
configuration, among them: a recoverer that ignores leases, statements under a
context that is never cancelled, `completeSubmission` without its last `return`,
a missing `cleanupBox`, `>` for `>=` in the `ErrorHandler`, the last verdict
instead of the first, a slot that is not given back, a box number without the
modulus, a report of the compilation that is not removed before the run,
isolate's exit code 2 ignored, an insert outside the transaction, an unchecked commit or enqueue, an enqueue under
the request's context, a connection held during the language lookup, a GET that
reads the rows first, a maximum that is not applied, a number cut to 32 bits, a
shutdown that does not wait for the fetch in flight, clients closed before the
requests have ended, `Recovery` inside of `Metrics`, and an offset that counts pages from zero.

Runs that end in a counterexample, each against a sentence of the repository:

| Run | The sentence | What the code does |
|---|---|---|
| `Execution_polling` | poll until the status is not in progress (`openapi.yaml:157`) | a submission whose last attempt dies with its worker is archived by the recoverer, which calls no `ErrorHandler`: in progress for ever |
| `Execution_infraretry` | infrastructure failures are retried (`README.md:11`) | those of a batch's test case are not |
| `BoxAllocator_collide` | "multiple submissions in parallel with collision-free sandbox allocation" (`README.md:12`) | the counter goes round without a look at the numbers in use: a sandbox that lives while 999 more numbers are handed out meets its own (here 3 boxes, two goroutines) |
| `WorkerShutdown_drain` | "shutting down worker, waiting for active tasks to finish" (`cmd/worker/main.go:128`) | if `srv.Run` hears the signal first, its `Shutdown` is the one that waits, `main`'s returns at once, and the process exits in the middle of its tasks |

More limits of the code can be seen in the models, or were met while writing
them, and no run is spent on them:

* a later infrastructure error of a batch replaces the first verdict that was
  not accepted (`openapi.yaml:131` speaks of the first);
* a failed enqueue, after the commit, is answered 422, which
  `openapi.yaml:584` keeps for validation;
* a worker that dies between `completeSubmission` and the acknowledgement
  makes the next attempt take a finished row back to `running`, which the life
  cycle of `README.md:93` does not show;
* a sandbox outlives the attempt whose slot it had, so that
  `WORKER_CONCURRENCY` does not bound the number of sandboxes (`deploy.md:137`);
* every replica counts its boxes from 1 (`deploy.md:214`), so that box ids are
  at best unique within a process;
* a sandbox that isolate refuses to clean up stays until its number comes round
  again, and so does the one of a batch whose `Execute` panics;
* a crash of the API between the commit and the enqueue leaves a submission that
  nobody will ever execute;
* a time limit below 0.05 s is given to isolate as `0.0`
  (`execution.go:686`);
* a signal that comes when `srv.Run` has registered and `main` has not stops the
  server of the worker but not its process;
* SIGTERM ends the API at once (`cmd/Exec0/main.go:68` asks for SIGINT only),
  and a shutdown that went well may exit with 1 through the race for `err`;
* the two pings of a health check share three seconds and the client's context,
  so that a slow Postgres, an exhausted pool or a client that hangs up makes
  Redis look down as well;
* a single request for a page far beyond the end may wrap to an offset in the
  middle of the list; walks are refused before they get there;
* `Metrics` reads the pattern from a request whose copy the router has, so that
  paths with an id become labels of their own (`middleware/metrics.go:28`);
* `MaxOpenConns` is not given to the pool, and the `is_archived` of a language is
  not looked at when a submission is created.

## 4. Fairness

`Execution`: weak fairness of each goroutine's steps (the Go scheduler; a
sandbox run ends by its wall-time limit, a statement by its connection), of
asynq's forwarder and recoverer, which poll for ever, and of the start of each
pending task on some free slot (the default queue is first in, first out; only
finitely many tasks exist). Nothing is assumed about enqueuing or faults.

`SubmissionAPI`: strong fairness of each request's steps. A connection of the
pgx pool is handed to waiting goroutines in order, so one that waits gets one
if connections are free again and again; weak fairness would let a request
starve in the model, which the pool's queue does not.

`Exec0`: the fairness of `Execution`, and polling clients that go on. Nothing is
asked of the requests: `GetsAnswer` begins with the answer 201.

`WorkerShutdown`: the steps of `main`, the timer of the shutdown, the answer of
Redis to the dequeue, the end of each statement and asynq's reaction to the
timer. Nothing is asked of the sandboxes: `Stops` holds although a program may
run for ever.

`HTTPServer`: the steps of `main` and its timer. Nothing is asked of the
handlers.

## 5. Proofs

All theorems hold for any sets of submissions, goroutines, workers, requests,
addresses and any number of tests, retries, boxes, signals and faults, from the
named assumptions on the constants (`ExecutionAssumption`, `MaxRetryAssumption`,
`BoxAssumption`, `ReportAssumption`, `APIAssumption`, `IntakeAssumption`,
`JourneyAssumption`, `ShutdownAssumption`, `ServerAssumption`,
`ListingAssumption`), which TLC evaluates in every run. Every safety property
that a run checks is stated by a theorem; `PROJECT.json` lists which.

* `Execution_proofs`. `TypeCorrect` is inductive alone. The others rest on
  `IInv`: *Control* (a goroutine has a job exactly while it is not idle; only
  a settled attempt is in "erred"), `OneWriter`, *SuccessIsWritten* (an attached
  goroutine that is about to be acknowledged has stored a terminal status, which
  no other goroutine can overwrite, by `OneWriter`) and *FailureIsPaid* (an
  attached goroutine that has failed has used a fault that no retry has counted
  yet). Without the last two, `DoneHasVerdict` and `RetryNeedsFault` are not
  inductive, since `Acknowledge` and `GiveBack` look at neither the row nor the
  faults. `VerdictIsFinal` is an action property from the same invariant: any
  step that writes a row needs an attached goroutine, so an active task.
  `SandboxesCleanedUp` adds *BoxInv*: for each step, exactly how many sandboxes
  Execute still holds; every path, the panics included, either cleans up the one
  it holds or adds it to those left behind.
* `ExecutionVerdict_proofs` proves first the refinement, `WorkerImplementsJudging`:
  under `IInv`, every step of a goroutine but the acknowledgement and the giving
  back leaves the mapped variables alone (it may write a row, but not of a
  submission that is done), and each step of the queue is the action of `Judging`
  of the same meaning.
  It then proves `VerdictAgrees`, from the one hypothesis that
  "row" is no possible fault. Its invariant *Accounts* says for each attached
  goroutine which rows its attempt has written (*Counted*) and that the overall
  status is what those rows, and the verdict it is about to write, add up to
  (*Tallied*). A retry starts from rows of the attempt before; that is why the
  account covers only what this attempt has written. Without the hypothesis the
  step from *Counted* to the rows fails, as it does in the code.

  Its last part is about behaviours in which no attempt is lost (*NothingLost*:
  no crash, timeout, lost lease or shutdown), whatever else fails. *Kept* says
  that asynq waits for every goroutine inside of `Execute` and somebody executes
  every active task. `VerdictNotTakenBack` adds that no `CompleteSubmission`
  takes effect and reports an error, and uses *VerdictIsLast*: a status is
  terminal only when the task has left the queue or its goroutine has nothing
  left to write. `ErrorHandlerMarks` adds that the ErrorHandler's statement
  succeeds, and uses *ErredIsMarked*: a failure that exhausts the retries, by
  the handler's count, has marked the row before asynq, by its own count,
  archives the task. Each hypothesis is one without which the code breaks the
  property: the recoverer archives without the handler, and a lost attempt, or
  one that was told a wrong error, is run again over a finished row.
* `Exec0_proofs` composes. `JourneyRunsWorkers` and `JourneyRunsAPI` show that
  every step of the whole judge is a step or a stutter of each of its components
  (*StepOfBoth*), so that all that is proved of `Execution` and `SubmissionAPI`
  holds in the whole. This is a fact about the interface and not about shapes: a
  request at its push must own an id that is a submission (`IInv` of
  `SubmissionAPI`), and the worker must never return a task to "none"
  (*JudgeKeepsTasks*). `WorkersFindAll` combines both invariants: the task a
  goroutine holds was enqueued (*Taken*), so its request is past its commit and
  has stored the rows of all its tests. It has no hypothesis on faults.
  `ReadsAgree` and `AnswersStand` are about the reader, under the same
  hypotheses as `VerdictNotTakenBack`. *ReadStands* says what a half-made
  response is worth: once the first statement has found a terminal status, both
  that status and, after the second, the rows are what the database goes on
  saying. It holds because the status is read first and is written last
  (`TerminalStays` covers the rows as well), and fails with the reads in the
  other order. `ReadsAgree` also needs every `updateTestCaseResult` to succeed,
  since it takes the agreement of status and rows from `VerdictAgrees`.
* `BoxAllocator_proofs`. `ReadsOwnResult` assumes nothing of the counter. A lemma
  on remainders says that two live sandboxes of one process and one number are
  a whole number of rounds apart, so that both are in `met` (*SharersHaveMet*): a
  goroutine that is not has its number for itself. Its traces through the shared files (*OwnTraces*)
  are then undisturbed, from the reset between compilation and run to the report
  it reads. That a run which never started finds no file of its number rests on
  two more facts: until the first crash every metadata file belongs to a live use
  (*FilesOwned*), and reading one without a run needs a crash before
  (*GuessesAfterCrash*). `NothingStaleIsRead` speaks of all goroutines: while a finished run waits to be read, whoever shares
  its number can only put a file of the same epoch there or remove it
  (*RecentFiles*). `ReportsAreUnderstood` is about files of any length: by
  induction over the turns of the loop, taking the first turn that goes wrong,
  the metadata holds for each field the value of the last line so far
  (*HoldsLast*); that the recursive function of the loop exists is proved in
  the same way (*TurnsExist*). `ReportAssumption` asks of 2^31 only that it
  be more than 1.
* `SubmissionAPI_proofs`. `IInv` says that ids are drawn once each, from a
  sequence of which a refused insert takes a number too (*Ids*), what
  each goroutine has done at its step (*Mine*), that what is stored belongs to
  the request that drew its id, which is past its commit (*Stored*), and that a
  task was pushed in that request's last step (*Queued*). `NoPartialSubmission`,
  `TasksAreCommitted`, `ReturnedIsQueued` and `StoredWithinLimits` are
  consequences. `OrphansArePaid` counts: every orphan and every client that has
  gone away is charged with a fault of its own, by an invariant on the
  cardinalities of those sets.
* `WorkerShutdown_proofs`. *Attachment* (an attached task is active and its
  goroutine works), *Control* (who owns the shutdown, and how far it is),
  *Waited* (once `main` has drained the server it owns, no task is attached and
  no fetch is under way) and *Paid* (a strike of a task, before the pool is
  closed, is the task's own fault) give `MainsShutdownIsFree`. *Waited* is where
  the processor's token matters: without it a task may still arrive.
* `HTTPServer_proofs`. *Quiet* (what is in flight at each step of `main`),
  *Written* (what was sent and remembered at each place of a request) and
  *Noticed* (a check has met every service that is late while it runs) with the
  properties themselves are inductive. `DegradedOnlyInTrouble` needs *Quiet*:
  while a check is in flight `main` has not come to its deferred calls, so the
  Redis client is open. `ExitZeroIsClean` holds in spite of the
  race because every value that `main` may read after a forced shutdown is an
  error.
* `Listing_proofs`. *Clock* (times are distinct and counted by the transactions
  that have begun), *Paced* (the number of the next page fits an int32, and its
  true offset is less than twice `Half`) and `NothingSlipsPast` are inductive.
  The lemmas on `Wrap` say that below `Half` the offset that is computed is the
  true one, and between `Half` and twice `Half` it is negative: a walk meets a
  negative offset, and ends, before it could meet one that has gone round.
  `ListingAssumption` asks for fewer than `Half` - 1 submissions.

Only model-checked: the liveness properties (`Settles`, `Judged`, `Answered`,
`GetsAnswer`, and `Stops` of the worker and of the API), since fairness and
ENABLED are out of the prover's reach.

## 6. Not modelled

* **Configuration**: read once at start into what the modules take as constants.
* **Observability**: counters, logs and traces are written and never read back;
  the one that a caller could be misled by, the class of a response, is in
  `HTTPServer`.
* **Languages and monitoring**: single reads of tables that only migrations
  change, or of queue statistics. The lookup of a language and its foreign key
  are in `SubmissionAPI`, the handlers as such in `HTTPServer`.
* **Start-up**: connecting, pinging and preparing the sandbox root run once, in
  order, and end the process on the first error.
* **asynq, pgx, net/http, isolate**: libraries and programs outside of the
  repository, modelled from what the code calls and marked external.
* **Images, dashboards and scripts** of `deploy/`; what replicas and restarts
  share is a parameter of `BoxAllocator`.
* **Times**: timers fire at any moment, so nothing is said of how long anything
  takes.
