--------------------------- MODULE SubmissionAPI ---------------------------
(***************************************************************************)
(* POST /submissions and POST /submissions/batch: the handler checks the   *)
(* body, the service checks the fields, inserts the submission and one row *)
(* per test case in a transaction, commits, looks up the language for a    *)
(* metric label, enqueues the task and answers.  Each request is served by *)
(* a goroutine of its own; the goroutines share the connection pool, the   *)
(* sequence of submission ids and the queue.                               *)
(*                                                                         *)
(* The failures, of which a model allows a set FaultKinds:                 *)
(*   statement   an INSERT or Begin fails     commit   Commit fails        *)
(*   ambiguous   Commit takes effect and reports an error                  *)
(*   enqueue     Redis does not take the task                              *)
(*   unheard     Redis takes the task, the answer is lost                  *)
(*   disconnect  the client goes away: the context of the request is       *)
(*               cancelled, and with it every later statement              *)
(*   crash       the API process dies                                      *)
(***************************************************************************)
EXTENDS Integers, FiniteSets

CONSTANTS Request,            \* the requests that are sent
          Body,               \* the bodies they may have
          MaxBatchTestCases,
          PoolSize,           \* connections of the pgx pool
          DefaultLimit,       \* of each limit in executionConfig.go,
          MaxLimit,           \* the default and the maximum
          FaultKinds, MaxFaults,
          NoBody, Absent, Unset

\* A body keeps of the request what the checks read.
Bodies == [mode     : {"single", "batch"},
           decodes  : BOOLEAN,                    \* it is JSON of the right type
           source   : {"empty", "fits", "large"},
           language : {"none", "unknown", "known"},  \* 0, no such row, a row
           limit    : Int \cup {Unset},           \* one of the optional limits
           tests    : Nat]                        \* 1 in single mode

ASSUME APIAssumption == /\ Body \subseteq Bodies
                        /\ \A b \in Body : b.mode = "single" => b.tests = 1
                        /\ MaxBatchTestCases \in Nat
                        /\ PoolSize \in Nat \ {0}
                        /\ DefaultLimit \in Int /\ MaxLimit \in Int
                        /\ 0 < DefaultLimit /\ DefaultLimit <= MaxLimit
                        /\ MaxFaults \in Nat
                        /\ IsFiniteSet(Request)
                        /\ NoBody \notin Body
                        /\ Unset \notin Int
                        /\ Absent \notin [by : Request, rows : SUBSET Nat, limit : Int]

VARIABLES at,         \* where the goroutine of each request is
          body,       \* what the request asks for
          cancelled,  \* its context is cancelled
          id,         \* the submission id its transaction drew, 0 before
          written,    \* the positions its transaction has inserted
          reply,      \* the status code it answered with, 0 before
          nextId,     \* the sequence of submissions.id
          subs,       \* the committed submissions
          queue,      \* how many tasks name each submission
          faults

vars == <<at, body, cancelled, id, written, reply, nextId, subs, queue, faults>>
local == <<body, cancelled, id, written, reply>>

Place == {"new", "begin", "insert", "rows", "commit", "label", "enqueue", "done", "lost"}

Id == 1 .. Cardinality(Request)

Init == /\ at = [r \in Request |-> "new"]
        /\ body = [r \in Request |-> NoBody]
        /\ cancelled = [r \in Request |-> FALSE]
        /\ id = [r \in Request |-> 0]
        /\ written = [r \in Request |-> {}]
        /\ reply = [r \in Request |-> 0]
        /\ nextId = 1
        /\ subs = [i \in Id |-> Absent]
        /\ queue = [i \in Id |-> 0]
        /\ faults = 0

----------------------------------------------------------------------------
Goto(r, p) == at' = [at EXCEPT ![r] = p]

Answer(r, code) == Goto(r, "done") /\ reply' = [reply EXCEPT ![r] = code]

Fault(kind) == /\ kind \in FaultKinds
               /\ faults < MaxFaults
               /\ faults' = faults + 1

\* A statement that uses the context of the request.
Works(r) == ~cancelled[r] /\ UNCHANGED faults
Fails(r, kind) == IF cancelled[r] THEN UNCHANGED faults ELSE Fault(kind)

\* The language is looked up before the transaction lets go of its connection.
HoldsTooLong(r) == at[r] \in {"insert", "rows", "commit", "label"}

\* A transaction has a connection of the pool from Begin to its end.
Holds(r) == at[r] \in {"insert", "rows", "commit"}

ConnFree == Cardinality({r \in Request : Holds(r)}) < PoolSize

Tests(r) == 1 .. body[r].tests

\* The maximum is not applied.
valOrDefaultUncapped(val) == IF val = Unset THEN DefaultLimit ELSE val

valOrDefault(val) == IF val = Unset THEN DefaultLimit
                     ELSE IF val > MaxLimit THEN MaxLimit
                     ELSE val

Submitted(r, positions) ==
  [by |-> r, rows |-> positions, limit |-> valOrDefault(body[r].limit)]

\* What a transaction that inserted these positions leaves when it commits.
Store(r, positions) == subs' = [subs EXCEPT ![id[r]] = Submitted(r, positions)]

\* The foreign key and the CHECKs of the table.
Accepted(b) == b.language = "known" /\ valOrDefault(b.limit) > 0

----------------------------------------------------------------------------
BadRequest(b) == \/ ~b.decodes
                 \/ b.source = "large"
                 \/ b.mode = "batch" /\ b.tests > MaxBatchTestCases

Invalid(b) == b.language = "none" \/ b.source = "empty" \/ b.tests = 0

\* The checks of the handler, then those of the service.
Receive(r, b) ==
  /\ at[r] = "new"
  /\ body' = [body EXCEPT ![r] = b]
  /\ \/ BadRequest(b) /\ Answer(r, 400)
     \/ ~BadRequest(b) /\ Invalid(b) /\ Answer(r, 422)
     \/ ~BadRequest(b) /\ ~Invalid(b) /\ Goto(r, "begin") /\ UNCHANGED reply
  /\ UNCHANGED <<cancelled, id, written, nextId, subs, queue, faults>>

Begin(r) ==
  /\ at[r] = "begin"
  /\ \/ Works(r) /\ ConnFree /\ Goto(r, "insert") /\ UNCHANGED reply
     \/ Fails(r, "statement") /\ Answer(r, 422)
  /\ UNCHANGED <<body, cancelled, id, written, nextId, subs, queue>>

\* The submission is inserted outside of the transaction.
InsertSubmissionOutside(r) ==
  /\ at[r] = "insert"
  /\ \/ /\ Accepted(body[r]) /\ Works(r)
        /\ id' = [id EXCEPT ![r] = nextId]
        /\ nextId' = nextId + 1
        /\ subs' = [subs EXCEPT ![nextId] = Submitted(r, {})]
        /\ Goto(r, "rows") /\ UNCHANGED reply
     \/ /\ \/ ~Accepted(body[r]) /\ UNCHANGED faults /\ nextId' = nextId + 1
           \/ Fails(r, "statement") /\ nextId' \in {nextId, nextId + 1}
        /\ Answer(r, 422)
        /\ UNCHANGED <<id, subs>>
  /\ UNCHANGED <<body, cancelled, written, queue>>

\* CreateSubmission.  A number is drawn for good, whatever becomes of the rest:
\* also by a row that the database refuses.
InsertSubmission(r) ==
  /\ at[r] = "insert"
  /\ \/ /\ Accepted(body[r]) /\ Works(r)
        /\ id' = [id EXCEPT ![r] = nextId]
        /\ nextId' = nextId + 1
        /\ Goto(r, "rows") /\ UNCHANGED reply
     \/ /\ \/ ~Accepted(body[r]) /\ UNCHANGED faults /\ nextId' = nextId + 1
           \/ Fails(r, "statement") /\ nextId' \in {nextId, nextId + 1}
        /\ Answer(r, 422)
        /\ UNCHANGED id
  /\ UNCHANGED <<body, cancelled, written, subs, queue>>

PositionFromZero(n) == n    \* the loop index itself

\* The position of the row that is inserted after n others.
Position(n) == n + 1

\* CreateTestCaseResult, once per test case.
InsertRow(r) ==
  LET n == Cardinality(written[r])
  IN /\ at[r] = "rows"
     /\ \/ /\ Works(r)
           /\ written' = [written EXCEPT ![r] = @ \cup {Position(n)}]
           /\ Goto(r, IF n + 1 = body[r].tests THEN "commit" ELSE "rows")
           /\ UNCHANGED reply
        \/ Fails(r, "statement") /\ Answer(r, 422) /\ UNCHANGED written
     /\ UNCHANGED <<body, cancelled, id, nextId, subs, queue>>

\* The error of Commit is not looked at.
CommitUnchecked(r) ==
  /\ at[r] = "commit"
  /\ \/ Works(r) /\ Store(r, written[r])
     \/ Fails(r, "commit") /\ UNCHANGED subs
     \/ ~cancelled[r] /\ Fault("ambiguous") /\ Store(r, written[r])
  /\ Goto(r, "label")
  /\ UNCHANGED <<local, nextId, queue>>

Commit(r) ==
  /\ at[r] = "commit"
  /\ \/ Works(r) /\ Store(r, written[r]) /\ Goto(r, "label") /\ UNCHANGED reply
     \/ Fails(r, "commit") /\ Answer(r, 422) /\ UNCHANGED subs
     \/ ~cancelled[r] /\ Fault("ambiguous") /\ Store(r, written[r]) /\ Answer(r, 422)
  /\ UNCHANGED <<body, cancelled, id, written, nextId, queue>>

\* Outside of the transaction: it needs a connection for a moment, and its
\* error only costs the label of a metric.
GetLanguage(r) ==
  /\ at[r] = "label"
  /\ ConnFree \/ cancelled[r]
  /\ Goto(r, "enqueue")
  /\ UNCHANGED <<local, nextId, subs, queue, faults>>

Push(r) == queue' = [queue EXCEPT ![id[r]] = @ + 1]

\* With the context of the request, as the statements before it.
EnqueueWithContext(r) ==
  /\ at[r] = "enqueue"
  /\ \/ Works(r) /\ Push(r) /\ Answer(r, 201)
     \/ Fails(r, "enqueue") /\ Answer(r, 422) /\ UNCHANGED queue
  /\ UNCHANGED <<body, cancelled, id, written, nextId, subs>>

\* The error is counted, and the id returned all the same.
EnqueueUnchecked(r) ==
  /\ at[r] = "enqueue"
  /\ \/ Push(r) /\ UNCHANGED faults
     \/ Fault("enqueue") /\ UNCHANGED queue
  /\ Answer(r, 201)
  /\ UNCHANGED <<body, cancelled, id, written, nextId, subs>>

\* EnqueueSubmission does not use the context of the request, except for the
\* trace it carries along.
Enqueue(r) ==
  /\ at[r] = "enqueue"
  /\ \/ Push(r) /\ Answer(r, 201) /\ UNCHANGED faults
     \/ Fault("enqueue") /\ Answer(r, 422) /\ UNCHANGED queue
     \/ Fault("unheard") /\ Push(r) /\ Answer(r, 422)
  /\ UNCHANGED <<body, cancelled, id, written, nextId, subs>>

InFlight(r) == at[r] \notin {"new", "done", "lost"}

Disconnect(r) ==
  /\ InFlight(r) /\ ~cancelled[r] /\ Fault("disconnect")
  /\ cancelled' = [cancelled EXCEPT ![r] = TRUE]
  /\ UNCHANGED <<at, body, id, written, reply, nextId, subs, queue>>

\* Open transactions are rolled back; the requests get no answer.
Crash ==
  /\ Fault("crash")
  /\ at' = [r \in Request |-> IF InFlight(r) THEN "lost" ELSE at[r]]
  /\ UNCHANGED <<local, nextId, subs, queue>>

Step(r) == \/ Begin(r) \/ InsertSubmission(r) \/ InsertRow(r) \/ Commit(r)
           \/ GetLanguage(r) \/ Enqueue(r)

Next == \/ \E r \in Request : Step(r) \/ Disconnect(r) \/ \E b \in Body : Receive(r, b)
        \/ Crash

Spec == Init /\ [][Next]_vars

\* Every goroutine is scheduled, and one that waits for a connection gets one
\* that is free again and again.
FairSpec == Spec /\ \A r \in Request : SF_vars(Step(r))

----------------------------------------------------------------------------
TypeOK ==
  /\ at \in [Request -> Place]
  /\ body \in [Request -> Body \cup {NoBody}]
  /\ cancelled \in [Request -> BOOLEAN]
  /\ id \in [Request -> Nat]
  /\ written \in [Request -> SUBSET Nat]
  /\ \A r \in Request : written[r] # {} => written[r] \subseteq Tests(r)
  /\ reply \in [Request -> {0, 201, 400, 422}]
  /\ nextId \in Nat
  /\ subs \in [Id -> [by : Request, rows : SUBSET Nat, limit : Int] \cup {Absent}]
  /\ queue \in [Id -> Nat]
  /\ faults \in 0..MaxFaults

\* A submission is committed with one row for each test case of its request,
\* or not at all: neither a failed insert nor a crash leaves a part of it.
AllOrNothing == \A i \in Id : subs[i] # Absent => subs[i].rows = Tests(subs[i].by)

\* A worker that takes a task finds its submission: no task is enqueued
\* before, or without, the commit of the rows it names.
QueuedIsCommitted == \A i \in Id : queue[i] > 0 => subs[i] # Absent

\* An id that was returned to a client belongs to its own submission, which
\* has exactly one task.
CreatedIsQueued ==
  \A r \in Request : reply[r] = 201 =>
    /\ id[r] \in Id /\ subs[id[r]] # Absent
    /\ subs[id[r]].by = r /\ queue[id[r]] = 1

\* A client that goes away does not leave a submission that is never queued:
\* each submission whose request was answered and that no task names is paid
\* for by a fault of its own, other than a disconnect.
Orphans == {i \in Id : subs[i] # Absent /\ at[subs[i].by] = "done" /\ queue[i] = 0}
NoOrphan == Cardinality(Orphans) + Cardinality({r \in Request : cancelled[r]}) <= faults

\* A stored submission runs within the server's bounds, and with the limit its
\* client asked for if that is within them: what valOrDefault lets through
\* (zero, negative numbers) the constraints of the table stop.
WithinLimits ==
  \A i \in Id : subs[i] # Absent =>
    LET asked == body[subs[i].by].limit
    IN /\ subs[i].limit \in 1..MaxLimit
       /\ asked \in 1..MaxLimit => subs[i].limit = asked

\* Requests that wait for each other's connections never wait for ever.
Answered == \A r \in Request : InFlight(r) ~> ~InFlight(r)
============================================================================
