------------------------------- MODULE Exec0 -------------------------------
(***************************************************************************)
(* The whole judge: clients post submissions to the API (SubmissionAPI),   *)
(* which shares with the workers (Execution) the queue in Redis and the    *)
(* rows in Postgres; a client whose request was answered with 201 polls    *)
(* GET /submissions/{id} until the status is final.  The handler of GET    *)
(* reads the submission and then its test cases in two statements without  *)
(* a transaction, so that a worker may write in between.                   *)
(***************************************************************************)
EXTENDS Execution

CONSTANTS Request, Body, MaxBatchTestCases, PoolSize, DefaultLimit, MaxLimit,
          APIFaultKinds, MaxAPIFaults, NoBody, Absent, Unset,
          Client,       \* the requests whose clients poll
          MaxReadFaults \* how many of their reads fail

VARIABLES at, body, cancelled, id, written, reply, nextId, subs, apiFaults,
          reads,        \* how many of its statements each GET has made
          shown,        \* the status and the results it has read
          polled,       \* the client has its answer
          readFaults    \* number of reads that failed so far

\* The queue of SubmissionAPI is that of TaskQueue: EnqueueSubmission is what
\* takes a task out of "none".
Tasks == [s \in Submission |-> IF task[s] = "none" THEN 0 ELSE 1]

API == INSTANCE SubmissionAPI WITH
         FaultKinds <- APIFaultKinds,
         MaxFaults  <- MaxAPIFaults,
         faults     <- apiFaults,
         queue      <- Tasks

\* What SubmissionAPI assumes of its constants.
ASSUME IntakeAssumption ==
  /\ Body \subseteq API!Bodies
  /\ \A b \in Body : b.mode = "single" => b.tests = 1
  /\ MaxBatchTestCases \in Nat
  /\ PoolSize \in Nat \ {0}
  /\ DefaultLimit \in Int /\ MaxLimit \in Int
  /\ 0 < DefaultLimit /\ DefaultLimit <= MaxLimit
  /\ MaxAPIFaults \in Nat
  /\ IsFiniteSet(Request)
  /\ NoBody \notin Body
  /\ Unset \notin Int
  /\ Absent \notin [by : Request, rows : SUBSET Nat, limit : Int]

\* The rows of a submission are those of the request that draws its id.
ASSUME JourneyAssumption ==
  /\ MaxReadFaults \in Nat
  /\ Submission = 1 .. Cardinality(Request)
  /\ Client \subseteq Request
  /\ \A b \in Body, s \in Submission : b.mode = Mode[s] /\ b.tests = NumTests[s]

apiVars == <<at, body, cancelled, id, written, reply, nextId, subs, apiFaults>>
pollVars == <<reads, shown, polled, readFaults>>
allVars == <<task, retried, status, rows, pc, job, attached, tc, found, overall,
             tries, boxes, left, faults, at, body, cancelled, id, written, reply, nextId,
             subs, apiFaults, reads, shown, polled, readFaults>>

\* A response of which nothing has been read.
Unread == [status |-> "pending", rows |-> <<>>]

JourneyInit == /\ Init
               /\ API!Init
               /\ reads = [c \in Client |-> 0]
               /\ shown = [c \in Client |-> Unread]
               /\ polled = [c \in Client |-> FALSE]
               /\ readFaults = 0

----------------------------------------------------------------------------
\* A step of the request in the API, and its task when that is pushed.
Intake(r) == /\ \/ at[r] = "enqueue" /\ Enqueue(id[r])
                \/ UNCHANGED vars
             /\ API!Step(r)
             /\ UNCHANGED pollVars

\* What clients and the process of the API do on their own.
Outside == /\ UNCHANGED <<vars, pollVars>>
           /\ \/ \E r \in Request, b \in Body : API!Receive(r, b)
              \/ \E r \in Request : API!Disconnect(r)
              \/ API!Crash

\* The queue and the workers.
Judge == /\ \/ \E s \in Submission : Forward(s) \/ Recover(s)
            \/ \E h \in Handler, s \in Submission : Start(h, s)
            \/ \E h \in Handler : Step(h) \/ Interrupt(h)
            \/ \E w \in Worker : Crash(w)
         /\ UNCHANGED <<apiVars, pollVars>>

Polls(c) == reply[c] = 201 /\ ~polled[c]

ReadsRowsFirst == <<"test_cases", "submission">>

\* The statements of the handler, in their order.
Reads == <<"submission", "test_cases">>

\* A statement that fails ends the response with 404 or 500: poll again.
Get(c) ==
  /\ Polls(c) /\ reads[c] < 2
  /\ \/ /\ reads' = [reads EXCEPT ![c] = @ + 1]
        /\ shown' = IF Reads[reads[c] + 1] = "submission"
                    THEN [shown EXCEPT ![c].status = status[id[c]]]
                    ELSE [shown EXCEPT ![c].rows = rows[id[c]]]
        /\ UNCHANGED readFaults
     \/ /\ readFaults < MaxReadFaults /\ readFaults' = readFaults + 1
        /\ reads' = [reads EXCEPT ![c] = 0] /\ shown' = [shown EXCEPT ![c] = Unread]
  /\ UNCHANGED <<polled, vars, apiVars>>

\* The client looks at the response.
Look(c) ==
  /\ Polls(c) /\ reads[c] = 2
  /\ IF shown[c].status \in InProgress
     THEN /\ reads' = [reads EXCEPT ![c] = 0] /\ shown' = [shown EXCEPT ![c] = Unread]
          /\ UNCHANGED polled
     ELSE polled' = [polled EXCEPT ![c] = TRUE] /\ UNCHANGED <<reads, shown>>
  /\ UNCHANGED <<readFaults, vars, apiVars>>

JourneyNext == \/ \E r \in Request : Intake(r)
               \/ Outside
               \/ Judge
               \/ \E c \in Client : Get(c) \/ Look(c)

Journey == JourneyInit /\ [][JourneyNext]_allVars

\* The fairness of the worker and the queue, and clients that go on polling.
\* Nothing is asked of other requests.
FairJourney == /\ Journey
               /\ Fairness
               /\ \A c \in Client : WF_allVars(Get(c)) /\ WF_allVars(Look(c))

----------------------------------------------------------------------------
\* Whatever becomes of the request, a worker that executes a submission finds
\* it committed, with the rows of all its test cases.
FoundComplete ==
  \A h \in Handler : job[h] # NoJob =>
    subs[job[h]] # Absent /\ subs[job[h]].rows = DOMAIN rows[job[h]]

\* A response that ends the polling is complete and agrees with itself, even
\* though the worker writes between its two statements: every test case has
\* its result and the status is the one they add up to.  internal_error is
\* left out: the ErrorHandler writes it whatever the test cases are at.
\* Holds while no attempt is lost, since a later attempt rewrites the results,
\* and every updateTestCaseResult succeeds.
ResponseAgrees ==
  \A c \in Client : polled[c] /\ shown[c].status # "internal_error" =>
    /\ shown[c].status \in {shown[c].rows[i] : i \in DOMAIN shown[c].rows}
    /\ \A i \in DOMAIN shown[c].rows :
         /\ shown[c].rows[i] \in Terminal
         /\ shown[c].status = "accepted" => shown[c].rows[i] = "accepted"

\* The answer the client stops polling at is the last word: the database keeps
\* saying the same of the client's own submission.  Holds while no attempt is
\* lost.
AnswerStands ==
  \A c \in Client : polled[c] =>
    /\ subs[id[c]].by = c
    /\ status[id[c]] = shown[c].status /\ rows[id[c]] = shown[c].rows

\* A client whose POST was answered with 201 gets its answer, whatever happens
\* to other requests and be it that all the retries fail.  Holds while no
\* attempt is lost outside of the ErrorHandler and its CompleteSubmission
\* succeeds.
GetsAnswer == \A c \in Client : reply[c] = 201 ~> polled[c]
============================================================================
