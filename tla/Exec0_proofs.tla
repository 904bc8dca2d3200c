---------------------------- MODULE Exec0_proofs ----------------------------
(***************************************************************************)
(* Theorems about the whole judge, for every number of requests, clients,  *)
(* goroutines and workers: the journey implements both of its components,  *)
(* so that what is proved of them holds in it, and what the client reads   *)
(* is the verdict.                                                         *)
(***************************************************************************)
EXTENDS Exec0, ExecutionVerdict_proofs

\* What is proved of SubmissionAPI, for the API of the journey.
AP == INSTANCE SubmissionAPI_proofs WITH
        FaultKinds <- APIFaultKinds,
        MaxFaults  <- MaxAPIFaults,
        faults     <- apiFaults,
        queue      <- Tasks

----------------------------------------------------------------------------
(* The two instances of SubmissionAPI, in Exec0 and here, are the same.    *)

LEMMA SameCardinality ==
  ASSUME NEW S
  PROVE  /\ AP!Cardinality(S) = Cardinality(S) /\ API!Cardinality(S) = Cardinality(S)
         /\ AP!IsFiniteSet(S) = IsFiniteSet(S)
BY DEF AP!Cardinality, API!Cardinality, Cardinality, AP!IsFiniteSet, IsFiniteSet

LEMMA IntakeParameters ==
  /\ Body \subseteq AP!Bodies
  /\ \A b \in Body : b.mode = "single" => b.tests = 1
  /\ MaxBatchTestCases \in Nat
  /\ PoolSize \in Nat \ {0}
  /\ DefaultLimit \in Int /\ MaxLimit \in Int
  /\ 0 < DefaultLimit /\ DefaultLimit <= MaxLimit
  /\ MaxAPIFaults \in Nat
  /\ AP!IsFiniteSet(Request)
  /\ NoBody \notin Body
  /\ Unset \notin Int
  /\ Absent \notin [by : Request, rows : SUBSET Nat, limit : Int]
<1>1. Body \subseteq AP!Bodies
  BY IntakeAssumption DEF API!Bodies, AP!Bodies
<1>2. AP!IsFiniteSet(Request)
  BY IntakeAssumption, SameCardinality
<1> QED BY <1>1, <1>2, IntakeAssumption

LEMMA SameInit == API!Init <=> AP!Init
BY SameCardinality DEF API!Init, AP!Init, API!Id, AP!Id

LEMMA SameStep ==
  ASSUME NEW r \in Request
  PROVE  API!Step(r) <=> AP!Step(r)
<1> USE DEF API!Goto, AP!Goto, API!Answer, AP!Answer, API!Works, AP!Works, API!Fails, AP!Fails,
            API!Fault, AP!Fault, API!Cardinality, AP!Cardinality, API!local, AP!local
<1>1. API!Begin(r) <=> AP!Begin(r)
  BY DEF API!Begin, AP!Begin, API!ConnFree, AP!ConnFree, API!Holds, AP!Holds
<1>2. API!InsertSubmission(r) <=> AP!InsertSubmission(r)
  BY DEF API!InsertSubmission, AP!InsertSubmission, API!Accepted, AP!Accepted,
         API!valOrDefault, AP!valOrDefault
<1>3. API!InsertRow(r) <=> AP!InsertRow(r)
  BY DEF API!InsertRow, AP!InsertRow, API!Position, AP!Position
<1>4. API!Commit(r) <=> AP!Commit(r)
  BY DEF API!Commit, AP!Commit, API!Store, AP!Store, API!Submitted, AP!Submitted,
         API!valOrDefault, AP!valOrDefault
<1>5. API!GetLanguage(r) <=> AP!GetLanguage(r)
  BY DEF API!GetLanguage, AP!GetLanguage, API!ConnFree, AP!ConnFree, API!Holds, AP!Holds
<1>6. API!Enqueue(r) <=> AP!Enqueue(r)
  BY DEF API!Enqueue, AP!Enqueue, API!Push, AP!Push
<1> QED BY <1>1, <1>2, <1>3, <1>4, <1>5, <1>6 DEF API!Step, AP!Step

LEMMA SameOutside ==
  /\ \A r \in Request, b \in Body : API!Receive(r, b) <=> AP!Receive(r, b)
  /\ \A r \in Request : API!Disconnect(r) <=> AP!Disconnect(r)
  /\ API!Crash <=> AP!Crash
<1>1. ASSUME NEW r \in Request, NEW b \in Body PROVE API!Receive(r, b) <=> AP!Receive(r, b)
  BY DEF API!Receive, AP!Receive, API!Goto, AP!Goto, API!Answer, AP!Answer,
         API!BadRequest, AP!BadRequest, API!Invalid, AP!Invalid
<1>2. ASSUME NEW r \in Request PROVE API!Disconnect(r) <=> AP!Disconnect(r)
  BY DEF API!Disconnect, AP!Disconnect, API!InFlight, AP!InFlight, API!Fault, AP!Fault
<1>3. API!Crash <=> AP!Crash
  BY DEF API!Crash, AP!Crash, API!InFlight, AP!InFlight, API!Fault, AP!Fault, API!local, AP!local
<1> QED BY <1>1, <1>2, <1>3

LEMMA SameNext == API!Next <=> AP!Next
BY SameStep, SameOutside DEF API!Next, AP!Next

----------------------------------------------------------------------------
(* The journey implements its components.                                  *)

LEMMA SameIds == AP!Id = Submission
BY JourneyAssumption, SameCardinality DEF AP!Id

\* The queue as SubmissionAPI sees it moves only when a task is enqueued.
LEMMA JudgeKeepsTasks ==
  ASSUME IInv, Judge
  PROVE  Tasks' = Tasks
<1> SUFFICES ASSUME NEW s \in Submission PROVE task'[s] = "none" <=> task[s] = "none"
  BY DEF Tasks
<1>1. ASSUME NEW r \in Submission, Forward(r) \/ Recover(r)
      PROVE  task'[s] = "none" <=> task[s] = "none"
  BY <1>1, Types DEF Forward, Recover, ForwardTask, FailTask, Move
<1>2. ASSUME NEW h \in Handler, NEW r \in Submission, Start(h, r)
      PROVE  task'[s] = "none" <=> task[s] = "none"
  BY <1>2, Types DEF Start, Dequeue, Move
<1>3. ASSUME NEW h \in Handler, ExecuteStep(h) PROVE task'[s] = "none" <=> task[s] = "none"
  BY <1>3, Footprint DEF IInv
<1>4. ASSUME NEW h \in Handler,
             Acknowledge(h) \/ HandleError(h) \/ GiveBack(h) \/ Vanish(h) \/ Interrupt(h)
      PROVE  task'[s] = "none" <=> task[s] = "none"
  BY <1>4, Types
     DEF Acknowledge, HandleError, GiveBack, Vanish, Interrupt, TimeOut, LoseLease, Shutdown,
         AckTask, FailTask, RequeueTask, Move, queueVars
<1>5. ASSUME NEW w \in Worker, Crash(w) PROVE task'[s] = "none" <=> task[s] = "none"
  BY <1>5 DEF Crash, queueVars
<1> QED BY <1>1, <1>2, <1>3, <1>4, <1>5 DEF Judge, Step, ExecuteStep

\* What a step of the journey is to the workers and to the API.
LEMMA StepOfBoth ==
  ASSUME IInv, AP!IInv, [JourneyNext]_allVars
  PROVE  [Next]_vars /\ [AP!Next]_AP!vars
<1>1. UNCHANGED vars => UNCHANGED Tasks
  BY DEF vars, Tasks
<1>2. ASSUME UNCHANGED vars, UNCHANGED apiVars PROVE [Next]_vars /\ [AP!Next]_AP!vars
  BY <1>1, <1>2 DEF apiVars, AP!vars
<1>3. ASSUME NEW r \in Request, Intake(r) PROVE [Next]_vars /\ [AP!Next]_AP!vars
  <2>1. AP!Next
    BY <1>3, SameStep DEF Intake, AP!Next
  <2>2. ASSUME at[r] = "enqueue", Enqueue(id[r]) PROVE Next
    <3>1. id[r] # 0
      BY <2>2 DEF AP!IInv, AP!Mine
    <3>2. id[r] \in Submission
      BY <3>1, AP!OwnId, IntakeParameters, SameIds
    <3> QED BY <2>2, <3>2 DEF Next
  <2> QED BY <1>3, <2>1, <2>2 DEF Intake
<1>4. CASE Outside
  BY <1>4, SameOutside DEF Outside, AP!Next
<1>5. CASE Judge
  <2>1. Next
    BY <1>5 DEF Judge, Next
  <2>2. UNCHANGED AP!vars
    BY <1>5, JudgeKeepsTasks DEF Judge, apiVars, AP!vars
  <2> QED BY <2>1, <2>2
<1>6. ASSUME NEW c \in Client, Get(c) \/ Look(c) PROVE [Next]_vars /\ [AP!Next]_AP!vars
  BY <1>2, <1>6 DEF Get, Look
<1>7. CASE UNCHANGED allVars
  BY <1>2, <1>7 DEF allVars, vars, apiVars
<1> QED BY <1>3, <1>4, <1>5, <1>6, <1>7 DEF JourneyNext

LEMMA JourneyInvariance == Journey => [](IInv /\ AP!IInv)
<1>1. JourneyInit => IInv /\ AP!IInv
  BY InitInv, SameInit, AP!InitInv, IntakeParameters DEF JourneyInit
<1>2. IInv /\ AP!IInv /\ [JourneyNext]_allVars => (IInv /\ AP!IInv)'
  BY StepOfBoth, NextInv, AP!NextInv, IntakeParameters
<1> QED BY <1>1, <1>2, PTL DEF Journey

\* Every behaviour of the journey is one of the workers: whatever Execution
\* promises for all its behaviours holds with requests and clients around it.
THEOREM JourneyRunsWorkers == Journey => Spec
<1>1. JourneyInit => Init
  BY DEF JourneyInit
<1>2. IInv /\ AP!IInv /\ [JourneyNext]_allVars => [Next]_vars
  BY StepOfBoth
<1> QED BY <1>1, <1>2, JourneyInvariance, PTL DEF Journey, Spec

\* Every behaviour of the journey is one of the API on its own: to the
\* requests, workers and clients are invisible.
THEOREM JourneyRunsAPI == Journey => API!Spec
<1>1. JourneyInit => API!Init
  BY DEF JourneyInit
<1>2. AP!vars = API!vars
  BY DEF AP!vars, API!vars
<1>3. IInv /\ AP!IInv /\ [JourneyNext]_allVars => [API!Next]_API!vars
  BY <1>2, StepOfBoth, SameNext DEF AP!vars, API!vars
<1> QED BY <1>1, <1>3, JourneyInvariance, PTL DEF Journey, API!Spec

----------------------------------------------------------------------------
(* What a worker finds.                                                    *)

\* Only tasks that were enqueued are executed.
Taken == \A h \in Handler : job[h] # NoJob => job[h] \in Submission /\ task[job[h]] # "none"

\* A task that was enqueued is never taken back.
LEMMA TasksStay ==
  ASSUME IInv, [JourneyNext]_allVars, NEW s \in Submission, task[s] # "none"
  PROVE  task'[s] # "none"
<1>1. CASE UNCHANGED task
  BY <1>1
<1>2. ASSUME NEW r \in Request, Intake(r) PROVE task'[s] # "none"
  BY <1>1, <1>2, Types DEF Intake, vars, Enqueue, EnqueueTask, Move
<1>3. CASE Outside \/ \E c \in Client : Get(c) \/ Look(c)
  BY <1>1, <1>3 DEF Outside, Get, Look, vars
<1>4. CASE Judge
  <2>1. Tasks'[s] = Tasks[s]
    BY <1>4, JudgeKeepsTasks
  <2> QED BY <2>1 DEF Tasks
<1>5. CASE UNCHANGED allVars
  BY <1>1, <1>5 DEF allVars
<1> QED BY <1>2, <1>3, <1>4, <1>5 DEF JourneyNext

LEMMA NextKeepsTaken ==
  ASSUME IInv, Taken, [JourneyNext]_allVars, [Next]_vars
  PROVE  Taken'
<1> SUFFICES ASSUME NEW g \in Handler, job'[g] # NoJob
             PROVE  job'[g] \in Submission /\ task'[job'[g]] # "none"
  BY DEF Taken
<1>1. CASE job'[g] = job[g]
  BY <1>1, TasksStay DEF Taken
<1>2. ASSUME NEW h \in Handler, NEW s \in Submission, Start(h, s)
      PROVE  job'[g] \in Submission /\ task'[job'[g]] # "none"
  <2>1. task'[s] = "active" /\ job' = [job EXCEPT ![h] = s]
    BY <1>2, Types DEF Start, Dequeue, Move
  <2> QED BY <1>1, <2>1, Types
<1>3. ASSUME NEW s \in Submission, Enqueue(s) \/ Forward(s) \/ Recover(s) PROVE job' = job
  BY <1>3 DEF Enqueue, Forward, Recover
<1>4. ASSUME NEW h \in Handler, Step(h) PROVE job'[g] \in {job[g], NoJob}
  <2>1. CASE ExecuteStep(h)
    BY <2>1, Footprint DEF IInv
  <2>2. CASE Acknowledge(h) \/ HandleError(h) \/ GiveBack(h) \/ Vanish(h)
    BY <2>2, Types DEF Acknowledge, HandleError, GiveBack, Vanish, Leave
  <2> QED BY <1>4, <2>1, <2>2 DEF Step, ExecuteStep
<1>5. ASSUME NEW h \in Handler, Interrupt(h) PROVE job' = job
  BY <1>5 DEF Interrupt, TimeOut, LoseLease, Shutdown, Detach
<1>6. ASSUME NEW w \in Worker, Crash(w) PROVE job'[g] \in {job[g], NoJob}
  BY <1>6 DEF Crash, Reset
<1>7. CASE UNCHANGED vars
  BY <1>1, <1>7 DEF vars
<1> QED BY <1>1, <1>2, <1>3, <1>4, <1>5, <1>6, <1>7 DEF Next

\* A task that is executed names a committed submission, which has the rows of
\* the request that drew its id.
LEMMA TakenIsComplete ==
  ASSUME IInv, AP!IInv, Taken
  PROVE  FoundComplete
<1> SUFFICES ASSUME NEW h \in Handler, job[h] # NoJob
             PROVE  subs[job[h]] # Absent /\ subs[job[h]].rows = DOMAIN rows[job[h]]
  BY DEF FoundComplete
<1> DEFINE s == job[h]
<1>1. s \in Submission /\ s \in AP!Id /\ Tasks[s] > 0
  BY SameIds DEF Taken, Tasks
<1>2. AP!TypeOK /\ AP!Stored(s) /\ AP!Queued(s)
  BY <1>1 DEF AP!IInv
<1>3. subs[s] # Absent /\ at[subs[s].by] = "done"
  BY <1>1, <1>2 DEF AP!Queued
<1> DEFINE r == subs[s].by
<1>4. r \in Request
  BY <1>1, <1>2, <1>3 DEF AP!TypeOK
<1>5. subs[s].rows = 1 .. body[r].tests
  BY <1>2, <1>3 DEF AP!Stored, AP!Tests
<1>6. body[r] \in Body
  BY <1>3, <1>4 DEF AP!IInv, AP!Mine
<1>7. body[r].tests = NumTests[s]
  BY <1>1, <1>6, JourneyAssumption
<1>8. DOMAIN rows[s] = 1 .. NumTests[s]
  BY <1>1 DEF IInv, TypeOK, DbTypeOK
<1> QED BY <1>3, <1>5, <1>7, <1>8

\* Whatever becomes of requests, processes, statements and attempts, a worker
\* never executes a submission that is not there as a whole.
THEOREM WorkersFindAll == Journey => []FoundComplete
<1>1. JourneyInit => Taken
  BY DEF JourneyInit, Init, Taken
<1>2. IInv /\ AP!IInv /\ Taken /\ [JourneyNext]_allVars => Taken'
  BY StepOfBoth, NextKeepsTaken
<1>3. IInv /\ AP!IInv /\ Taken => FoundComplete
  BY TakenIsComplete
<1> QED BY <1>1, <1>2, <1>3, JourneyInvariance, PTL DEF Journey

----------------------------------------------------------------------------
(* What a client reads.                                                    *)

\* No attempt is lost, and no CompleteSubmission is done that reports an error.
Reliable == NothingLost /\ "ambiguous" \notin FaultKinds

\* The workers' side: a terminal status is the last word.
LastWord == Kept /\ VerdictIsLast

Results == {<<>>} \cup UNION {[1..NumTests[s] -> Status] : s \in Submission}

PollTypeOK == /\ reads \in [Client -> 0..2]
              /\ shown \in [Client -> [status : Status, rows : Results]]
              /\ polled \in [Client -> BOOLEAN]

\* What a GET that found a terminal status has read stands.
ReadStands(c) ==
  /\ reads[c] >= 1 => reply[c] = 201
  /\ reads[c] >= 1 /\ shown[c].status \in Terminal => status[id[c]] = shown[c].status
  /\ reads[c] = 2 /\ shown[c].status \in Terminal => rows[id[c]] = shown[c].rows
  /\ polled[c] => reads[c] = 2 /\ shown[c].status \in Terminal

PollInv == PollTypeOK /\ \A c \in Client : ReadStands(c)

LEMMA LastWordStays ==
  ASSUME Reliable, IInv, LastWord, [Next]_vars
  PROVE  LastWord'
BY NextKeepsKept, NextKeepsLast DEF Reliable, LastWord

\* A request that was answered with 201 keeps its answer and its id.
LEMMA AnswerKept ==
  ASSUME AP!IInv, [AP!Next]_AP!vars, NEW r \in Request, reply[r] = 201
  PROVE  reply'[r] = 201 /\ id'[r] = id[r] /\ id[r] \in Submission
<1>0. at[r] = "done" /\ id[r] # 0
  BY DEF AP!IInv, AP!Mine
<1>1. id[r] \in Submission
  BY <1>0, AP!OwnId, IntakeParameters, SameIds
<1>2. AP!TypeOK
  BY DEF AP!IInv
<1> USE DEF AP!Goto, AP!Answer, AP!local
<1>3. ASSUME NEW q \in Request, AP!Step(q) PROVE reply'[r] = 201 /\ id'[r] = id[r]
  BY <1>0, <1>2, <1>3
     DEF AP!Step, AP!Begin, AP!InsertSubmission, AP!InsertRow, AP!Commit, AP!GetLanguage,
         AP!Enqueue, AP!TypeOK
<1>4. ASSUME NEW q \in Request, NEW b \in Body, AP!Receive(q, b)
      PROVE  reply'[r] = 201 /\ id'[r] = id[r]
  BY <1>0, <1>2, <1>4 DEF AP!Receive, AP!TypeOK
<1>5. ASSUME (\E q \in Request : AP!Disconnect(q)) \/ AP!Crash
      PROVE  reply'[r] = 201 /\ id'[r] = id[r]
  BY <1>5 DEF AP!Disconnect, AP!Crash
<1>6. CASE UNCHANGED AP!vars
  BY <1>1, <1>6 DEF AP!vars
<1> QED BY <1>1, <1>3, <1>4, <1>5, <1>6 DEF AP!Next

\* What a request has read stands while it does not read on.
LEMMA ReadStandsKept ==
  ASSUME Reliable, IInv, AP!IInv, LastWord, [Next]_vars, [AP!Next]_AP!vars,
         NEW c \in Client, ReadStands(c), reads[c] \in 0..2,
         reads'[c] = reads[c], shown'[c] = shown[c], polled'[c] = polled[c]
  PROVE  ReadStands(c)'
<1>1. c \in Request
  BY JourneyAssumption
<1>2. CASE reads[c] = 0
  BY <1>2 DEF ReadStands
<1>3. CASE reads[c] >= 1
  <2>1. reply'[c] = 201 /\ id'[c] = id[c] /\ id[c] \in Submission
    BY <1>1, <1>3, AnswerKept DEF ReadStands
  <2>2. status[id[c]] \in Terminal =>
          status'[id[c]] = status[id[c]] /\ rows'[id[c]] = rows[id[c]]
    BY <2>1, TerminalStays DEF Reliable, LastWord
  <2> QED BY <1>3, <2>1, <2>2 DEF ReadStands
<1> QED BY <1>2, <1>3

\* Clients that read leave everything but their own response alone.
LEMMA GetKeepsPoll ==
  ASSUME IInv, AP!IInv, PollInv, NEW c \in Client, Get(c)
  PROVE  /\ PollTypeOK' /\ ReadStands(c)'
         /\ \A d \in Client : d # c => /\ reads'[d] = reads[d] /\ shown'[d] = shown[d]
                                       /\ polled'[d] = polled[d]
<1> DEFINE s == id[c]
<1>1. /\ reply[c] = 201 /\ ~polled[c] /\ reads[c] \in {0, 1}
      /\ UNCHANGED <<polled, status, rows, id, reply>>
  BY DEF Get, Polls, PollInv, PollTypeOK, vars, apiVars
<1>2. s \in Submission
  BY <1>1, JourneyAssumption, AP!OwnId, IntakeParameters, SameIds DEF AP!IInv, AP!Mine
<1>3. status[s] \in Status /\ rows[s] \in Results
  BY <1>2 DEF Results, IInv, TypeOK, DbTypeOK
<1>4. PollTypeOK
  BY DEF PollInv
<1>5. CASE reads[c] = 0 /\ reads' = [reads EXCEPT ![c] = 1]
           /\ shown' = [shown EXCEPT ![c].status = status[s]]
  BY <1>1, <1>3, <1>4, <1>5 DEF PollTypeOK, ReadStands
<1>6. CASE reads[c] = 1 /\ reads' = [reads EXCEPT ![c] = 2]
           /\ shown' = [shown EXCEPT ![c].rows = rows[s]]
  BY <1>1, <1>3, <1>4, <1>6 DEF PollInv, PollTypeOK, ReadStands
<1>7. CASE reads' = [reads EXCEPT ![c] = 0] /\ shown' = [shown EXCEPT ![c] = Unread]
  <2>1. Unread \in [status : Status, rows : Results]
    BY DEF Unread, Results, Status, InProgress
  <2> QED BY <1>1, <1>4, <1>7, <2>1 DEF PollTypeOK, ReadStands
<1> QED BY <1>1, <1>5, <1>6, <1>7 DEF Get, Reads

LEMMA LookKeepsPoll ==
  ASSUME PollInv, NEW c \in Client, Look(c)
  PROVE  /\ PollTypeOK' /\ ReadStands(c)'
         /\ \A d \in Client : d # c => /\ reads'[d] = reads[d] /\ shown'[d] = shown[d]
                                       /\ polled'[d] = polled[d]
<1>1. reads[c] = 2 /\ ~polled[c] /\ UNCHANGED <<status, rows, id, reply>>
  BY DEF Look, Polls, vars, apiVars
<1>2. PollTypeOK /\ ReadStands(c)
  BY DEF PollInv
<1>3. CASE reads' = [reads EXCEPT ![c] = 0] /\ shown' = [shown EXCEPT ![c] = Unread]
           /\ UNCHANGED polled
  <2>1. Unread \in [status : Status, rows : Results]
    BY DEF Unread, Results, Status, InProgress
  <2> QED BY <1>1, <1>2, <1>3, <2>1 DEF PollTypeOK, ReadStands
<1>4. CASE shown[c].status \notin InProgress /\ polled' = [polled EXCEPT ![c] = TRUE]
           /\ UNCHANGED <<reads, shown>>
  <2>1. shown[c].status \in Terminal
    BY <1>2, <1>4 DEF PollTypeOK, Status
  <2> QED BY <1>1, <1>2, <1>4, <2>1 DEF PollTypeOK, ReadStands
<1> QED BY <1>3, <1>4 DEF Look

LEMMA NextKeepsPoll ==
  ASSUME Reliable, IInv, AP!IInv, LastWord, PollInv, [JourneyNext]_allVars
  PROVE  PollInv'
<1>1. [Next]_vars /\ [AP!Next]_AP!vars
  BY StepOfBoth
<1>2. CASE UNCHANGED <<reads, shown, polled>>
  <2>1. PollTypeOK'
    BY <1>2 DEF PollInv, PollTypeOK
  <2>2. ASSUME NEW c \in Client PROVE ReadStands(c)'
    BY <1>1, <1>2, ReadStandsKept DEF PollInv, PollTypeOK
  <2> QED BY <2>1, <2>2 DEF PollInv
<1>3. ASSUME NEW c \in Client, Get(c) \/ Look(c) PROVE PollInv'
  <2>1. /\ PollTypeOK' /\ ReadStands(c)'
        /\ \A d \in Client : d # c => /\ reads'[d] = reads[d] /\ shown'[d] = shown[d]
                                      /\ polled'[d] = polled[d]
    BY <1>3, GetKeepsPoll, LookKeepsPoll
  <2>2. ASSUME NEW d \in Client, d # c PROVE ReadStands(d)'
    BY <1>1, <2>1, <2>2, ReadStandsKept DEF PollInv, PollTypeOK
  <2> QED BY <2>1, <2>2 DEF PollInv
<1>4. Outside \/ Judge \/ (\E r \in Request : Intake(r)) \/ UNCHANGED allVars
      => UNCHANGED <<reads, shown, polled>>
  BY DEF Outside, Judge, Intake, pollVars, allVars
<1> QED BY <1>2, <1>3, <1>4 DEF JourneyNext

LEMMA InitPoll ==
  ASSUME JourneyInit
  PROVE  LastWord /\ PollInv
<1> USE DEF JourneyInit
<1>1. Unread \in [status : Status, rows : Results]
  BY DEF Unread, Results, Status, InProgress
<1>2. PollTypeOK
  BY <1>1 DEF PollTypeOK
<1>3. \A c \in Client : ReadStands(c)
  BY DEF ReadStands
<1> QED BY <1>2, <1>3, InitKept DEF LastWord, PollInv

LEMMA PollInvariance ==
  ASSUME Reliable
  PROVE  Journey => [](IInv /\ AP!IInv /\ LastWord /\ PollInv)
<1>1. JourneyInit => LastWord /\ PollInv
  BY InitPoll
<1>2. IInv /\ AP!IInv /\ LastWord /\ PollInv /\ [JourneyNext]_allVars => (LastWord /\ PollInv)'
  BY StepOfBoth, LastWordStays, NextKeepsPoll
<1> QED BY <1>1, <1>2, JourneyInvariance, PTL DEF Journey

\* Whenever it polls, and whatever the worker writes between the statements of
\* the GET, the response that ends the polling is complete and agrees with
\* itself: while, besides, every updateTestCaseResult succeeds, since an attempt
\* goes on without the result that it could not store.
THEOREM ReadsAgree ==
  ASSUME Reliable, "row" \notin FaultKinds
  PROVE  Journey => []ResponseAgrees
<1> DEFINE AddsUp == IInv /\ BoxInv /\ Accounts /\ VerdictMatchesRows
<1>1. Spec => []AddsUp
  BY VerdictInvariance
<1>2. AddsUp /\ AP!IInv /\ LastWord /\ PollInv => ResponseAgrees
  <2> SUFFICES ASSUME AddsUp, AP!IInv, LastWord, PollInv,
                      NEW c \in Client, polled[c], shown[c].status # "internal_error"
               PROVE  /\ shown[c].status \in {shown[c].rows[i] : i \in DOMAIN shown[c].rows}
                      /\ \A i \in DOMAIN shown[c].rows :
                           /\ shown[c].rows[i] \in Terminal
                           /\ shown[c].status = "accepted" => shown[c].rows[i] = "accepted"
    BY DEF ResponseAgrees
  <2>1. /\ reply[c] = 201 /\ shown[c].status \in Terminal \ {"internal_error"}
        /\ status[id[c]] = shown[c].status /\ rows[id[c]] = shown[c].rows
    BY DEF PollInv, ReadStands
  <2>2. id[c] \in Submission
    BY <2>1, JourneyAssumption, AP!OwnId, IntakeParameters, SameIds DEF AP!IInv, AP!Mine
  <2> QED BY <2>1, <2>2, LastAgrees DEF LastWord
<1> QED BY <1>1, <1>2, JourneyRunsWorkers, PollInvariance, PTL

\* The answer a client stops polling at is the last word on its own submission:
\* whatever else fails, GET never showed it a verdict that a retry then replaced.
THEOREM AnswersStand ==
  ASSUME Reliable
  PROVE  Journey => []AnswerStands
<1>1. IInv /\ AP!IInv /\ LastWord /\ PollInv => AnswerStands
  <2> SUFFICES ASSUME AP!IInv, PollInv, NEW c \in Client, polled[c]
               PROVE  /\ subs[id[c]].by = c
                      /\ status[id[c]] = shown[c].status /\ rows[id[c]] = shown[c].rows
    BY DEF AnswerStands
  <2>1. /\ reply[c] = 201
        /\ status[id[c]] = shown[c].status /\ rows[id[c]] = shown[c].rows
    BY DEF PollInv, ReadStands
  <2>2. subs[id[c]].by = c
    BY <2>1, JourneyAssumption DEF AP!IInv, AP!Mine
  <2> QED BY <2>1, <2>2
<1> QED BY <1>1, PollInvariance, PTL
=============================================================================
