-------------------------- MODULE Execution_proofs --------------------------
(***************************************************************************)
(* Theorems about Execution, for every set of submissions and handlers,    *)
(* every assignment of handlers to workers, every number of retries and    *)
(* every set and number of faults.                                         *)
(***************************************************************************)
EXTENDS Execution, TLAPS

LEMMA StatusTypes ==
  /\ Terminal \subseteq Status
  /\ "pending" \in Status /\ "compiling" \in Status /\ "running" \in Status
  /\ "internal_error" \in Terminal /\ "accepted" \in Terminal
  /\ "compilation_error" \in Terminal
BY DEF Status, Terminal, InProgress

\* What the judging of a test case can yield: whatever isolate reports, the
\* result is a terminal status.
LEMMA TestStatusType ==
  ASSUME NEW r \in Report
  PROVE  TestStatus(r) \in Terminal
BY DEF TestStatus, mapIsolateStatus, Terminal, Report

LEMMA OverallType ==
  ASSUME NEW o \in Terminal, NEW v \in Terminal
  PROVE  Overall(o, v) \in Terminal
BY DEF Overall

----------------------------------------------------------------------------
(* Type correctness.                                                       *)

LEMMA InitType == Init => TypeOK
BY ExecutionAssumption, MaxRetryAssumption, StatusTypes
   DEF Init, QueueInit, TypeOK, QueueTypeOK, DbTypeOK, HandlerTypeOK, TaskState, Status, InProgress,
       Label, Terminal

LEMMA QueueStepType ==
  ASSUME QueueTypeOK, NEW s
  PROVE  /\ FailTask(s) => QueueTypeOK'
         /\ EnqueueTask(s) \/ Dequeue(s) \/ AckTask(s) \/ ForwardTask(s) \/ RequeueTask(s)
              => QueueTypeOK'
<1>1. ASSUME FailTask(s) PROVE QueueTypeOK'
  <2>1. CASE retried[s] >= MaxRetry
    BY <1>1, <2>1 DEF FailTask, QueueTypeOK, TaskState
  <2>2. CASE ~(retried[s] >= MaxRetry)
    <3>1. task' \in [Submission -> TaskState]
      BY <1>1, <2>2 DEF FailTask, QueueTypeOK, TaskState
    <3>2. retried' = [retried EXCEPT ![s] = @ + 1]
      BY <1>1, <2>2 DEF FailTask
    <3>3. \A r \in Submission : retried'[r] \in 0..MaxRetry
      BY <2>2, <3>2, MaxRetryAssumption DEF QueueTypeOK
    <3> QED BY <3>1, <3>2, <3>3 DEF QueueTypeOK
  <2> QED BY <2>1, <2>2
<1>2. EnqueueTask(s) \/ Dequeue(s) \/ AckTask(s) \/ ForwardTask(s) \/ RequeueTask(s)
        => QueueTypeOK'
  BY DEF EnqueueTask, Dequeue, AckTask, ForwardTask, RequeueTask, Move,
         QueueTypeOK, TaskState
<1> QED BY <1>1, <1>2

LEMMA FaultType ==
  ASSUME faults \in 0..MaxFaults, NEW k, NEW h \in Handler
  PROVE  Fault(k) \/ DbWorks(h) \/ DbFails(h, k) \/ UNCHANGED faults
           => faults' \in 0..MaxFaults
BY ExecutionAssumption DEF Fault, DbWorks, DbFails

LEMMA GotoType ==
  ASSUME HandlerTypeOK, NEW h \in Handler, NEW l \in Label
  PROVE  Goto(h, l) => pc' \in [Handler -> Label]
BY DEF HandlerTypeOK, Goto

LEMMA BoxesType ==
  ASSUME HandlerTypeOK, NEW h \in Handler,
         \/ Open(h) \/ LeaveBehind(h) \/ Close(h) \/ CloseIfBatch(h) \/ CloseIfSingle(h)
         \/ UNCHANGED sandboxes
  PROVE  boxes' \in [Handler -> Int] /\ left' \in [Handler -> Nat]
BY DEF HandlerTypeOK, sandboxes, Open, LeaveBehind, Close, CloseIfBatch, CloseIfSingle

LEMMA ResultType ==
  ASSUME HandlerTypeOK, NEW h \in Handler, NEW v \in Terminal, NEW o \in Terminal
  PROVE  Result(h, v, o) => found' \in [Handler -> Terminal] /\ overall' \in [Handler -> Terminal]
BY DEF HandlerTypeOK, Result

LEMMA LoseType ==
  ASSUME HandlerTypeOK, NEW h \in Handler
  PROVE  Lose(h) => /\ pc' \in [Handler -> Label]
                    /\ found' \in [Handler -> Terminal]
                    /\ overall' \in [Handler -> Terminal]
BY ResultType, StatusTypes, GotoType DEF Lose, HandlerTypeOK, Label

LEMMA MarkType ==
  ASSUME TypeOK, NEW h \in Handler, NEW m \in Status
  PROVE  Mark(h, m) => status' \in [Submission -> Status] /\ faults' \in 0..MaxFaults
BY FaultType DEF Mark, TypeOK, DbTypeOK

LEMMA ResetType ==
  ASSUME NEW S, NEW f \in [Handler -> S], NEW v \in S, NEW H
  PROVE  Reset(f, H, v) \in [Handler -> S]
BY DEF Reset

LEMMA LeaveType ==
  ASSUME HandlerTypeOK, NEW h \in Handler
  PROVE  Leave(h) => HandlerTypeOK'
BY StatusTypes DEF HandlerTypeOK, Leave, ForgetLocals, Reset, Label

LEMMA StepType ==
  ASSUME TypeOK, NEW h \in Handler, Step(h)
  PROVE  TypeOK'
<1> USE DEF TypeOK, queueVars, dbVars, sandboxes
<1>1. CASE Fetch(h)
  <2>1. pc' \in [Handler -> Label] /\ faults' \in 0..MaxFaults
    BY <1>1, FaultType DEF Fetch, Goto, HandlerTypeOK, Label
  <2>2. tc' \in [Handler -> Nat]
    BY <1>1 DEF Fetch, HandlerTypeOK
  <2> QED BY <1>1, <2>1, <2>2 DEF Fetch, HandlerTypeOK, QueueTypeOK, DbTypeOK
<1>2. CASE MakeTempDir(h)
  BY <1>2, FaultType, GotoType DEF MakeTempDir, locals, HandlerTypeOK, QueueTypeOK, DbTypeOK, Label
<1>3. CASE InitBox(h)
  <2>1. boxes' \in [Handler -> Int] /\ left' \in [Handler -> Nat]
    BY <1>3, BoxesType DEF InitBox
  <2>2. faults' \in 0..MaxFaults
    BY <1>3, FaultType DEF InitBox
  <2> QED
    BY <1>3, <2>1, <2>2, GotoType, LoseType DEF InitBox, HandlerTypeOK, QueueTypeOK, DbTypeOK, Label
<1>4. CASE CreateFiles(h)
  <2>1. boxes' \in [Handler -> Int] /\ left' \in [Handler -> Nat]
    BY <1>4, BoxesType DEF CreateFiles
  <2>2. faults' \in 0..MaxFaults
    BY <1>4, FaultType DEF CreateFiles
  <2> QED
    BY <1>4, <2>1, <2>2, GotoType, LoseType
       DEF CreateFiles, HandlerTypeOK, QueueTypeOK, DbTypeOK, Label
<1>5. CASE MarkCompiling(h)
  BY <1>5, MarkType, GotoType, StatusTypes
     DEF MarkCompiling, locals, HandlerTypeOK, QueueTypeOK, DbTypeOK, Label
<1>6. CASE Compile(h)
  <2>1. pc' \in [Handler -> Label] /\ faults' \in 0..MaxFaults
    BY <1>6, FaultType DEF Compile, Goto, HandlerTypeOK, Label
  <2>2. tc' \in [Handler -> Nat]
    BY <1>6 DEF Compile, HandlerTypeOK
  <2>4. boxes' \in [Handler -> Int] /\ left' \in [Handler -> Nat]
    BY <1>6, BoxesType DEF Compile
  <2>3. found' \in [Handler -> Terminal] /\ overall' \in [Handler -> Terminal]
    BY <1>6, ResultType, StatusTypes DEF Compile, HandlerTypeOK
  <2> QED BY <1>6, <2>1, <2>2, <2>3, <2>4 DEF Compile, HandlerTypeOK, QueueTypeOK, DbTypeOK
<1>7. CASE MarkRunning(h)
  BY <1>7, MarkType, GotoType, StatusTypes
     DEF MarkRunning, locals, HandlerTypeOK, QueueTypeOK, DbTypeOK, Label
<1>8. CASE Run(h)
  <2>1. \A r \in Reports : /\ TestStatus(r) \in Terminal
                           /\ Overall(overall[h], TestStatus(r)) \in Terminal
    BY ExecutionAssumption, TestStatusType, OverallType DEF HandlerTypeOK
  <2>2. boxes' \in [Handler -> Int] /\ left' \in [Handler -> Nat]
    BY <1>8, BoxesType DEF Run
  <2>3. faults' \in 0..MaxFaults
    BY <1>8, FaultType DEF Run
  <2> QED
    BY <1>8, <2>1, <2>2, <2>3, GotoType, ResultType, LoseType
       DEF Run, HandlerTypeOK, QueueTypeOK, DbTypeOK, Label
<1>9. CASE WriteRow(h)
  <2>1. HandlerTypeOK'
    BY <1>9, GotoType DEF WriteRow, NextRow, HandlerTypeOK, Label
  <2>2. DbTypeOK'
    <3>1. found[h] \in Status
      BY StatusTypes DEF HandlerTypeOK
    <3>2. CASE UNCHANGED rows
      BY <1>9, <3>2 DEF WriteRow, DbTypeOK
    <3>3. CASE rows' = [rows EXCEPT ![job[h]][tc[h]] = found[h]]
      <4>1. DOMAIN rows' = Submission
        BY <3>3 DEF DbTypeOK
      <4>2. ASSUME NEW s \in Submission PROVE rows'[s] \in [1..NumTests[s] -> Status]
        <5>1. rows[s] \in [1..NumTests[s] -> Status]
          BY DEF DbTypeOK
        <5>2. rows'[s] = rows[s] \/ rows'[s] = [rows[s] EXCEPT ![tc[h]] = found[h]]
          BY <3>3 DEF DbTypeOK
        <5> QED BY <3>1, <5>1, <5>2
      <4> QED BY <1>9, <4>1, <4>2 DEF WriteRow, DbTypeOK
    <3> QED BY <1>9, <3>2, <3>3 DEF WriteRow
  <2> QED BY <1>9, <2>1, <2>2, FaultType DEF WriteRow, QueueTypeOK
<1>10. CASE Complete(h)
  <2>3. boxes' \in [Handler -> Int] /\ left' \in [Handler -> Nat]
    BY <1>10, BoxesType DEF Complete, TryAgain
  <2>1. HandlerTypeOK'
    BY <1>10, <2>3, GotoType DEF Complete, TryAgain, HandlerTypeOK, Label
  <2>2. DbTypeOK'
    <3>1. overall[h] \in Status
      BY StatusTypes DEF HandlerTypeOK
    <3> QED BY <1>10, <3>1 DEF Complete, DbTypeOK
  <2> QED BY <1>10, <2>1, <2>2, FaultType DEF Complete, QueueTypeOK
<1>11. CASE Acknowledge(h)
  BY <1>11, LeaveType, QueueStepType DEF Acknowledge, DbTypeOK
<1>12. CASE HandleError(h)
  BY <1>12, FaultType, GotoType, StatusTypes
     DEF HandleError, locals, HandlerTypeOK, QueueTypeOK, DbTypeOK, Label
<1>13. CASE GiveBack(h)
  BY <1>13, LeaveType, QueueStepType DEF GiveBack, DbTypeOK
<1>14. CASE Vanish(h)
  BY <1>14, LeaveType DEF Vanish, DbTypeOK, QueueTypeOK
<1>15. CASE Panic(h)
  <2>1. boxes' \in [Handler -> Int] /\ left' \in [Handler -> Nat]
    BY <1>15, BoxesType DEF Panic
  <2> QED BY <1>15, <2>1, FaultType, GotoType
     DEF Panic, locals, HandlerTypeOK, QueueTypeOK, DbTypeOK, Label
<1> QED
  BY <1>1, <1>2, <1>3, <1>4, <1>5, <1>6, <1>7, <1>8, <1>9, <1>10, <1>11, <1>12,
     <1>13, <1>14, <1>15 DEF Step

LEMMA NextType == TypeOK /\ [Next]_vars => TypeOK'
<1> SUFFICES ASSUME TypeOK, [Next]_vars PROVE TypeOK'
  OBVIOUS
<1> USE DEF TypeOK, queueVars, dbVars, sandboxes
<1>1. ASSUME NEW s \in Submission, Enqueue(s) \/ Forward(s) \/ Recover(s) PROVE TypeOK'
  BY <1>1, QueueStepType
     DEF Enqueue, Forward, Recover, locals, DbTypeOK, HandlerTypeOK
<1>2. ASSUME NEW h \in Handler, NEW s \in Submission, Start(h, s) PROVE TypeOK'
  BY <1>2, QueueStepType, GotoType
     DEF Start, locals, DbTypeOK, HandlerTypeOK, Label
<1>3. ASSUME NEW h \in Handler, Step(h) PROVE TypeOK'
  BY <1>3, StepType
<1>4. ASSUME NEW h \in Handler, Interrupt(h) PROVE TypeOK'
  <2>1. HandlerTypeOK' /\ DbTypeOK'
    BY <1>4 DEF Interrupt, TimeOut, LoseLease, Shutdown, Detach, locals, DbTypeOK, HandlerTypeOK
  <2>2. QueueTypeOK'
    BY <1>4, QueueStepType DEF Interrupt, TimeOut, LoseLease, Shutdown, QueueTypeOK
  <2> QED BY <1>4, <2>1, <2>2, FaultType DEF Interrupt, TimeOut, LoseLease, Shutdown
<1>5. ASSUME NEW w \in Worker, Crash(w) PROVE TypeOK'
  <2>1. faults' \in 0..MaxFaults
    BY <1>5, ExecutionAssumption DEF Crash, Fault
  <2> DEFINE dead == {h \in Handler : HostOf[h] = w}
  <2>2. /\ pc' \in [Handler -> Label] /\ job' \in [Handler -> Submission \cup {NoJob}]
        /\ attached' \in [Handler -> BOOLEAN]
    <3>1. /\ pc' = Reset(pc, dead, "idle") /\ job' = Reset(job, dead, NoJob)
          /\ attached' = Reset(attached, dead, FALSE)
      BY <1>5 DEF Crash
    <3>2. "idle" \in Label
      BY DEF Label
    <3>3. pc' \in [Handler -> Label]
      BY <3>1, <3>2, ResetType DEF HandlerTypeOK
    <3>4. job' \in [Handler -> Submission \cup {NoJob}]
      BY <3>1, ResetType DEF HandlerTypeOK
    <3>5. attached' \in [Handler -> BOOLEAN]
      BY <3>1, ResetType DEF HandlerTypeOK
    <3> QED BY <3>3, <3>4, <3>5
  <2>3. /\ tc' \in [Handler -> Nat] /\ tries' \in [Handler -> 0..2]
        /\ found' \in [Handler -> Terminal] /\ overall' \in [Handler -> Terminal]
        /\ boxes' \in [Handler -> Int] /\ left' \in [Handler -> Nat]
    BY <1>5, StatusTypes DEF Crash, ForgetLocals, Reset, HandlerTypeOK
  <2> QED BY <1>5, <2>1, <2>2, <2>3 DEF Crash, DbTypeOK, QueueTypeOK, HandlerTypeOK
<1>6. CASE UNCHANGED vars
  BY <1>6 DEF vars, QueueTypeOK, DbTypeOK, HandlerTypeOK
<1> QED BY <1>1, <1>2, <1>3, <1>4, <1>5, <1>6 DEF Next

\* Every reachable state is well typed: in particular the retry count never
\* exceeds asynq.MaxRetry and every verdict a handler carries is terminal.
THEOREM TypeCorrect == Spec => []TypeOK
<1>1. Init => TypeOK BY InitType
<1>2. TypeOK /\ [Next]_vars => TypeOK' BY NextType
<1> QED BY <1>1, <1>2, PTL DEF Spec

----------------------------------------------------------------------------
(* The inductive invariant.                                                *)

ExecuteStep(h) ==
  \/ Fetch(h) \/ MakeTempDir(h) \/ InitBox(h) \/ CreateFiles(h)
  \/ MarkCompiling(h) \/ Compile(h) \/ MarkRunning(h) \/ Run(h)
  \/ WriteRow(h) \/ Complete(h) \/ Panic(h)

\* A goroutine in Execute has a submission; only such a one is attached, and
\* the ErrorHandler runs only for an attached one.
Control ==
  \A h \in Handler : /\ pc[h] # "idle" => job[h] \in Submission
                     /\ attached[h] => pc[h] # "idle"
                     /\ pc[h] = "erred" => attached[h]

\* Until it is acknowledged, a success rests on the row it wrote.
SuccessIsWritten ==
  \A h \in Handler : attached[h] /\ pc[h] = "succeeded" => status[job[h]] \in Terminal

\* A failed attempt and a lost one have used up a fault that no retry has
\* been charged with yet.
FailureIsPaid ==
  /\ \A h \in Handler : attached[h] /\ pc[h] \in {"failed", "erred"} => retried[job[h]] < faults
  /\ \A s \in Submission :
       task[s] = "active" /\ (\A h \in Handler : ~(attached[h] /\ job[h] = s))
         => retried[s] < faults

IInv == /\ TypeOK /\ Control /\ OneWriter
        /\ DoneHasVerdict /\ SuccessIsWritten
        /\ RetryNeedsFault /\ FailureIsPaid

\* What one step of Execute may touch: only its own pc, never the queue or an
\* ownership; the rows of its own submission, and those only while attached;
\* an attached goroutine fails only by a fault, and succeeds only with a
\* terminal status written.
LEMMA Footprint ==
  ASSUME TypeOK, Control, NEW h \in Handler, ExecuteStep(h)
  PROVE  /\ pc[h] \in Inside
         /\ pc'[h] \in Inside \cup {"succeeded", "failed"}
         /\ \A g \in Handler : g # h => pc'[g] = pc[g]
         /\ UNCHANGED <<task, retried, job, attached>>
         /\ faults <= faults'
         /\ attached[h] /\ pc'[h] = "failed" => faults < faults'
         /\ \A s \in Submission : status'[s] # status[s] \/ rows'[s] # rows[s]
                                    => attached[h] /\ s = job[h]
         /\ pc'[h] = "succeeded" => status'[job[h]] \in Terminal
<1>0. pc \in [Handler -> Label] /\ faults \in Nat
  BY ExecutionAssumption DEF TypeOK, HandlerTypeOK
<1> USE <1>0 DEF Inside, Label, Goto, queueVars, dbVars, Fault, DbWorks, DbFails
<1>1. CASE Fetch(h)
  BY <1>1 DEF Fetch
<1>2. CASE MakeTempDir(h)
  BY <1>2 DEF MakeTempDir
<1>3. CASE InitBox(h)
  BY <1>3 DEF InitBox, Lose
<1>4. CASE CreateFiles(h)
  BY <1>4 DEF CreateFiles, Lose
<1>5. CASE MarkCompiling(h)
  BY <1>5 DEF MarkCompiling, Mark, TypeOK, DbTypeOK
<1>6. CASE Compile(h)
  BY <1>6 DEF Compile
<1>7. CASE MarkRunning(h)
  BY <1>7 DEF MarkRunning, Mark, TypeOK, DbTypeOK
<1>8. CASE Run(h)
  BY <1>8 DEF Run, Lose
<1>9. CASE WriteRow(h)
  <2>1. \A s \in Submission : rows'[s] # rows[s] => attached[h] /\ s = job[h]
    BY <1>9 DEF WriteRow, TypeOK, DbTypeOK
  <2> QED BY <1>9, <2>1 DEF WriteRow, NextRow
<1>10. CASE Complete(h)
  <2>1. job[h] \in Submission /\ overall[h] \in Terminal
    BY <1>10 DEF Complete, Control, TypeOK, HandlerTypeOK
  <2>2. \A s \in Submission : status'[s] # status[s] => attached[h] /\ s = job[h]
    BY <1>10, <2>1 DEF Complete, TypeOK, DbTypeOK
  <2>3. pc'[h] = "succeeded" => status'[job[h]] \in Terminal
    BY <1>10, <2>1 DEF Complete, TryAgain, TypeOK, DbTypeOK
  <2> QED BY <1>10, <2>2, <2>3 DEF Complete, TryAgain
<1>11. CASE Panic(h)
  BY <1>11 DEF Panic
<1> QED
  BY <1>1, <1>2, <1>3, <1>4, <1>5, <1>6, <1>7, <1>8, <1>9, <1>10, <1>11 DEF ExecuteStep

\* A handler's own task: whoever is attached to s keeps everyone else away.
LEMMA ExecuteKeepsInv ==
  ASSUME IInv, NEW h \in Handler, ExecuteStep(h)
  PROVE  /\ Control' /\ OneWriter' /\ DoneHasVerdict' /\ SuccessIsWritten'
         /\ RetryNeedsFault' /\ FailureIsPaid'
<1>1. /\ pc[h] \in Inside
      /\ pc'[h] \in Inside \cup {"succeeded", "failed"}
      /\ \A g \in Handler : g # h => pc'[g] = pc[g]
      /\ UNCHANGED <<task, retried, job, attached>>
      /\ faults <= faults'
      /\ attached[h] /\ pc'[h] = "failed" => faults < faults'
      /\ \A s \in Submission : status'[s] # status[s] \/ rows'[s] # rows[s]
                                 => attached[h] /\ s = job[h]
      /\ pc'[h] = "succeeded" => status'[job[h]] \in Terminal
  BY Footprint DEF IInv
<1>2. /\ faults \in Nat /\ faults' \in Nat /\ retried \in [Submission -> Nat]
      /\ job[h] \in Submission
  <2>1. TypeOK'
    BY StepType DEF IInv, ExecuteStep, Step
  <2> QED BY <1>1, <2>1, ExecutionAssumption, MaxRetryAssumption
        DEF IInv, TypeOK, QueueTypeOK, Control, Inside
<1>3. Control'
  BY <1>1 DEF IInv, Control, Inside, Label
<1>4. OneWriter'
  BY <1>1 DEF IInv, OneWriter
<1>5. DoneHasVerdict'
  BY <1>1 DEF IInv, OneWriter, DoneHasVerdict
<1>6. SuccessIsWritten'
  BY <1>1, <1>2 DEF IInv, Control, OneWriter, SuccessIsWritten
<1>7. RetryNeedsFault'
  BY <1>1, <1>2 DEF IInv, RetryNeedsFault
<1>8. FailureIsPaid'
  <2>1. ASSUME NEW g \in Handler, attached'[g], pc'[g] \in {"failed", "erred"}
        PROVE  retried'[job'[g]] < faults'
    <3>1. CASE g = h
      BY <1>1, <1>2, <2>1, <3>1 DEF IInv, RetryNeedsFault, Inside
    <3>2. CASE g # h
      BY <1>1, <1>2, <2>1, <3>2 DEF IInv, FailureIsPaid, Control
    <3> QED BY <3>1, <3>2
  <2>2. ASSUME NEW s \in Submission, task'[s] = "active",
               \A g \in Handler : ~(attached'[g] /\ job'[g] = s)
        PROVE  retried'[s] < faults'
    BY <1>1, <1>2, <2>2 DEF IInv, FailureIsPaid
  <2> QED BY <2>1, <2>2 DEF FailureIsPaid
<1> QED BY <1>3, <1>4, <1>5, <1>6, <1>7, <1>8

\* How the queue lets go of the task of h.
Settled(h) == \/ FailTask(job[h])
              \/ RequeueTask(job[h])
              \/ AckTask(job[h]) /\ pc[h] = "succeeded"

\* A step after which the failure of h's attempt is still covered by a fault.
Covered(h) == /\ faults' \in Nat /\ faults <= faults'
              /\ FailTask(job[h]) => retried[job[h]] < faults'

\* The end of an attempt, and its interruption: the task of h changes, h stops
\* being attached to it, and the database stays as it is.
LEMMA ReleaseKeepsInv ==
  ASSUME IInv, NEW h \in Handler, attached[h],
         Settled(h), Covered(h),
         attached' = [attached EXCEPT ![h] = FALSE],
         \A g \in Handler : g # h => pc'[g] = pc[g] /\ job'[g] = job[g],
         \/ pc'[h] = "idle"
         \/ pc[h] # "erred" /\ pc'[h] = pc[h] /\ job'[h] = job[h],
         UNCHANGED dbVars
  PROVE  /\ Control' /\ OneWriter' /\ DoneHasVerdict' /\ SuccessIsWritten'
         /\ RetryNeedsFault' /\ FailureIsPaid'
<1> DEFINE s == job[h]
<1>1. /\ s \in Submission /\ task[s] = "active"
      /\ faults \in Nat /\ retried \in [Submission -> 0..MaxRetry]
      /\ task \in [Submission -> TaskState] /\ attached \in [Handler -> BOOLEAN]
  BY ExecutionAssumption DEF IInv, OneWriter, TypeOK, QueueTypeOK, HandlerTypeOK
<1> USE DEF Covered
<1>2. /\ ~attached'[h]
      /\ \A g \in Handler : attached'[g] => g # h /\ attached[g] /\ job[g] # s
  BY <1>1 DEF IInv, OneWriter
<1>3. /\ task'[s] \in {"retry", "archived", "pending", "done"}
      /\ task'[s] = "done" => pc[h] = "succeeded"
      /\ \A r \in Submission : r # s => task'[r] = task[r] /\ retried'[r] = retried[r]
      /\ retried'[s] <= faults'
      /\ task'[s] = "archived" => retried'[s] < faults'
  <2>1. CASE FailTask(s)
    BY <1>1, <2>1, MaxRetryAssumption DEF FailTask
  <2>2. CASE RequeueTask(s) \/ (AckTask(s) /\ pc[h] = "succeeded")
    BY <1>1, <2>2, MaxRetryAssumption
       DEF RequeueTask, AckTask, Move, IInv, RetryNeedsFault
  <2>3. FailTask(s) \/ RequeueTask(s) \/ (AckTask(s) /\ pc[h] = "succeeded")
    BY DEF Settled
  <2> QED BY <2>1, <2>2, <2>3
<1> HIDE DEF s
<1>4. Control'
  BY <1>2 DEF IInv, Control
<1>5. OneWriter'
  BY <1>1, <1>2, <1>3 DEF IInv, OneWriter
<1>6. DoneHasVerdict'
  BY <1>1, <1>3 DEF s, IInv, DoneHasVerdict, SuccessIsWritten, dbVars
<1>7. SuccessIsWritten'
  BY <1>2 DEF IInv, SuccessIsWritten, dbVars
<1>8. RetryNeedsFault'
  BY <1>1, <1>3, MaxRetryAssumption DEF IInv, RetryNeedsFault
<1>9. FailureIsPaid'
  <2>1. ASSUME NEW g \in Handler, attached'[g], pc'[g] \in {"failed", "erred"}
        PROVE  retried'[job'[g]] < faults'
    <3>1. g # h /\ attached[g] /\ job[g] # s /\ job[g] \in Submission
      BY <1>2, <2>1 DEF IInv, OneWriter
    <3>2. retried[job[g]] < faults
      BY <2>1, <3>1 DEF IInv, FailureIsPaid
    <3> QED BY <1>1, <1>3, <3>1, <3>2, MaxRetryAssumption
  <2>2. ASSUME NEW r \in Submission, task'[r] = "active",
               \A g \in Handler : ~(attached'[g] /\ job'[g] = r)
        PROVE  retried'[r] < faults'
    <3>1. r # s /\ task[r] = "active" /\ retried'[r] = retried[r]
      BY <1>3, <2>2
    <3>2. \A g \in Handler : ~(attached[g] /\ job[g] = r)
      BY <1>1, <2>2, <3>1 DEF s
    <3> QED BY <1>1, <3>1, <3>2, MaxRetryAssumption DEF IInv, FailureIsPaid
  <2> QED BY <2>1, <2>2 DEF FailureIsPaid
<1> QED BY <1>4, <1>5, <1>6, <1>7, <1>8, <1>9

LEMMA Types ==
  ASSUME IInv
  PROVE  /\ faults \in Nat /\ retried \in [Submission -> Nat]
         /\ task \in [Submission -> TaskState] /\ status \in [Submission -> Status]
         /\ pc \in [Handler -> Label] /\ job \in [Handler -> Submission \cup {NoJob}]
         /\ attached \in [Handler -> BOOLEAN]
BY ExecutionAssumption, MaxRetryAssumption
   DEF IInv, TypeOK, QueueTypeOK, DbTypeOK, HandlerTypeOK

LEMMA HandleErrorKeepsInv ==
  ASSUME IInv, NEW h \in Handler, HandleError(h)
  PROVE  /\ Control' /\ OneWriter' /\ DoneHasVerdict' /\ SuccessIsWritten'
         /\ RetryNeedsFault' /\ FailureIsPaid'
<1>1. /\ attached[h] /\ pc[h] = "failed" /\ pc'[h] = "erred"
      /\ \A g \in Handler : g # h => pc'[g] = pc[g]
      /\ UNCHANGED <<task, retried, job, attached>>
      /\ faults' \in Nat /\ faults <= faults'
      /\ \A s \in Submission : status'[s] # status[s] => s = job[h]
  BY Types DEF HandleError, Goto, DbWorks, DbFails, Fault, queueVars
<1>2. Control'
  BY <1>1 DEF IInv, Control
<1>3. OneWriter'
  BY <1>1 DEF IInv, OneWriter
<1>4. DoneHasVerdict'
  BY <1>1 DEF IInv, OneWriter, DoneHasVerdict
<1>5. SuccessIsWritten'
  BY <1>1 DEF IInv, OneWriter, SuccessIsWritten
<1>6. RetryNeedsFault'
  BY <1>1, Types DEF IInv, RetryNeedsFault
<1>7. FailureIsPaid'
  BY <1>1, Types DEF IInv, OneWriter, FailureIsPaid
<1> QED BY <1>2, <1>3, <1>4, <1>5, <1>6, <1>7

LEMMA StepKeepsInv ==
  ASSUME IInv, NEW h \in Handler, Step(h)
  PROVE  /\ Control' /\ OneWriter' /\ DoneHasVerdict' /\ SuccessIsWritten'
         /\ RetryNeedsFault' /\ FailureIsPaid'
<1>1. CASE ExecuteStep(h)
  BY <1>1, ExecuteKeepsInv
<1>2. CASE Acknowledge(h)
  <2>1. ~FailTask(job[h])
    BY <1>2, Types DEF Acknowledge, AckTask, Move, FailTask, TaskState, IInv, OneWriter
  <2>2. /\ attached[h] /\ Settled(h)
        /\ attached' = [attached EXCEPT ![h] = FALSE] /\ pc'[h] = "idle"
        /\ \A g \in Handler : g # h => pc'[g] = pc[g] /\ job'[g] = job[g]
        /\ UNCHANGED dbVars
    BY <1>2, Types DEF Acknowledge, Leave, Settled
  <2>3. Covered(h)
    BY <1>2, <2>1, Types DEF Acknowledge, Covered
  <2> QED BY <2>2, <2>3, ReleaseKeepsInv
<1>3. CASE HandleError(h)
  BY <1>3, HandleErrorKeepsInv
<1>4. CASE GiveBack(h)
  <2>1. attached[h] /\ retried[job[h]] < faults
    BY <1>4 DEF GiveBack, IInv, Control, FailureIsPaid
  <2>2. /\ Settled(h)
        /\ attached' = [attached EXCEPT ![h] = FALSE] /\ pc'[h] = "idle"
        /\ \A g \in Handler : g # h => pc'[g] = pc[g] /\ job'[g] = job[g]
        /\ UNCHANGED dbVars
    BY <1>4, Types DEF GiveBack, Leave, Settled
  <2>3. Covered(h)
    BY <1>4, <2>1, Types DEF GiveBack, Covered
  <2> QED BY <2>1, <2>2, <2>3, ReleaseKeepsInv
<1>5. CASE Vanish(h)
  <2>1. /\ ~attached[h] /\ ~attached'[h] /\ pc'[h] = "idle"
        /\ \A g \in Handler : g # h => /\ pc'[g] = pc[g] /\ job'[g] = job[g]
                                       /\ attached'[g] = attached[g]
        /\ UNCHANGED <<task, retried, status, rows, faults>>
    BY <1>5, Types DEF Vanish, Leave, queueVars, dbVars
  <2>2. Control' /\ OneWriter' /\ DoneHasVerdict' /\ SuccessIsWritten' /\ RetryNeedsFault'
    BY <2>1 DEF IInv, Control, OneWriter, DoneHasVerdict, SuccessIsWritten, RetryNeedsFault
  <2>3. FailureIsPaid'
    BY <2>1 DEF IInv, FailureIsPaid
  <2> QED BY <2>2, <2>3
<1> QED BY <1>1, <1>2, <1>3, <1>4, <1>5 DEF Step, ExecuteStep

LEMMA QueueKeepsInv ==
  ASSUME IInv, NEW s \in Submission, Enqueue(s) \/ Forward(s) \/ Recover(s)
  PROVE  /\ Control' /\ OneWriter' /\ DoneHasVerdict' /\ SuccessIsWritten'
         /\ RetryNeedsFault' /\ FailureIsPaid'
<1>1. /\ UNCHANGED <<status, rows, pc, job, attached, faults>>
      /\ \A r \in Submission : r # s => task'[r] = task[r] /\ retried'[r] = retried[r]
      /\ task'[s] \in {"pending", "retry", "archived"}
      /\ \A h \in Handler : ~(attached[h] /\ job[h] = s)
      /\ retried'[s] <= faults
      /\ task'[s] = "archived" => retried'[s] < faults
  <2>1. CASE Enqueue(s) \/ Forward(s)
    BY <2>1, Types
       DEF Enqueue, Forward, EnqueueTask, ForwardTask, Move, dbVars, IInv, OneWriter,
           RetryNeedsFault
  <2>2. CASE Recover(s)
    BY <2>2, Types, MaxRetryAssumption
       DEF Recover, FailTask, dbVars, IInv, FailureIsPaid
  <2> QED BY <2>1, <2>2
<1>2. Control' /\ OneWriter' /\ DoneHasVerdict' /\ SuccessIsWritten' /\ RetryNeedsFault'
  BY <1>1, Types
     DEF IInv, Control, OneWriter, DoneHasVerdict, SuccessIsWritten, RetryNeedsFault
<1>3. FailureIsPaid'
  BY <1>1, Types DEF IInv, OneWriter, FailureIsPaid
<1> QED BY <1>2, <1>3

LEMMA StartKeepsInv ==
  ASSUME IInv, NEW h \in Handler, NEW s \in Submission, Start(h, s)
  PROVE  /\ Control' /\ OneWriter' /\ DoneHasVerdict' /\ SuccessIsWritten'
         /\ RetryNeedsFault' /\ FailureIsPaid'
<1>1. /\ pc[h] = "idle" /\ pc'[h] = "fetch" /\ job'[h] = s /\ attached'[h]
      /\ task[s] = "pending" /\ task'[s] = "active"
      /\ \A g \in Handler : g # h => /\ pc'[g] = pc[g] /\ job'[g] = job[g]
                                     /\ attached'[g] = attached[g]
      /\ \A r \in Submission : r # s => task'[r] = task[r]
      /\ UNCHANGED <<retried, status, rows, faults>>
  BY Types DEF Start, Dequeue, Move, Goto, dbVars
<1>2. \A g \in Handler : attached[g] => g # h /\ job[g] # s
  BY <1>1 DEF IInv, Control, OneWriter
<1>3. Control' /\ OneWriter'
  BY <1>1, <1>2 DEF IInv, Control, OneWriter
<1>4. DoneHasVerdict' /\ SuccessIsWritten' /\ RetryNeedsFault'
  BY <1>1, <1>2 DEF IInv, DoneHasVerdict, SuccessIsWritten, RetryNeedsFault
<1>5. FailureIsPaid'
  BY <1>1, <1>2 DEF IInv, FailureIsPaid
<1> QED BY <1>3, <1>4, <1>5

LEMMA InterruptKeepsInv ==
  ASSUME IInv, NEW h \in Handler, Interrupt(h)
  PROVE  /\ Control' /\ OneWriter' /\ DoneHasVerdict' /\ SuccessIsWritten'
         /\ RetryNeedsFault' /\ FailureIsPaid'
<1>1. /\ attached[h] /\ pc[h] # "erred" /\ attached' = [attached EXCEPT ![h] = FALSE]
      /\ UNCHANGED <<dbVars, pc, job>> /\ faults' = faults + 1
      /\ job[h] \in Submission /\ retried[job[h]] < faults' /\ faults \in Nat
  BY Types DEF Interrupt, TimeOut, LoseLease, Shutdown, Detach, Fault, IInv, OneWriter,
               RetryNeedsFault
<1>2. CASE TimeOut(h) \/ Shutdown(h)
  <2>1. Settled(h)
    BY <1>2 DEF TimeOut, Shutdown, Settled
  <2>2. Covered(h)
    BY <1>1 DEF Covered
  <2>3. pc'[h] = pc[h] /\ \A g \in Handler : pc'[g] = pc[g] /\ job'[g] = job[g]
    BY <1>1
  <2> QED BY <1>1, <2>1, <2>2, <2>3, ReleaseKeepsInv
<1>3. CASE LoseLease(h)
  <2>1. UNCHANGED <<task, retried>> /\ UNCHANGED <<status, rows>>
    BY <1>1, <1>3 DEF LoseLease, queueVars, dbVars
  <2>2. \A g \in Handler : attached'[g] => attached[g] /\ g # h
    BY <1>1, Types
  <2>3. /\ Control' /\ OneWriter' /\ DoneHasVerdict' /\ SuccessIsWritten'
        /\ RetryNeedsFault'
    BY <1>1, <2>1, <2>2, Types
       DEF IInv, Control, OneWriter, DoneHasVerdict, SuccessIsWritten, RetryNeedsFault
  <2>4. FailureIsPaid'
    <3>1. ASSUME NEW r \in Submission PROVE retried[r] < faults'
      BY <1>1, Types DEF IInv, RetryNeedsFault
    <3> QED BY <1>1, <2>1, <2>2, <3>1, Types DEF IInv, OneWriter, FailureIsPaid
  <2> QED BY <2>3, <2>4
<1> QED BY <1>2, <1>3 DEF Interrupt

LEMMA CrashKeepsInv ==
  ASSUME IInv, NEW w \in Worker, Crash(w)
  PROVE  /\ Control' /\ OneWriter' /\ DoneHasVerdict' /\ SuccessIsWritten'
         /\ RetryNeedsFault' /\ FailureIsPaid'
<1>1. /\ UNCHANGED <<task, retried, status, rows>> /\ faults' = faults + 1
      /\ \A h \in Handler :
           \/ HostOf[h] = w /\ pc'[h] = "idle" /\ ~attached'[h]
           \/ /\ HostOf[h] # w /\ pc'[h] = pc[h] /\ job'[h] = job[h]
              /\ attached'[h] = attached[h]
  BY Types DEF Crash, Reset, Fault, queueVars, dbVars
<1>2. \A r \in Submission : retried[r] < faults'
  BY <1>1, Types DEF IInv, RetryNeedsFault
<1>3. \A h \in Handler : attached'[h] => /\ attached[h] /\ pc'[h] = pc[h]
                                         /\ job'[h] = job[h] /\ job[h] \in Submission
  BY <1>1, Types DEF IInv, OneWriter
<1>4. Control' /\ OneWriter'
  BY <1>1, <1>3 DEF IInv, Control, OneWriter
<1>5. DoneHasVerdict' /\ SuccessIsWritten'
  BY <1>1, <1>3 DEF IInv, DoneHasVerdict, SuccessIsWritten
<1>6. RetryNeedsFault' /\ FailureIsPaid'
  BY <1>1, <1>2, <1>3, Types DEF IInv, RetryNeedsFault, FailureIsPaid
<1> QED BY <1>4, <1>5, <1>6

LEMMA InitInv == Init => IInv
<1> SUFFICES ASSUME Init PROVE IInv
  OBVIOUS
<1>1. TypeOK
  BY InitType
<1>2. Control /\ OneWriter /\ SuccessIsWritten /\ DoneHasVerdict
  BY DEF Init, QueueInit, Control, OneWriter, SuccessIsWritten, DoneHasVerdict
<1>3. RetryNeedsFault /\ FailureIsPaid
  BY DEF Init, QueueInit, RetryNeedsFault, FailureIsPaid
<1> QED BY <1>1, <1>2, <1>3 DEF IInv

LEMMA NextInv == IInv /\ [Next]_vars => IInv'
<1> SUFFICES ASSUME IInv, [Next]_vars PROVE IInv'
  OBVIOUS
<1>1. TypeOK'
  BY NextType DEF IInv
<1>2. ASSUME NEW s \in Submission, Enqueue(s) \/ Forward(s) \/ Recover(s) PROVE IInv'
  BY <1>1, <1>2, QueueKeepsInv DEF IInv
<1>3. ASSUME NEW h \in Handler, NEW s \in Submission, Start(h, s) PROVE IInv'
  BY <1>1, <1>3, StartKeepsInv DEF IInv
<1>4. ASSUME NEW h \in Handler, Step(h) PROVE IInv'
  BY <1>1, <1>4, StepKeepsInv DEF IInv
<1>5. ASSUME NEW h \in Handler, Interrupt(h) PROVE IInv'
  BY <1>1, <1>5, InterruptKeepsInv DEF IInv
<1>6. ASSUME NEW w \in Worker, Crash(w) PROVE IInv'
  BY <1>1, <1>6, CrashKeepsInv DEF IInv
<1>7. CASE UNCHANGED vars
  BY <1>1, <1>7
     DEF vars, IInv, Control, OneWriter, SuccessIsWritten, DoneHasVerdict, RetryNeedsFault,
         FailureIsPaid
<1> QED BY <1>2, <1>3, <1>4, <1>5, <1>6, <1>7 DEF Next

LEMMA Invariance == Spec => []IInv
<1>1. Init => IInv BY InitInv
<1>2. IInv /\ [Next]_vars => IInv' BY NextInv
<1> QED BY <1>1, <1>2, PTL DEF Spec

----------------------------------------------------------------------------
(* The theorems.                                                           *)

\* No submission is ever executed by two goroutines whose writes count,
\* whatever is lost, timed out, recovered or requeued in between.
THEOREM SingleWriter == Spec => []OneWriter
<1>1. IInv => OneWriter BY DEF IInv
<1> QED BY <1>1, Invariance, PTL

\* A task is acknowledged only once its verdict is in the database.
THEOREM AcknowledgedHasVerdict == Spec => []DoneHasVerdict
<1>1. IInv => DoneHasVerdict BY DEF IInv
<1> QED BY <1>1, Invariance, PTL

\* Wrong answers, timeouts, crashes of the program and compilation errors
\* never cost a retry: every retry is paid for by an infrastructure fault.
THEOREM OnlyFaultsRetry == Spec => []RetryNeedsFault
<1>1. IInv => RetryNeedsFault BY DEF IInv
<1> QED BY <1>1, Invariance, PTL

LEMMA NextKeepsDone == IInv /\ [Next]_vars => KeepsDone
<1> SUFFICES ASSUME IInv, [Next]_vars, NEW s \in Submission, task[s] = "done"
             PROVE  task'[s] = "done" /\ status'[s] = status[s] /\ rows'[s] = rows[s]
  BY DEF KeepsDone
<1>0. \A h \in Handler : attached[h] => job[h] # s
  BY DEF IInv, OneWriter
<1>1. ASSUME NEW r \in Submission, Enqueue(r) \/ Forward(r) \/ Recover(r)
      PROVE  task'[s] = "done" /\ status'[s] = status[s] /\ rows'[s] = rows[s]
  BY <1>1, Types
     DEF Enqueue, Forward, Recover, EnqueueTask, ForwardTask, FailTask, Move, dbVars
<1>2. ASSUME NEW h \in Handler, NEW r \in Submission, Start(h, r)
      PROVE  task'[s] = "done" /\ status'[s] = status[s] /\ rows'[s] = rows[s]
  BY <1>2, Types DEF Start, Dequeue, Move, dbVars
<1>3. ASSUME NEW h \in Handler, ExecuteStep(h)
      PROVE  task'[s] = "done" /\ status'[s] = status[s] /\ rows'[s] = rows[s]
  <2>1. /\ task' = task
        /\ status'[s] # status[s] \/ rows'[s] # rows[s] => attached[h] /\ s = job[h]
    BY <1>3, Footprint DEF IInv
  <2> QED BY <1>0, <2>1
<1>4. ASSUME NEW h \in Handler, Acknowledge(h) \/ HandleError(h) \/ GiveBack(h) \/ Vanish(h)
      PROVE  task'[s] = "done" /\ status'[s] = status[s] /\ rows'[s] = rows[s]
  BY <1>0, <1>4, Types
     DEF Acknowledge, HandleError, GiveBack, Vanish, AckTask, FailTask, Move, dbVars, queueVars
<1>5. ASSUME NEW h \in Handler, Interrupt(h)
      PROVE  task'[s] = "done" /\ status'[s] = status[s] /\ rows'[s] = rows[s]
  BY <1>0, <1>5, Types
     DEF Interrupt, TimeOut, LoseLease, Shutdown, Detach, FailTask, RequeueTask, Move,
         dbVars, queueVars
<1>6. ASSUME NEW w \in Worker, Crash(w)
      PROVE  task'[s] = "done" /\ status'[s] = status[s] /\ rows'[s] = rows[s]
  BY <1>6 DEF Crash, dbVars, queueVars
<1>7. CASE UNCHANGED vars
  BY <1>7 DEF vars
<1> QED
  BY <1>1, <1>2, <1>3, <1>4, <1>5, <1>6, <1>7 DEF Next, Step, ExecuteStep

\* Nothing ever changes what a client reads of an acknowledged submission,
\* not even a goroutine that outlived its own attempt.
THEOREM VerdictIsFinal == Spec => FinalVerdictStable
<1>1. IInv /\ [Next]_vars => [KeepsDone]_vars
  BY NextKeepsDone
<1> QED BY <1>1, Invariance, PTL DEF Spec, FinalVerdictStable

----------------------------------------------------------------------------
(* Sandboxes: exactly which steps hold one.                                *)

HoldsSingle == {"files", "markCompiling", "compile", "markRunning", "run", "row", "complete"}
HoldsBatch == {"files", "compile", "run"}

Holds(h) == pc[h] \in IF Single(h) THEN HoldsSingle ELSE HoldsBatch

BoxesExact == \A h \in Handler : Held(h) = IF Holds(h) THEN 1 ELSE 0

\* executeSingle has one test case and no temporary directory.
SingleShape ==
  \A h \in Handler : Single(h) =>
    /\ pc[h] # "tmp"
    /\ pc[h] \in HoldsSingle \cup {"init"} => tc[h] = 1

BoxInv == BoxesExact /\ SingleShape

LEMMA ExecuteKeepsBoxes ==
  ASSUME IInv, BoxInv, NEW h \in Handler, ExecuteStep(h)
  PROVE  /\ Held(h)' = IF Holds(h)' THEN 1 ELSE 0
         /\ Single(h) => /\ pc'[h] # "tmp"
                         /\ pc'[h] \in HoldsSingle \cup {"init"} => tc'[h] = 1
         /\ job' = job
         /\ \A g \in Handler : g # h => /\ pc'[g] = pc[g] /\ Held(g)' = Held(g)
                                        /\ tc'[g] = tc[g]
<1>0. /\ pc \in [Handler -> Label] /\ tc \in [Handler -> Nat]
      /\ boxes \in [Handler -> Int] /\ left \in [Handler -> Nat]
      /\ Held(h) = IF Holds(h) THEN 1 ELSE 0
      /\ Single(h) => /\ pc[h] # "tmp"
                      /\ pc[h] \in HoldsSingle \cup {"init"} => tc[h] = 1
  BY DEF IInv, BoxInv, TypeOK, HandlerTypeOK, BoxesExact, SingleShape
<1> USE <1>0 DEF Holds, HoldsSingle, HoldsBatch, Goto, sandboxes, Held, Open, LeaveBehind,
                 Close, CloseIfBatch, CloseIfSingle, Single
<1>1. CASE Fetch(h)
  BY <1>1 DEF Fetch
<1>2. CASE MakeTempDir(h)
  BY <1>2 DEF MakeTempDir, locals
<1>3. CASE InitBox(h)
  BY <1>3 DEF InitBox, Lose
<1>4. CASE CreateFiles(h)
  BY <1>4 DEF CreateFiles, Lose
<1>5. CASE MarkCompiling(h)
  BY <1>5 DEF MarkCompiling, locals
<1>6. CASE Compile(h)
  BY <1>6 DEF Compile
<1>7. CASE MarkRunning(h)
  BY <1>7 DEF MarkRunning, locals
<1>8. CASE Run(h)
  BY <1>8 DEF Run, Lose
<1>9. CASE WriteRow(h)
  <2>1. Single(h) => NumTests[job[h]] = 1
    BY <1>9, ExecutionAssumption DEF WriteRow, IInv, Control
  <2> QED BY <1>9, <2>1 DEF WriteRow, NextRow
<1>10. CASE Complete(h)
  BY <1>10 DEF Complete, TryAgain
<1>11. CASE Panic(h)
  BY <1>11 DEF Panic, Inside, Label, locals
<1> QED
  BY <1>1, <1>2, <1>3, <1>4, <1>5, <1>6, <1>7, <1>8, <1>9, <1>10, <1>11 DEF ExecuteStep

LEMMA NextKeepsBoxes == IInv /\ BoxInv /\ [Next]_vars => BoxInv'
<1> SUFFICES ASSUME IInv, BoxInv, [Next]_vars PROVE BoxesExact' /\ SingleShape'
  BY DEF BoxInv
<1>0. /\ pc \in [Handler -> Label] /\ tc \in [Handler -> Nat]
      /\ boxes \in [Handler -> Int] /\ left \in [Handler -> Nat]
      /\ job \in [Handler -> Submission \cup {NoJob}]
  BY DEF IInv, TypeOK, HandlerTypeOK
<1> USE <1>0 DEF BoxesExact, SingleShape, Holds, HoldsSingle, HoldsBatch, Held, sandboxes, Single
<1>1. ASSUME NEW s \in Submission, Enqueue(s) \/ Forward(s) \/ Recover(s)
      PROVE  BoxesExact' /\ SingleShape'
  BY <1>1 DEF Enqueue, Forward, Recover, locals, BoxInv
<1>2. ASSUME NEW h \in Handler, NEW s \in Submission, Start(h, s)
      PROVE  BoxesExact' /\ SingleShape'
  BY <1>2 DEF Start, Goto, locals, BoxInv
<1>3. ASSUME NEW h \in Handler, ExecuteStep(h) PROVE BoxesExact' /\ SingleShape'
  BY <1>3, ExecuteKeepsBoxes DEF BoxInv
<1>4. ASSUME NEW h \in Handler, Acknowledge(h) \/ GiveBack(h) \/ Vanish(h)
      PROVE  BoxesExact' /\ SingleShape'
  <2>1. /\ pc' = [pc EXCEPT ![h] = "idle"] /\ job' = [job EXCEPT ![h] = NoJob]
        /\ boxes'[h] = 0 /\ left'[h] = 0
        /\ \A g \in Handler : g # h => boxes'[g] = boxes[g] /\ left'[g] = left[g] /\ tc'[g] = tc[g]
    BY <1>4 DEF Acknowledge, GiveBack, Vanish, Leave, ForgetLocals, Reset
  <2>2. ASSUME NEW g \in Handler
        PROVE  /\ Held(g)' = IF Holds(g)' THEN 1 ELSE 0
               /\ Single(g)' => /\ pc'[g] # "tmp"
                                /\ pc'[g] \in HoldsSingle \cup {"init"} => tc'[g] = 1
    <3>1. CASE g = h
      BY <2>1, <3>1
    <3>2. CASE g # h
      BY <2>1, <3>2 DEF BoxInv
    <3> QED BY <3>1, <3>2
  <2> QED BY <2>2
<1>5. ASSUME NEW h \in Handler, HandleError(h) PROVE BoxesExact' /\ SingleShape'
  BY <1>5 DEF HandleError, Goto, locals, BoxInv
<1>6. ASSUME NEW h \in Handler, Interrupt(h) PROVE BoxesExact' /\ SingleShape'
  BY <1>6 DEF Interrupt, TimeOut, LoseLease, Shutdown, Detach, locals, BoxInv
<1>7. ASSUME NEW w \in Worker, Crash(w) PROVE BoxesExact' /\ SingleShape'
  BY <1>7 DEF Crash, ForgetLocals, Reset, BoxInv
<1>8. CASE UNCHANGED vars
  BY <1>8 DEF vars, BoxInv
<1> QED
  BY <1>1, <1>2, <1>3, <1>4, <1>5, <1>6, <1>7, <1>8 DEF Next, Step, ExecuteStep

\* On every path, of success or of failure, Execute calls cleanupBox once for
\* every sandbox it has made, holds one at a time, and returns with none: what
\* stays behind is only what isolate refused to clean up, however often it does,
\* and the sandbox of a batch that panicked.
THEOREM SandboxesCleanedUp == Spec => []OneBox
<1>1. Init => BoxInv
  BY DEF Init, BoxInv, BoxesExact, SingleShape, Holds, Held, Single, HoldsSingle,
         HoldsBatch
<1>2. IInv /\ BoxInv /\ [Next]_vars => BoxInv'
  BY NextKeepsBoxes
<1>3. BoxInv => OneBox
  BY DEF BoxInv, BoxesExact, Holds, HoldsSingle, HoldsBatch, OneBox
<1> QED BY <1>1, <1>2, <1>3, Invariance, PTL DEF Spec
============================================================================
