----------------------- MODULE ExecutionVerdict_proofs -----------------------
(***************************************************************************)
(* What becomes of a submission, for any number of test cases, goroutines, *)
(* workers and faults: the worker implements Judging; the status of a      *)
(* finished submission agrees with the results of its test cases while     *)
(* every updateTestCaseResult succeeds; and while no attempt is lost, a    *)
(* terminal status is final and the ErrorHandler marks what is archived.   *)
(***************************************************************************)
EXTENDS ExecutionJudging, Execution_proofs

----------------------------------------------------------------------------
(* The worker implements Judging: initial states map to initial states,    *)
(* and every step maps to one of Judging or to a stutter.                  *)

\* The variables of Judging, as the mapping gives them.
Phases == [s \in Submission |-> Phase(s)]
Published == [s \in Submission |-> IF task[s] = "done" THEN status[s] ELSE "none"]

\* A step of Judging, or a stutter.
JudgingStep == [J!Next]_<<Phases, retried, Published>>

LEMMA PhaseOf ==
  ASSUME NEW s \in Submission
  PROVE  /\ task[s] = "none" => Phase(s) = "new"
         /\ task[s] \in {"pending", "retry"} => Phase(s) = "queued"
         /\ task[s] = "active" => Phase(s) = "judging"
         /\ task[s] = "done" => Phase(s) = "judged"
         /\ task[s] = "archived" => Phase(s) = "abandoned"
BY DEF Phase

LEMMA InitMaps == Init => J!Init
<1> SUFFICES ASSUME Init PROVE J!Init
  OBVIOUS
<1>1. \A s \in Submission : task[s] = "none" /\ Phase(s) = "new"
  BY PhaseOf DEF Init, QueueInit
<1> QED BY <1>1 DEF Init, QueueInit, J!Init, J!Unsettled

\* Steps inside of an attempt are invisible: the queue does not move and no
\* published row changes.
LEMMA StutterMaps ==
  ASSUME TypeOK, UNCHANGED <<task, retried>>,
         \A s \in Submission : task[s] = "done" => status'[s] = status[s]
  PROVE  JudgingStep
<1>1. Phases' = Phases
  BY DEF Phases, Phase
<1>2. Published' = Published
  BY DEF Published
<1> QED BY <1>1, <1>2 DEF JudgingStep

\* What a transition of one task changes.
LEMMA Moved ==
  ASSUME TypeOK, UNCHANGED status, NEW s \in Submission, NEW to \in TaskState,
         task[s] # "done", task' = [task EXCEPT ![s] = to]
  PROVE  /\ task'[s] = to
         /\ Phases' = [Phases EXCEPT ![s] = Phase(s)']
         /\ to # "done" => Published' = Published
         /\ to = "done" => Published' = [Published EXCEPT ![s] = status[s]]
<1>1. task'[s] = to /\ \A t \in Submission : t # s => task'[t] = task[t]
  BY DEF TypeOK, QueueTypeOK
<1>2. \A t \in Submission : t # s => Phase(t)' = Phase(t)
  BY <1>1 DEF Phase
<1>3. Phases' = [Phases EXCEPT ![s] = Phase(s)']
  BY <1>2 DEF Phases
<1>4. to # "done" => Published' = Published
  BY <1>1 DEF Published
<1>5. to = "done" => Published' = [Published EXCEPT ![s] = status[s]]
  BY <1>1 DEF Published
<1> QED BY <1>1, <1>3, <1>4, <1>5

LEMMA MoveMaps ==
  ASSUME TypeOK, UNCHANGED status, NEW s \in Submission,
         \/ EnqueueTask(s) \/ Dequeue(s) \/ ForwardTask(s) \/ RequeueTask(s)
         \/ AckTask(s) /\ status[s] \in Terminal
  PROVE  JudgingStep
<1> USE DEF Move
<1>1. CASE EnqueueTask(s)
  <2>1. Phases[s] = "new" /\ Phase(s)' = "queued" /\ Published' = Published
        /\ Phases' = [Phases EXCEPT ![s] = Phase(s)']
    BY <1>1, Moved DEF EnqueueTask, TaskState, Phases, Phase
  <2>2. J!Accept(s)
    BY <1>1, <2>1 DEF EnqueueTask, J!Accept, J!Become, Phases, Published
  <2> QED BY <2>2 DEF JudgingStep, J!Next
<1>2. CASE Dequeue(s)
  <2>1. Phases[s] = "queued" /\ Phase(s)' = "judging" /\ Published' = Published
        /\ Phases' = [Phases EXCEPT ![s] = Phase(s)']
    BY <1>2, Moved DEF Dequeue, TaskState, Phases, Phase
  <2>2. J!Take(s)
    BY <1>2, <2>1 DEF Dequeue, J!Take, J!Become, Phases, Published
  <2> QED BY <2>2 DEF JudgingStep, J!Next
<1>3. CASE ForwardTask(s)
  <2>1. Phases[s] = "queued" /\ Phase(s)' = "queued" /\ Published' = Published
        /\ Phases' = [Phases EXCEPT ![s] = Phase(s)']
    BY <1>3, Moved DEF ForwardTask, TaskState, Phases, Phase
  <2>2. Phases' = Phases
    BY <2>1 DEF Phases
  <2> QED BY <1>3, <2>1, <2>2 DEF ForwardTask, JudgingStep
<1>4. CASE RequeueTask(s)
  <2>1. Phases[s] = "judging" /\ Phase(s)' = "queued" /\ Published' = Published
        /\ Phases' = [Phases EXCEPT ![s] = Phase(s)']
    BY <1>4, Moved DEF RequeueTask, TaskState, Phases, Phase
  <2>2. J!Return(s)
    BY <1>4, <2>1 DEF RequeueTask, J!Return, J!Become, Phases, Published
  <2> QED BY <2>2 DEF JudgingStep, J!Next
<1>5. CASE AckTask(s) /\ status[s] \in Terminal
  <2>1. Phases[s] = "judging" /\ Phase(s)' = "judged"
        /\ Published' = [Published EXCEPT ![s] = status[s]]
        /\ Phases' = [Phases EXCEPT ![s] = Phase(s)']
    BY <1>5, Moved DEF AckTask, TaskState, Phases, Phase
  <2>2. J!Judge(s, status[s])
    BY <1>5, <2>1 DEF AckTask, J!Judge, J!Become, Phases, Published
  <2>3. \E v \in Terminal : J!Judge(s, v)
    BY <1>5, <2>2, Zenon DEF J!Judge
  <2>4. J!Next
    BY <2>3, Zenon DEF J!Next
  <2> QED BY <2>4 DEF JudgingStep
<1> QED BY <1>1, <1>2, <1>3, <1>4, <1>5

LEMMA FailMaps ==
  ASSUME TypeOK, UNCHANGED status, NEW s \in Submission, FailTask(s)
  PROVE  JudgingStep
<1>1. task[s] = "active" /\ retried[s] \in 0..MaxRetry /\ MaxRetry \in Nat
  BY MaxRetryAssumption DEF FailTask, TypeOK, QueueTypeOK
<1>2. CASE retried[s] >= MaxRetry
  <2>1. task' = [task EXCEPT ![s] = "archived"] /\ retried' = retried /\ retried[s] = MaxRetry
    BY <1>1, <1>2 DEF FailTask
  <2>2. Phases[s] = "judging" /\ Phase(s)' = "abandoned" /\ Published' = Published
        /\ Phases' = [Phases EXCEPT ![s] = Phase(s)']
    BY <1>1, <2>1, Moved DEF TaskState, Phases, Phase
  <2>3. J!Abandon(s)
    BY <2>1, <2>2 DEF J!Abandon, J!Become, Phases, Published
  <2> QED BY <2>3 DEF JudgingStep, J!Next
<1>3. CASE ~(retried[s] >= MaxRetry)
  <2>1. /\ task' = [task EXCEPT ![s] = "retry"] /\ retried[s] < MaxRetry
        /\ retried' = [retried EXCEPT ![s] = @ + 1]
    BY <1>1, <1>3 DEF FailTask
  <2>2. Phases[s] = "judging" /\ Phase(s)' = "queued" /\ Published' = Published
        /\ Phases' = [Phases EXCEPT ![s] = Phase(s)']
    BY <1>1, <2>1, Moved DEF TaskState, Phases, Phase
  <2>3. J!Strike(s)
    BY <2>1, <2>2 DEF J!Strike, J!Become, Phases, Published
  <2> QED BY <2>3 DEF JudgingStep, J!Next
<1> QED BY <1>2, <1>3

LEMMA NextMaps == IInv /\ [Next]_vars => JudgingStep
<1> SUFFICES ASSUME IInv, [Next]_vars PROVE JudgingStep
  OBVIOUS
<1> USE DEF IInv
<1>0. \A s \in Submission : task[s] = "done" => status'[s] = status[s]
  BY NextKeepsDone DEF KeepsDone
<1>1. ASSUME NEW s \in Submission, Enqueue(s) \/ Forward(s) \/ Recover(s) PROVE JudgingStep
  <2>1. UNCHANGED status /\ (EnqueueTask(s) \/ ForwardTask(s) \/ FailTask(s))
    BY <1>1 DEF Enqueue, Forward, Recover, dbVars
  <2> QED BY <2>1, MoveMaps, FailMaps
<1>2. ASSUME NEW h \in Handler, NEW s \in Submission, Start(h, s) PROVE JudgingStep
  <2>1. UNCHANGED status /\ Dequeue(s)
    BY <1>2 DEF Start, dbVars
  <2> QED BY <2>1, MoveMaps
<1>3. ASSUME NEW h \in Handler, ExecuteStep(h) PROVE JudgingStep
  <2>1. UNCHANGED <<task, retried>>
    BY <1>3, Footprint
  <2> QED BY <1>0, <2>1, StutterMaps
<1>4. ASSUME NEW h \in Handler, HandleError(h) \/ Vanish(h) \/ LoseLease(h) PROVE JudgingStep
  <2>1. UNCHANGED <<task, retried>>
    BY <1>4 DEF HandleError, Vanish, LoseLease, queueVars
  <2> QED BY <1>0, <2>1, StutterMaps
<1>5. ASSUME NEW h \in Handler, Acknowledge(h) PROVE JudgingStep
  <2>1. UNCHANGED status /\ AckTask(job[h]) /\ job[h] \in Submission
    BY <1>5 DEF Acknowledge, dbVars, OneWriter
  <2>2. status[job[h]] \in Terminal
    BY <1>5 DEF Acknowledge, SuccessIsWritten
  <2> QED BY <2>1, <2>2, MoveMaps
<1>6. ASSUME NEW h \in Handler, GiveBack(h) \/ TimeOut(h) PROVE JudgingStep
  <2>1. UNCHANGED status /\ FailTask(job[h]) /\ job[h] \in Submission
    BY <1>6 DEF GiveBack, TimeOut, Detach, dbVars, Control
  <2> QED BY <2>1, FailMaps
<1>7. ASSUME NEW h \in Handler, Shutdown(h) PROVE JudgingStep
  <2>1. UNCHANGED status /\ RequeueTask(job[h]) /\ job[h] \in Submission
    BY <1>7 DEF Shutdown, Detach, dbVars, OneWriter
  <2> QED BY <2>1, MoveMaps
<1>8. ASSUME NEW w \in Worker, Crash(w) PROVE JudgingStep
  <2>1. UNCHANGED <<task, retried>>
    BY <1>8 DEF Crash, queueVars
  <2> QED BY <1>0, <2>1, StutterMaps
<1>9. CASE UNCHANGED vars
  <2>1. UNCHANGED <<task, retried>>
    BY <1>9 DEF vars
  <2> QED BY <1>0, <2>1, StutterMaps
<1> QED
  BY <1>1, <1>2, <1>3, <1>4, <1>5, <1>6, <1>7, <1>8, <1>9
     DEF Next, Step, ExecuteStep, Interrupt

\* Whatever processes, leases, statements and sandboxes do, the queue and the
\* row in Postgres together behave as Judging says: one attempt at a time, at
\* most MaxRetry strikes, one verdict, published for good, or none.
THEOREM WorkerImplementsJudging == Spec => ImplementsJudging
<1>1. Init => J!Init
  BY InitMaps
<1>2. IInv /\ [Next]_vars => [J!Next]_<<Phases, retried, Published>>
  BY NextMaps DEF JudgingStep
<1> QED BY <1>1, <1>2, Invariance, PTL DEF Spec, ImplementsJudging, J!Spec, Phases, Published
----------------------------------------------------------------------------
(* The status of a finished submission and the results of its test cases.  *)

\* The test cases whose results the attempt has written, and the verdicts it
\* has found: those, and the one it is about to write.
Written(h) == IF pc[h] \in {"complete", "succeeded"} THEN 1..NumTests[job[h]] ELSE 1..(tc[h] - 1)

Seen(h) == {rows[job[h]][i] : i \in Written(h)}
           \cup (IF pc[h] = "row" THEN {found[h]} ELSE {})

\* The overall status is what the verdicts seen so far add up to.
Tallied(h) ==
  /\ Seen(h) \subseteq Terminal
  /\ overall[h] = "accepted" \/ overall[h] \in Seen(h)
  /\ overall[h] = "accepted" => Seen(h) \subseteq {"accepted"}
  /\ overall[h] = "compilation_error" =>
       Seen(h) \subseteq {"compilation_error"} /\ pc[h] \in {"row", "complete", "succeeded"}
  /\ overall[h] # "compilation_error" => "compilation_error" \notin Seen(h)

\* The same test cases by their positions, with what each of them came to.
Reported(h) == Written(h) \cup (IF pc[h] = "row" THEN {tc[h]} ELSE {})
ResultOf(h, i) == IF pc[h] = "row" /\ i = tc[h] THEN found[h] ELSE rows[job[h]][i]

\* The first of them that is not accepted decides, unless one could not be run.
FirstDecides(h) ==
  \A i \in Reported(h) :
    ResultOf(h, i) # "accepted" /\ (\A j \in 1 .. i - 1 : ResultOf(h, j) = "accepted")
      => overall[h] \in {ResultOf(h, i), "internal_error"}

\* Which test case each step of Execute is at.
Counted(h) ==
  /\ tc[h] \in 0..NumTests[job[h]]
  /\ pc[h] = "fetch" => tc[h] = 0
  /\ pc[h] \in {"tmp", "markCompiling", "compile", "markRunning"} => tc[h] <= 1
  /\ pc[h] \in {"markRunning", "run", "row"} => tc[h] >= 1
  /\ pc[h] = "tmp" /\ ~Compiled[job[h]] => tc[h] = 1

Trying(h) == attached[h] /\ pc[h] \in Inside \cup {"succeeded"}

Accounted(h) ==
  /\ pc[h] = "idle" => tc[h] = 0 /\ overall[h] = "accepted"
  /\ Trying(h) => Tallied(h) /\ Counted(h) /\ FirstDecides(h)
  /\ Trying(h) /\ pc[h] = "succeeded" => status[job[h]] = overall[h]

Accounts == \A h \in Handler : Accounted(h)

----------------------------------------------------------------------------
LEMMA ReportedStatus ==
  ASSUME NEW r \in Report
  PROVE  TestStatus(r) \in Terminal \ {"compilation_error"}
BY DEF TestStatus, mapIsolateStatus, Terminal, Report

\* Whoever is not touched keeps its account.
LEMMA OthersAccount ==
  ASSUME NEW g \in Handler, Accounted(g),
         pc'[g] = pc[g], job'[g] = job[g], attached'[g] => attached[g],
         tc'[g] = tc[g], found'[g] = found[g], overall'[g] = overall[g],
         attached[g] => rows'[job[g]] = rows[job[g]] /\ status'[job[g]] = status[job[g]]
  PROVE  Accounted(g)'
<1>1. ASSUME Trying(g)'
      PROVE  Tallied(g)' /\ Counted(g)' /\ FirstDecides(g)'
  <2>1. Trying(g) /\ Tallied(g) /\ Counted(g) /\ FirstDecides(g)
    BY <1>1 DEF Accounted, Trying
  <2>2. Tallied(g)' /\ Counted(g)'
    BY <2>1 DEF Trying, Tallied, Counted, Seen, Written
  <2>3. Reported(g)' = Reported(g) /\ \A i : ResultOf(g, i)' = ResultOf(g, i)
    BY <2>1 DEF Trying, Reported, Written, ResultOf
  <2>4. FirstDecides(g)'
    BY <2>1, <2>3 DEF FirstDecides
  <2> QED BY <2>2, <2>4
<1>2. Trying(g)' => Trying(g) /\ status'[job[g]] = status[job[g]]
  BY DEF Trying
<1> QED BY <1>1, <1>2 DEF Accounted

\* A goroutine that is idle again has forgotten its locals.
LEMMA IdleAccount ==
  ASSUME NEW g \in Handler, pc'[g] = "idle", tc'[g] = 0, overall'[g] = "accepted"
  PROVE  Accounted(g)'
BY DEF Accounted, Trying, Inside

\* A step of Execute that goes on keeps the first result that is not accepted
\* in charge.
LEMMA ExecuteKeepsOrder ==
  ASSUME IInv, BoxInv, Accounts, "row" \notin FaultKinds,
         NEW h \in Handler, ExecuteStep(h), attached[h], pc'[h] # "failed"
  PROVE  FirstDecides(h)'
<1> DEFINE s == job[h]
<1>0. /\ pc \in [Handler -> Label] /\ tc \in [Handler -> Nat] /\ s \in Submission
      /\ found \in [Handler -> Terminal] /\ overall \in [Handler -> Terminal]
      /\ NumTests[s] \in Nat \ {0}
      /\ DOMAIN rows = Submission /\ rows[s] \in [1..NumTests[s] -> Status]
  BY ExecutionAssumption DEF IInv, TypeOK, HandlerTypeOK, DbTypeOK, OneWriter
<1>1. pc[h] \in Inside /\ job' = job
  BY Footprint DEF IInv
<1>2. Tallied(h) /\ Counted(h) /\ FirstDecides(h)
  BY <1>1 DEF Accounts, Accounted, Trying
\* Nothing has been reported before the first test case is run.
<1>3. ASSUME tc'[h] \in {0, 1}, pc'[h] \notin {"row", "complete", "succeeded"}
      PROVE  FirstDecides(h)'
  <2>1. Reported(h)' = {}
    BY <1>3 DEF Reported, Written
  <2> QED BY <2>1 DEF FirstDecides
\* The step reports nothing new.
<1>4. ASSUME Reported(h)' = Reported(h), overall'[h] = overall[h],
             \A i \in Reported(h) : ResultOf(h, i)' = ResultOf(h, i),
             Reported(h) \subseteq Nat,
             \A i \in Reported(h) : 1 .. i - 1 \subseteq Reported(h)
      PROVE  FirstDecides(h)'
  BY <1>2, <1>4 DEF FirstDecides
<1>5. ASSUME rows' = rows, tc'[h] = tc[h], overall'[h] = overall[h],
             \/ pc[h] = "complete" /\ pc'[h] \in {"complete", "succeeded"}
             \/ pc[h] \notin {"row", "complete"} /\ pc'[h] \notin {"row", "complete", "succeeded"}
      PROVE  FirstDecides(h)'
  <2>1. pc[h] # "succeeded" /\ pc[h] # "row"
    BY <1>1, <1>5 DEF Inside
  <2>2. Reported(h)' = Reported(h) /\ \A i \in Reported(h) : ResultOf(h, i)' = ResultOf(h, i)
    BY <1>1, <1>5, <2>1 DEF Reported, Written, ResultOf
  <2> QED BY <1>5, <2>2, <1>2, <1>1, <2>1 DEF FirstDecides, ResultOf
\* A result that is about to be written.
<1>6. ASSUME rows' = rows, tc'[h] = tc[h], pc[h] \in {"init", "files", "run"}, pc'[h] = "row",
             \/ overall'[h] = "internal_error"
             \/ overall'[h] = Overall(overall[h], found'[h])
      PROVE  FirstDecides(h)'
  <2> SUFFICES ASSUME NEW i \in Reported(h)', ResultOf(h, i)' # "accepted",
                      \A j \in 1 .. i - 1 : ResultOf(h, j)' = "accepted",
                      overall'[h] = Overall(overall[h], found'[h])
               PROVE  overall'[h] \in {ResultOf(h, i)', "internal_error"}
    BY <1>6 DEF FirstDecides
  <2>1. Reported(h) = 1 .. tc[h] - 1 /\ Reported(h)' = (1 .. tc[h] - 1) \cup {tc[h]}
    BY <1>6 DEF Reported, Written
  <2>2. /\ \A j \in 1 .. tc[h] - 1 : /\ ResultOf(h, j) = rows[s][j]
                                     /\ ResultOf(h, j)' = rows[s][j]
        /\ ResultOf(h, tc[h])' = found'[h]
    BY <1>0, <1>1, <1>6 DEF ResultOf
  <2>3. CASE i \in 1 .. tc[h] - 1
    <3>1. 1 .. i - 1 \subseteq 1 .. tc[h] - 1
      BY <1>0, <2>3
    <3>2. overall[h] \in {ResultOf(h, i), "internal_error"} /\ ResultOf(h, i) # "accepted"
      BY <1>2, <2>1, <2>2, <2>3, <3>1 DEF FirstDecides
    <3>3. overall'[h] = overall[h]
      BY <3>2 DEF Overall
    <3> QED BY <2>2, <2>3, <3>2, <3>3
  <2>4. CASE i = tc[h]
    <3>1. \A j \in 1 .. tc[h] - 1 : rows[s][j] = "accepted"
      BY <2>2, <2>4
    <3>2. Seen(h) \subseteq {"accepted"}
      BY <1>6, <3>1 DEF Seen, Written
    <3>3. overall[h] = "accepted"
      BY <1>2, <3>2 DEF Tallied
    <3>4. ResultOf(h, i)' = found'[h]
      BY <1>6, <2>4 DEF ResultOf
    <3>5. overall'[h] = found'[h]
      BY <3>3, <3>4 DEF Overall
    <3> QED BY <3>4, <3>5
  <2> QED BY <2>1, <2>3, <2>4
<1>7. ASSUME Lose(h), UNCHANGED <<rows, tc>>, pc[h] \in {"init", "files", "run"}
      PROVE  FirstDecides(h)'
  <2>1. pc'[h] = "row" /\ overall'[h] = "internal_error"
    BY <1>0, <1>7 DEF Lose, Goto, Result
  <2> QED BY <1>6, <1>7, <2>1
<1> USE DEF Goto, queueVars, dbVars, locals
<1>11. CASE Fetch(h)
  <2>1. tc'[h] \in {0, 1} /\ pc'[h] \in {"init", "tmp"}
    BY <1>0, <1>11 DEF Fetch
  <2> QED BY <1>3, <2>1
<1>12. CASE MakeTempDir(h) \/ MarkCompiling(h) \/ MarkRunning(h)
  BY <1>0, <1>5, <1>12 DEF MakeTempDir, MarkCompiling, MarkRunning
<1>13. CASE InitBox(h)
  <2>1. \/ Lose(h) /\ UNCHANGED <<rows, tc>> /\ pc[h] = "init"
        \/ pc[h] = "init" /\ pc'[h] = "files" /\ UNCHANGED <<rows, tc, overall>>
    BY <1>0, <1>13 DEF InitBox
  <2> QED BY <1>5, <1>7, <2>1
<1>14. CASE CreateFiles(h)
  <2>1. \/ Lose(h) /\ UNCHANGED <<rows, tc>> /\ pc[h] = "files"
        \/ /\ pc[h] = "files" /\ pc'[h] \in {"markCompiling", "markRunning", "compile", "run"}
           /\ UNCHANGED <<rows, tc, overall>>
    BY <1>0, <1>14 DEF CreateFiles
  <2> QED BY <1>5, <1>7, <2>1
<1>15. CASE Compile(h)
  <2>1. tc'[h] = 1
    BY <1>0, <1>15 DEF Compile
  <2>2. CASE pc'[h] = "markRunning"
    BY <1>3, <2>1, <2>2
  <2>3. CASE pc'[h] = "row"
    <3>1. overall'[h] = "compilation_error" /\ found'[h] = "compilation_error"
      BY <1>0, <1>15, <2>3 DEF Compile, Result
    <3>2. Reported(h)' = {1} /\ ResultOf(h, 1)' = "compilation_error"
      BY <2>1, <2>3, <3>1 DEF Reported, Written, ResultOf
    <3> QED BY <3>1, <3>2 DEF FirstDecides
  <2> QED BY <1>0, <1>15, <2>2, <2>3 DEF Compile
<1>16. CASE Run(h)
  <2>1. CASE Lose(h) /\ UNCHANGED tc
    BY <1>7, <1>16, <2>1 DEF Run
  <2>2. CASE ~Lose(h)
    <3>1. PICK r \in Reports : Result(h, TestStatus(r), Overall(overall[h], TestStatus(r)))
      BY <1>16, <2>2 DEF Run
    <3> DEFINE v == TestStatus(r)
    <3>2. found'[h] = v /\ overall'[h] = Overall(overall[h], v)
      BY <1>0, <3>1 DEF Result
    <3>3. pc[h] = "run" /\ pc'[h] = "row" /\ UNCHANGED <<rows, tc>>
      BY <1>0, <1>16, <2>2 DEF Run
    <3> HIDE DEF v
    <3> QED BY <1>6, <3>2, <3>3
  <2> QED BY <1>16, <2>1, <2>2 DEF Run
<1>17. CASE WriteRow(h)
  <2>1. /\ pc[h] = "row" /\ UNCHANGED <<found, overall>> /\ tc[h] \in 1..NumTests[s]
        /\ rows' = [rows EXCEPT ![s][tc[h]] = found[h]]
    BY <1>0, <1>2, <1>17 DEF WriteRow, DbFails, Fault, Counted
  <2>2. /\ Reported(h) = 1 .. tc[h]
        /\ \A i \in 1 .. tc[h] : rows'[s][i] = ResultOf(h, i)
    BY <1>0, <2>1 DEF Reported, Written, ResultOf
  <2>3. CASE tc[h] < NumTests[s] /\ overall[h] = "compilation_error"
    <3>1. pc'[h] = "row" /\ tc'[h] = tc[h] + 1
      BY <1>0, <1>17, <2>3 DEF WriteRow, NextRow
    <3>2. \A i \in 1 .. tc[h] : ResultOf(h, i) \in Seen(h)
      BY <2>1, <2>2 DEF Seen, Written, ResultOf
    <3>3. \A i \in 1 .. tc[h] : ResultOf(h, i) = "compilation_error"
      BY <1>2, <2>3, <3>2 DEF Tallied
    <3>4. \A i \in 1 .. tc[h] : ResultOf(h, i)' = "compilation_error"
      BY <1>1, <2>1, <2>2, <3>1, <3>3 DEF ResultOf
    <3>5. Reported(h)' = 1 .. tc[h] + 1
      BY <2>1, <3>1 DEF Reported, Written
    <3>6. \A i \in Reported(h)' : i = 1 \/ 1 \in 1 .. i - 1
      BY <2>1, <3>5
    <3>7. overall'[h] = "compilation_error" /\ ResultOf(h, 1)' = "compilation_error"
      BY <2>1, <2>3, <3>4
    <3> QED BY <3>6, <3>7 DEF FirstDecides
  <2>4. CASE ~(tc[h] < NumTests[s] /\ overall[h] = "compilation_error")
    <3>1. \/ pc'[h] = "init" /\ tc'[h] = tc[h] + 1
          \/ pc'[h] = "complete" /\ tc[h] = NumTests[s]
      BY <1>0, <1>17, <2>1, <2>4 DEF WriteRow, NextRow
    <3>2. Reported(h)' = 1 .. tc[h]
      BY <1>0, <1>1, <3>1 DEF Reported, Written
    <3>3. \A i \in 1 .. tc[h] : ResultOf(h, i)' = ResultOf(h, i)
      BY <1>1, <2>2, <3>1 DEF ResultOf
    <3>4. 1 .. tc[h] \subseteq Nat /\ \A i \in 1 .. tc[h] : 1 .. i - 1 \subseteq 1 .. tc[h]
      BY <1>0
    <3> QED BY <1>4, <2>1, <2>2, <3>2, <3>3, <3>4
  <2> QED BY <2>3, <2>4
<1>18. CASE Complete(h)
  <2>1. pc[h] = "complete" /\ pc'[h] \in {"complete", "succeeded"} /\ UNCHANGED <<rows, tc, overall>>
    BY <1>0, <1>18 DEF Complete, TryAgain
  <2> QED BY <1>5, <2>1
<1>19. CASE Panic(h)
  BY <1>0, <1>19 DEF Panic
<1> QED
  BY <1>11, <1>12, <1>13, <1>14, <1>15, <1>16, <1>17, <1>18, <1>19 DEF ExecuteStep

LEMMA ExecuteKeepsAccount ==
  ASSUME IInv, BoxInv, Accounts, "row" \notin FaultKinds,
         NEW h \in Handler, ExecuteStep(h), attached[h]
  PROVE  Accounted(h)'
<1> DEFINE s == job[h]
<1>0. /\ pc \in [Handler -> Label] /\ tc \in [Handler -> Nat] /\ s \in Submission
      /\ found \in [Handler -> Terminal] /\ overall \in [Handler -> Terminal]
      /\ NumTests[s] \in Nat \ {0} /\ Compiled[s] \in BOOLEAN
      /\ DOMAIN rows = Submission /\ rows[s] \in [1..NumTests[s] -> Status]
      /\ status \in [Submission -> Status]
  BY ExecutionAssumption DEF IInv, TypeOK, HandlerTypeOK, DbTypeOK, OneWriter
<1>1. pc[h] \in Inside /\ pc'[h] \in Inside \cup {"succeeded", "failed"} /\ job' = job /\ attached' = attached
  BY Footprint DEF IInv
<1>2. Tallied(h) /\ Counted(h)
  BY <1>1 DEF Accounts, Accounted, Trying
<1>3. Single(h) /\ pc[h] \in HoldsSingle \cup {"init"} => tc[h] = 1
  BY DEF BoxInv, SingleShape
<1>4. SUFFICES ASSUME pc'[h] # "failed"
               PROVE  /\ Tallied(h)' /\ Counted(h)'
                      /\ pc'[h] = "succeeded" => status'[s] = overall'[h]
  BY <1>1, ExecuteKeepsOrder DEF Accounted, Trying, Inside
\* Nothing has been seen before the first test case is run.
<1>5. ASSUME rows' = rows, tc[h] <= 1, tc'[h] <= 1, tc'[h] \in Nat,
             overall'[h] = overall[h],
             pc[h] \notin {"row", "complete", "succeeded"},
             pc'[h] \notin {"row", "complete", "succeeded"}
      PROVE  Tallied(h)'
  <2>1. Written(h) = {} /\ Written(h)' = {}
    BY <1>0, <1>5 DEF Written
  <2>2. Seen(h) = {} /\ Seen(h)' = {}
    BY <2>1, <1>5 DEF Seen
  <2> QED BY <1>2, <1>5, <2>2 DEF Tallied
\* Nor does a step between two test cases see anything.
<1>6. ASSUME rows' = rows, tc'[h] = tc[h], overall'[h] = overall[h],
             pc[h] \notin {"row", "complete", "succeeded"},
             pc'[h] \notin {"row", "complete", "succeeded"}
      PROVE  Tallied(h)'
  <2>1. Seen(h)' = Seen(h)
    BY <1>1, <1>6 DEF Seen, Written
  <2> QED BY <1>2, <1>6, <2>1 DEF Tallied
\* A result that is about to be written.
<1>7. ASSUME NEW v \in Terminal \ {"compilation_error"}, NEW o \in Terminal,
             rows' = rows, tc'[h] = tc[h], found'[h] = v, overall'[h] = o,
             pc[h] \notin {"row", "complete", "succeeded"}, pc'[h] = "row",
             \/ o = v /\ v # "accepted"
             \/ o = overall[h] /\ (o = "accepted" => v = "accepted")
      PROVE  Tallied(h)'
  <2>1. Seen(h)' = Seen(h) \cup {v}
    BY <1>1, <1>7 DEF Seen, Written
  <2>2. overall[h] # "compilation_error"
    BY <1>2, <1>7 DEF Tallied
  <2>3. pc[h]' = "row" /\ overall[h]' = o
    BY <1>7
  <2> HIDE DEF s
  <2>4. CASE o = v /\ v # "accepted"
    BY <1>2, <1>7, <2>1, <2>2, <2>3, <2>4 DEF Tallied
  <2>5. CASE o = overall[h] /\ (o = "accepted" => v = "accepted")
    BY <1>2, <1>7, <2>1, <2>2, <2>3, <2>5 DEF Tallied
  <2> QED BY <1>7, <2>4, <2>5
<1>8. ASSUME Lose(h), pc[h] \in {"init", "files", "run"}, UNCHANGED <<rows, tc>>
      PROVE  Tallied(h)' /\ Counted(h)' /\ pc'[h] # "succeeded"
  <2>1. /\ pc'[h] = "row" /\ tc[h] # 0
        /\ found'[h] = "internal_error" /\ overall'[h] = "internal_error"
    BY <1>0, <1>4, <1>8 DEF Lose, Goto, Result
  <2>2. Tallied(h)'
    BY <1>7, <1>8, <2>1, StatusTypes
  <2>3. Counted(h)'
    BY <1>0, <1>1, <1>2, <1>8, <2>1 DEF Counted
  <2> QED BY <2>1, <2>2, <2>3
<1> USE DEF Goto, queueVars, dbVars, locals
<1>11. CASE Fetch(h)
  <2>1. /\ pc[h] = "fetch" /\ pc'[h] \in {"init", "tmp"} /\ UNCHANGED <<rows, overall>>
        /\ tc[h] = 0 /\ tc'[h] \in {0, 1} /\ (pc'[h] = "tmp" /\ ~Compiled[s] => tc'[h] = 1)
    BY <1>0, <1>2, <1>4, <1>11 DEF Fetch, Counted, Single
  <2>2. Tallied(h)'
    BY <1>5, <2>1
  <2>3. Counted(h)'
    BY <1>0, <1>1, <2>1 DEF Counted
  <2> QED BY <2>1, <2>2, <2>3
<1>12. CASE MakeTempDir(h)
  <2>1. /\ pc[h] = "tmp" /\ UNCHANGED <<rows, overall, tc>>
        /\ pc'[h] = IF Compiled[s] THEN "markCompiling" ELSE "markRunning"
    BY <1>0, <1>4, <1>12 DEF MakeTempDir
  <2>2. Tallied(h)'
    BY <1>6, <2>1
  <2>3. Counted(h)'
    BY <1>0, <1>1, <1>2, <2>1 DEF Counted
  <2> QED BY <2>1, <2>2, <2>3
<1>13. CASE InitBox(h)
  <2>1. CASE Lose(h)
    BY <1>8, <1>13, <2>1 DEF InitBox
  <2>2. CASE ~Lose(h)
    <3>1. pc[h] = "init" /\ pc'[h] = "files" /\ UNCHANGED <<rows, overall, tc>>
      BY <1>0, <1>13, <2>2 DEF InitBox
    <3>2. Tallied(h)'
      BY <1>6, <3>1
    <3>3. Counted(h)'
      BY <1>0, <1>1, <1>2, <3>1 DEF Counted
    <3> QED BY <3>1, <3>2, <3>3
  <2> QED BY <2>1, <2>2
<1>14. CASE CreateFiles(h)
  <2>1. CASE Lose(h)
    BY <1>8, <1>14, <2>1 DEF CreateFiles
  <2>2. CASE ~Lose(h)
    <3>1. /\ pc[h] = "files" /\ UNCHANGED <<rows, overall, tc>>
          /\ pc'[h] = IF Single(h)
                      THEN IF Compiled[s] THEN "markCompiling" ELSE "markRunning"
                      ELSE IF tc[h] = 0 THEN "compile" ELSE "run"
      BY <1>0, <1>14, <2>2 DEF CreateFiles
    <3>2. Tallied(h)'
      BY <1>6, <3>1
    <3>3. Counted(h)'
      BY <1>0, <1>1, <1>2, <1>3, <3>1 DEF Counted, HoldsSingle
    <3> QED BY <3>1, <3>2, <3>3
  <2> QED BY <2>1, <2>2
<1>15. CASE MarkCompiling(h) \/ MarkRunning(h)
  <2>1. /\ UNCHANGED <<rows, overall, tc>>
        /\ \/ pc[h] = "markCompiling" /\ pc'[h] = IF Single(h) THEN "compile" ELSE "init"
           \/ pc[h] = "markRunning" /\ pc'[h] = IF Single(h) THEN "run" ELSE "init"
    BY <1>0, <1>15 DEF MarkCompiling, MarkRunning
  <2>2. Tallied(h)'
    BY <1>6, <2>1
  <2>3. Counted(h)'
    BY <1>0, <1>1, <1>2, <2>1 DEF Counted
  <2> QED BY <2>1, <2>2, <2>3
<1>16. CASE Compile(h)
  <2>1. pc[h] = "compile" /\ UNCHANGED rows /\ tc'[h] = 1 /\ tc[h] <= 1
    BY <1>0, <1>2, <1>4, <1>16 DEF Compile, Counted
  <2>2. CASE pc'[h] = "markRunning"
    <3>1. overall'[h] = overall[h]
      BY <1>0, <1>16, <2>2 DEF Compile
    <3>2. Tallied(h)'
      BY <1>5, <2>1, <2>2, <3>1
    <3>3. Counted(h)'
      BY <1>0, <1>1, <2>1, <2>2 DEF Counted
    <3> QED BY <2>2, <3>2, <3>3
  <2>3. CASE pc'[h] = "row"
    <3>1. overall'[h] = "compilation_error" /\ found'[h] = "compilation_error"
      BY <1>0, <1>16, <2>3 DEF Compile, Result
    <3>2. Written(h)' = {}
      BY <1>0, <2>1, <2>3 DEF Written
    <3>3. Seen(h)' = {"compilation_error"}
      BY <2>3, <3>1, <3>2 DEF Seen
    <3>4. Tallied(h)'
      BY <2>3, <3>1, <3>3, StatusTypes DEF Tallied
    <3>5. Counted(h)'
      BY <1>0, <1>1, <2>1, <2>3 DEF Counted
    <3> QED BY <2>3, <3>4, <3>5
  <2> QED BY <1>0, <1>4, <1>16, <2>2, <2>3 DEF Compile
<1>17. CASE Run(h)
  <2>1. CASE Lose(h) /\ UNCHANGED tc
    BY <1>8, <1>17, <2>1 DEF Run
  <2>2. CASE ~Lose(h)
    <3>1. PICK r \in Reports : Result(h, TestStatus(r), Overall(overall[h], TestStatus(r)))
      BY <1>17, <2>2 DEF Run
    <3>2. pc[h] = "run" /\ pc'[h] = "row" /\ UNCHANGED <<rows, tc>>
      BY <1>0, <1>17, <2>2 DEF Run
    <3> DEFINE v == TestStatus(r)
               o == Overall(overall[h], v)
    <3>3. v \in Terminal \ {"compilation_error"}
      BY ReportedStatus, ExecutionAssumption
    <3>4. found'[h] = v /\ overall'[h] = o
      BY <1>0, <3>1 DEF Result
    <3> HIDE DEF v
    <3>5. /\ o \in Terminal
          /\ \/ o = v /\ v # "accepted"
             \/ o = overall[h] /\ (o = "accepted" => v = "accepted")
      BY <1>0, <3>3 DEF Overall
    <3> HIDE DEF o
    <3>6. Tallied(h)'
      BY <1>7, <3>2, <3>3, <3>4, <3>5
    <3>7. Counted(h)'
      BY <1>0, <1>1, <1>2, <3>2 DEF Counted
    <3> QED BY <3>2, <3>6, <3>7
  <2> QED BY <1>17, <2>1, <2>2 DEF Run
<1>18. CASE WriteRow(h)
  <2>1. /\ pc[h] = "row" /\ UNCHANGED <<found, overall>> /\ tc[h] \in 1..NumTests[s]
        /\ rows' = [rows EXCEPT ![s][tc[h]] = found[h]]
    BY <1>0, <1>2, <1>18 DEF WriteRow, DbFails, Fault, Counted
  <2>2. /\ \A i \in 1..NumTests[s] : rows'[s][i] = IF i = tc[h] THEN found[h] ELSE rows[s][i]
    BY <1>0, <2>1
  <2>3. Seen(h) = {rows[s][i] : i \in 1..(tc[h] - 1)} \cup {found[h]}
    BY <2>1 DEF Seen, Written
  <2>4. {rows'[s][i] : i \in 1..tc[h]} = Seen(h)
    <3>1. 1..tc[h] = (1..(tc[h] - 1)) \cup {tc[h]} /\ tc[h] \notin 1..(tc[h] - 1)
      BY <1>0, <2>1
    <3>2. \A i \in 1..(tc[h] - 1) : rows'[s][i] = rows[s][i]
      BY <1>0, <2>1, <2>2
    <3>3. rows'[s][tc[h]] = found[h]
      BY <2>1, <2>2
    <3> QED BY <2>3, <3>1, <3>2, <3>3
  <2>5. CASE tc[h] < NumTests[s]
    <3>1. /\ tc'[h] = tc[h] + 1
          /\ pc'[h] = IF overall[h] = "compilation_error" THEN "row" ELSE "init"
      BY <1>0, <1>18, <2>5 DEF WriteRow, NextRow
    <3>2. Written(h)' = 1..tc[h]
      BY <1>0, <3>1 DEF Written
    <3>3. {rows[job[h]][i] : i \in Written(h)}' = Seen(h)
      BY <1>1, <2>4, <3>2
    <3>4. Seen(h)' = Seen(h)
      <4>1. CASE overall[h] = "compilation_error"
        <5>1. found'[h] \in Seen(h) /\ pc'[h] = "row"
          BY <2>1, <2>3, <3>1, <4>1
        <5> QED BY <3>3, <5>1 DEF Seen
      <4>2. CASE overall[h] # "compilation_error"
        BY <3>1, <3>3, <4>2 DEF Seen
      <4> QED BY <4>1, <4>2
    <3>5. Tallied(h)'
      BY <1>2, <2>1, <3>1, <3>4 DEF Tallied
    <3>6. Counted(h)'
      BY <1>0, <1>1, <2>1, <2>5, <3>1 DEF Counted
    <3> QED BY <3>1, <3>5, <3>6
  <2>6. CASE ~(tc[h] < NumTests[s])
    <3>1. tc' = tc /\ pc'[h] = "complete" /\ tc[h] = NumTests[s]
      BY <1>0, <1>18, <2>1, <2>6 DEF WriteRow, NextRow
    <3>2. Written(h)' = 1..tc[h]
      BY <1>1, <3>1 DEF Written
    <3>3. Seen(h)' = Seen(h)
      BY <1>1, <2>4, <3>1, <3>2 DEF Seen
    <3>4. Tallied(h)'
      BY <1>2, <2>1, <3>1, <3>3 DEF Tallied
    <3>5. Counted(h)'
      BY <1>0, <1>1, <2>1, <3>1 DEF Counted
    <3> QED BY <3>1, <3>4, <3>5
  <2> QED BY <2>5, <2>6
<1>19. CASE Complete(h)
  <2>1. /\ pc[h] = "complete" /\ pc'[h] \in {"complete", "succeeded"}
        /\ UNCHANGED <<rows, tc, found, overall>>
        /\ pc'[h] = "succeeded" => status'[s] = overall[h]
    BY <1>0, <1>4, <1>19 DEF Complete, TryAgain
  <2>2. Seen(h)' = Seen(h)
    BY <1>1, <2>1 DEF Seen, Written
  <2>3. Tallied(h)'
    BY <1>2, <2>1, <2>2 DEF Tallied
  <2>4. Counted(h)'
    BY <1>1, <1>2, <2>1 DEF Counted
  <2> QED BY <2>1, <2>3, <2>4
<1>20. CASE Panic(h)
  BY <1>0, <1>4, <1>20 DEF Panic
<1> QED
  BY <1>11, <1>12, <1>13, <1>14, <1>15, <1>16, <1>17, <1>18, <1>19, <1>20 DEF ExecuteStep

----------------------------------------------------------------------------
LEMMA NextKeepsAccounts ==
  ASSUME IInv, BoxInv, Accounts, "row" \notin FaultKinds, [Next]_vars
  PROVE  Accounts'
<1> SUFFICES ASSUME NEW g \in Handler PROVE Accounted(g)'
  BY DEF Accounts
<1>0. /\ pc \in [Handler -> Label] /\ job \in [Handler -> Submission \cup {NoJob}]
      /\ attached \in [Handler -> BOOLEAN] /\ tc \in [Handler -> Nat]
      /\ found \in [Handler -> Terminal] /\ overall \in [Handler -> Terminal]
      /\ Accounted(g)
  BY DEF IInv, TypeOK, HandlerTypeOK, Accounts
<1>1. ASSUME NEW s \in Submission, Enqueue(s) \/ Forward(s) \/ Recover(s) PROVE Accounted(g)'
  BY <1>0, <1>1, OthersAccount DEF Enqueue, Forward, Recover, dbVars, locals
<1>2. ASSUME NEW h \in Handler, NEW s \in Submission, Start(h, s) PROVE Accounted(g)'
  <2>1. CASE g # h
    BY <1>0, <1>2, <2>1, OthersAccount DEF Start, Goto, dbVars, locals
  <2>2. CASE g = h
    <3>1. pc'[g] = "fetch" /\ tc'[g] = 0 /\ overall'[g] = "accepted" /\ job'[g] = s
      BY <1>0, <1>2, <2>2 DEF Start, Goto, locals, Accounted
    <3>2. Written(g)' = {}
      BY <3>1 DEF Written
    <3>3. Seen(g)' = {}
      BY <3>1, <3>2 DEF Seen
    <3>4. Tallied(g)'
      BY <3>1, <3>3 DEF Tallied
    <3>5. Counted(g)'
      BY <3>1, ExecutionAssumption DEF Counted
    <3>6. FirstDecides(g)'
      BY <3>1, <3>2 DEF FirstDecides, Reported
    <3> QED BY <3>1, <3>4, <3>5, <3>6 DEF Accounted
  <2> QED BY <2>1, <2>2
<1>3. ASSUME NEW h \in Handler, ExecuteStep(h) PROVE Accounted(g)'
  <2>1. /\ \A f \in Handler : f # h => pc'[f] = pc[f]
        /\ pc'[h] \in Inside \cup {"succeeded", "failed"}
        /\ UNCHANGED <<job, attached>>
        /\ \A s \in Submission : status'[s] # status[s] \/ rows'[s] # rows[s]
                                   => attached[h] /\ s = job[h]
    BY <1>3, Footprint DEF IInv
  <2>2. CASE g = h /\ attached[h]
    BY <1>3, <2>2, ExecuteKeepsAccount
  <2>3. CASE g = h /\ ~attached[h]
    BY <2>1, <2>3 DEF Accounted, Trying, Inside
  <2>4. CASE g # h
    <3>1. tc'[g] = tc[g] /\ found'[g] = found[g] /\ overall'[g] = overall[g]
      <4> USE DEF Result, Lose, locals
      <4>1. CASE Fetch(h) \/ MakeTempDir(h) \/ InitBox(h) \/ CreateFiles(h) \/ MarkCompiling(h)
        BY <1>0, <2>4, <4>1 DEF Fetch, MakeTempDir, InitBox, CreateFiles, MarkCompiling
      <4>2. CASE \/ Compile(h) \/ MarkRunning(h) \/ Run(h) \/ WriteRow(h) \/ Complete(h)
                 \/ Panic(h)
        BY <1>0, <2>4, <4>2 DEF Compile, MarkRunning, Run, WriteRow, NextRow, Complete, Panic
      <4> QED BY <1>3, <4>1, <4>2 DEF ExecuteStep
    <3>2. attached[g] => rows'[job[g]] = rows[job[g]] /\ status'[job[g]] = status[job[g]]
      BY <2>1, <2>4 DEF IInv, OneWriter
    <3> QED BY <1>0, <2>1, <2>4, <3>1, <3>2, OthersAccount
  <2> QED BY <2>2, <2>3, <2>4
<1>4. ASSUME NEW h \in Handler, Acknowledge(h) \/ GiveBack(h) \/ Vanish(h) PROVE Accounted(g)'
  <2>1. Leave(h) /\ UNCHANGED dbVars
    BY <1>4 DEF Acknowledge, GiveBack, Vanish
  <2>2. CASE g = h
    <3>1. pc'[g] = "idle" /\ tc'[g] = 0 /\ overall'[g] = "accepted"
      BY <1>0, <2>1, <2>2 DEF Leave, ForgetLocals, Reset
    <3> QED BY <3>1, IdleAccount
  <2>3. CASE g # h
    <3>1. /\ pc'[g] = pc[g] /\ job'[g] = job[g] /\ attached'[g] = attached[g]
          /\ tc'[g] = tc[g] /\ found'[g] = found[g] /\ overall'[g] = overall[g]
          /\ UNCHANGED <<rows, status>>
      BY <1>0, <2>1, <2>3 DEF Leave, ForgetLocals, Reset, dbVars
    <3> QED BY <1>0, <3>1, OthersAccount
  <2> QED BY <2>2, <2>3
<1>5. ASSUME NEW h \in Handler, HandleError(h) PROVE Accounted(g)'
  <2>1. /\ attached[h] /\ pc'[h] = "erred" /\ UNCHANGED <<job, attached, tc, found, overall, rows>>
        /\ \A f \in Handler : f # h => pc'[f] = pc[f]
        /\ \A s \in Submission : s # job[h] => status'[s] = status[s]
    BY <1>0, <1>5 DEF HandleError, Goto, locals, DbFails, DbWorks, IInv, TypeOK, DbTypeOK
  <2>2. CASE g = h
    BY <2>1, <2>2 DEF Accounted, Trying, Inside
  <2>3. CASE g # h
    <3>1. attached[g] => status'[job[g]] = status[job[g]]
      BY <2>1, <2>3 DEF IInv, OneWriter
    <3> QED BY <1>0, <2>1, <2>3, <3>1, OthersAccount
  <2> QED BY <2>2, <2>3
<1>6. ASSUME NEW h \in Handler, Interrupt(h) PROVE Accounted(g)'
  <2>1. /\ UNCHANGED <<pc, job, tc, found, overall, rows, status>>
        /\ attached' = [attached EXCEPT ![h] = FALSE]
    BY <1>6 DEF Interrupt, TimeOut, LoseLease, Shutdown, Detach, locals, dbVars
  <2>2. attached'[g] => attached[g]
    BY <1>0, <2>1
  <2> QED BY <1>0, <2>1, <2>2, OthersAccount
<1>7. ASSUME NEW w \in Worker, Crash(w) PROVE Accounted(g)'
  <2>1. CASE HostOf[g] = w
    <3>1. pc'[g] = "idle" /\ tc'[g] = 0 /\ overall'[g] = "accepted"
      BY <1>7, <2>1 DEF Crash, ForgetLocals, Reset
    <3> QED BY <3>1, IdleAccount
  <2>2. CASE HostOf[g] # w
    <3>1. /\ pc'[g] = pc[g] /\ job'[g] = job[g] /\ attached'[g] = attached[g]
          /\ tc'[g] = tc[g] /\ found'[g] = found[g] /\ overall'[g] = overall[g]
          /\ UNCHANGED <<rows, status>>
      BY <1>7, <2>2 DEF Crash, ForgetLocals, Reset, dbVars
    <3> QED BY <1>0, <3>1, OthersAccount
  <2> QED BY <2>1, <2>2
<1>8. CASE UNCHANGED vars
  BY <1>0, <1>8, OthersAccount DEF vars
<1> QED
  BY <1>1, <1>2, <1>3, <1>4, <1>5, <1>6, <1>7, <1>8 DEF Next, Step, ExecuteStep

\* Only an acknowledgement makes a task done.
LEMMA DoneByAcknowledge ==
  ASSUME IInv, [Next]_vars, NEW s \in Submission, task'[s] = "done", task[s] # "done"
  PROVE  \E h \in Handler : Acknowledge(h) /\ s = job[h]
<1> USE DEF IInv, TypeOK, QueueTypeOK, TaskState
<1>1. ASSUME NEW r \in Submission, FailTask(r) PROVE FALSE
  BY <1>1 DEF FailTask
<1>2. ASSUME NEW r \in Submission,
             EnqueueTask(r) \/ ForwardTask(r) \/ Dequeue(r) \/ RequeueTask(r)
      PROVE  FALSE
  BY <1>2 DEF EnqueueTask, ForwardTask, Dequeue, RequeueTask, Move
<1>3. ASSUME UNCHANGED task PROVE FALSE
  BY <1>3
<1>4. ASSUME NEW r \in Submission, Enqueue(r) \/ Forward(r) \/ Recover(r) PROVE FALSE
  BY <1>1, <1>2, <1>4 DEF Enqueue, Forward, Recover
<1>5. ASSUME NEW h \in Handler, NEW r \in Submission, Start(h, r) PROVE FALSE
  BY <1>2, <1>5 DEF Start
<1>6. ASSUME NEW h \in Handler, ExecuteStep(h) PROVE FALSE
  BY <1>3, <1>6, Footprint
<1>7. ASSUME NEW h \in Handler, HandleError(h) \/ Vanish(h) \/ LoseLease(h) PROVE FALSE
  BY <1>3, <1>7 DEF HandleError, Vanish, LoseLease, queueVars
<1>8. ASSUME NEW h \in Handler, GiveBack(h) \/ TimeOut(h) \/ Shutdown(h) PROVE FALSE
  <2>1. job[h] \in Submission /\ (FailTask(job[h]) \/ RequeueTask(job[h]))
    BY <1>8 DEF GiveBack, TimeOut, Shutdown, Detach, Control
  <2> QED BY <1>1, <1>2, <2>1
<1>9. ASSUME NEW w \in Worker, Crash(w) PROVE FALSE
  BY <1>3, <1>9 DEF Crash, queueVars
<1>10. CASE UNCHANGED vars
  BY <1>3, <1>10 DEF vars
<1>11. ASSUME NEW h \in Handler, Acknowledge(h) PROVE s = job[h]
  BY <1>11 DEF Acknowledge, AckTask, Move, OneWriter
<1> QED
  BY <1>4, <1>5, <1>6, <1>7, <1>8, <1>9, <1>10, <1>11 DEF Next, Step, ExecuteStep, Interrupt

\* What is acknowledged is accounted for, and then never changes.
LEMMA NextKeepsVerdict ==
  ASSUME IInv, BoxInv, Accounts, VerdictMatchesRows, [Next]_vars
  PROVE  VerdictMatchesRows'
<1> DEFINE Agrees(s) ==
      /\ status[s] \in {rows[s][i] : i \in DOMAIN rows[s]}
      /\ \A i \in DOMAIN rows[s] :
           /\ rows[s][i] \in Terminal
           /\ status[s] = "accepted" => rows[s][i] = "accepted"
           /\ status[s] = "compilation_error" <=> rows[s][i] = "compilation_error"
           /\ rows[s][i] # "accepted" /\ (\A j \in 1 .. i - 1 : rows[s][j] = "accepted")
                => status[s] \in {rows[s][i], "internal_error"}
<1> SUFFICES ASSUME NEW s \in Submission, task'[s] = "done" PROVE Agrees(s)'
  BY DEF VerdictMatchesRows
<1>1. CASE task[s] = "done"
  <2>1. status'[s] = status[s] /\ rows'[s] = rows[s]
    BY <1>1, NextKeepsDone DEF KeepsDone
  <2>2. Agrees(s)
    BY <1>1 DEF VerdictMatchesRows
  <2> QED BY <2>1, <2>2
<1>2. CASE task[s] # "done"
  <2>1. PICK h \in Handler : Acknowledge(h) /\ s = job[h]
    BY <1>2, DoneByAcknowledge
  <2>2. /\ attached[h] /\ pc[h] = "succeeded" /\ UNCHANGED <<status, rows>>
        /\ Tallied(h) /\ FirstDecides(h) /\ status[s] = overall[h]
    BY <2>1 DEF Acknowledge, dbVars, Accounts, Accounted, Trying
  <2>3. DOMAIN rows[s] = 1..NumTests[s] /\ 1 \in DOMAIN rows[s]
    BY ExecutionAssumption DEF IInv, TypeOK, DbTypeOK
  <2>4. Seen(h) = {rows[s][i] : i \in DOMAIN rows[s]}
    BY <2>1, <2>2, <2>3 DEF Seen, Written
  <2>5. Agrees(s)
    <3>1. \A i \in DOMAIN rows[s] : rows[s][i] \in Seen(h)
      BY <2>4
    <3>2. status[s] \in Seen(h)
      BY <2>2, <2>3, <3>1 DEF Tallied
    <3>3. \A i \in DOMAIN rows[s] :
            /\ rows[s][i] \in Terminal
            /\ status[s] = "accepted" => rows[s][i] = "accepted"
            /\ status[s] = "compilation_error" <=> rows[s][i] = "compilation_error"
      BY <2>2, <3>1 DEF Tallied
    <3>4. Reported(h) = DOMAIN rows[s] /\ \A i : ResultOf(h, i) = rows[s][i]
      BY <2>1, <2>2, <2>3 DEF Reported, Written, ResultOf
    <3>5. \A i \in DOMAIN rows[s] :
            rows[s][i] # "accepted" /\ (\A j \in 1 .. i - 1 : rows[s][j] = "accepted")
              => status[s] \in {rows[s][i], "internal_error"}
      BY <2>2, <3>4 DEF FirstDecides
    <3> QED BY <2>4, <3>2, <3>3, <3>5
  <2> QED BY <2>2, <2>5
<1> QED BY <1>1, <1>2

LEMMA VerdictInvariance ==
  ASSUME "row" \notin FaultKinds
  PROVE  Spec => [](IInv /\ BoxInv /\ Accounts /\ VerdictMatchesRows)
<1>1. Init => BoxInv /\ Accounts /\ VerdictMatchesRows
  <2> SUFFICES ASSUME Init PROVE BoxInv /\ Accounts /\ VerdictMatchesRows
    OBVIOUS
  <2>1. BoxInv
    BY DEF Init, BoxInv, BoxesExact, SingleShape, Holds, Held, Single, HoldsSingle, HoldsBatch
  <2>2. Accounts
    BY DEF Init, Accounts, Accounted, Trying
  <2>3. VerdictMatchesRows
    BY DEF Init, QueueInit, VerdictMatchesRows
  <2> QED BY <2>1, <2>2, <2>3
<1>2. /\ IInv /\ BoxInv /\ Accounts /\ VerdictMatchesRows /\ [Next]_vars
      => (BoxInv /\ Accounts /\ VerdictMatchesRows)'
  BY NextKeepsBoxes, NextKeepsAccounts, NextKeepsVerdict
<1> QED BY <1>1, <1>2, Invariance, PTL DEF Spec

\* The status that a client reads of a finished submission is that of its first
\* test case that is not accepted, unless one could not be run, and "accepted"
\* or "compilation_error" only if it is that of all of them; provided that
\* every updateTestCaseResult succeeds.
THEOREM VerdictAgrees ==
  ASSUME "row" \notin FaultKinds
  PROVE  Spec => []VerdictMatchesRows
BY VerdictInvariance, PTL

----------------------------------------------------------------------------
(* Attempts that fail by returning an error, and none that is lost.        *)

NothingLost == FaultKinds \cap {"crash", "timeout", "lease", "shutdown"} = {}

\* asynq waits for every goroutine in Execute, and somebody executes every
\* active task.
Kept ==
  /\ \A h \in Handler : pc[h] # "idle" => attached[h]
  /\ \A s \in Submission : task[s] = "active" => \E h \in Handler : attached[h] /\ job[h] = s

\* The last thing an attempt does to its row, and the last attempt.
Ending(h) ==
  /\ attached[h]
  /\ \/ pc[h] = "succeeded"
     \/ pc[h] = "erred" /\ Exhausted(h) /\ status[job[h]] = "internal_error"

\* A status is terminal only at the end of the last attempt and after it.
VerdictIsLast ==
  \A s \in Submission : status[s] \in Terminal =>
    \/ task[s] = "done"
    \/ task[s] = "archived" /\ status[s] = "internal_error"
    \/ \E h \in Handler : job[h] = s /\ Ending(h)

\* Once the retries are used up the ErrorHandler has marked the submission.
ErredIsMarked ==
  \A h \in Handler : pc[h] = "erred" /\ Exhausted(h) => status[job[h]] = "internal_error"

LEMMA NothingInterrupts ==
  ASSUME NothingLost
  PROVE  /\ \A h \in Handler : ~Interrupt(h)
         /\ \A w \in Worker : ~Crash(w)
BY DEF NothingLost, Interrupt, TimeOut, LoseLease, Shutdown, Crash, Fault

LEMMA NothingRecovers ==
  ASSUME Kept, NEW s \in Submission
  PROVE  ~Recover(s)
BY DEF Kept, Recover, FailTask

LEMMA NextKeepsKept ==
  ASSUME NothingLost, IInv, Kept, [Next]_vars
  PROVE  Kept'
<1>1. ASSUME NEW s \in Submission, Enqueue(s) \/ Forward(s) \/ Recover(s) PROVE Kept'
  <2>1. /\ UNCHANGED <<pc, job, attached>> /\ task'[s] = "pending"
        /\ \A r \in Submission : r # s => task'[r] = task[r]
    BY <1>1, NothingRecovers, Types DEF Enqueue, Forward, EnqueueTask, ForwardTask, Move
  <2> QED BY <2>1 DEF Kept
<1>2. ASSUME NEW h \in Handler, NEW s \in Submission, Start(h, s) PROVE Kept'
  <2>1. /\ pc[h] = "idle" /\ ~attached[h] /\ attached'[h] /\ job'[h] = s
        /\ \A g \in Handler : g # h => /\ pc'[g] = pc[g] /\ job'[g] = job[g]
                                       /\ attached'[g] = attached[g]
        /\ \A r \in Submission : r # s => task'[r] = task[r]
    BY <1>2, Types DEF Start, Dequeue, Move, Goto, IInv, Control
  <2> QED BY <2>1 DEF Kept
<1>3. ASSUME NEW h \in Handler, ExecuteStep(h) PROVE Kept'
  <2>1. /\ pc[h] # "idle" /\ UNCHANGED <<task, job, attached>>
        /\ \A g \in Handler : g # h => pc'[g] = pc[g]
    BY <1>3, Footprint DEF IInv, Inside
  <2> QED BY <2>1 DEF Kept
<1>4. ASSUME NEW h \in Handler, HandleError(h) PROVE Kept'
  <2>1. /\ attached[h] /\ UNCHANGED <<task, job, attached>>
        /\ \A g \in Handler : g # h => pc'[g] = pc[g]
    BY <1>4, Types DEF HandleError, Goto, queueVars
  <2> QED BY <2>1 DEF Kept
<1>5. ASSUME NEW h \in Handler, Acknowledge(h) \/ GiveBack(h) PROVE Kept'
  <2>1. /\ attached[h] /\ pc'[h] = "idle" /\ job[h] \in Submission /\ task'[job[h]] # "active"
        /\ \A g \in Handler : g # h => /\ pc'[g] = pc[g] /\ job'[g] = job[g]
                                       /\ attached'[g] = attached[g]
        /\ \A r \in Submission : r # job[h] => task'[r] = task[r]
    BY <1>5, Types DEF Acknowledge, GiveBack, Leave, AckTask, FailTask, Move, IInv, Control
  <2> QED BY <2>1 DEF Kept
<1>6. ASSUME NEW h \in Handler, Vanish(h) PROVE Kept'
  BY <1>6 DEF Vanish, Kept
<1>7. CASE UNCHANGED vars
  BY <1>7 DEF vars, Kept
<1> QED
  BY <1>1, <1>2, <1>3, <1>4, <1>5, <1>6, <1>7, NothingInterrupts DEF Next, Step, ExecuteStep

\* Nobody touches the rows of a submission that has a terminal status.
LEMMA TerminalStays ==
  ASSUME NothingLost, IInv, Kept, VerdictIsLast, [Next]_vars,
         NEW s \in Submission, status[s] \in Terminal
  PROVE  status'[s] = status[s] /\ rows'[s] = rows[s]
<1>1. \A h \in Handler : attached[h] /\ pc[h] \in Inside \cup {"failed"} => job[h] # s
  BY DEF VerdictIsLast, Ending, Inside, IInv, OneWriter
<1>2. ASSUME NEW h \in Handler, ExecuteStep(h) PROVE status'[s] = status[s] /\ rows'[s] = rows[s]
  BY <1>1, <1>2, Footprint DEF IInv
<1>3. ASSUME NEW h \in Handler, HandleError(h) PROVE status'[s] = status[s] /\ rows'[s] = rows[s]
  BY <1>1, <1>3, Types DEF HandleError
<1>4. ASSUME NEW r \in Submission, Enqueue(r) \/ Forward(r) \/ Recover(r)
      PROVE  status'[s] = status[s] /\ rows'[s] = rows[s]
  BY <1>4 DEF Enqueue, Forward, Recover, dbVars
<1>5. ASSUME NEW h \in Handler, NEW r \in Submission, Start(h, r)
      PROVE  status'[s] = status[s] /\ rows'[s] = rows[s]
  BY <1>5 DEF Start, dbVars
<1>6. ASSUME NEW h \in Handler, Acknowledge(h) \/ GiveBack(h) \/ Vanish(h)
      PROVE  status'[s] = status[s] /\ rows'[s] = rows[s]
  BY <1>6 DEF Acknowledge, GiveBack, Vanish, dbVars
<1>7. CASE UNCHANGED vars
  BY <1>7 DEF vars
<1> QED
  BY <1>2, <1>3, <1>4, <1>5, <1>6, <1>7, NothingInterrupts DEF Next, Step, ExecuteStep

\* The only terminal status that Execute writes is its last statement.
LEMMA OnlyCompleteWrites ==
  ASSUME IInv, "ambiguous" \notin FaultKinds, NEW h \in Handler, ExecuteStep(h),
         NEW s \in Submission, status'[s] # status[s], status'[s] \in Terminal
  PROVE  attached[h] /\ s = job[h] /\ pc'[h] = "succeeded"
<1>1. attached[h] /\ s = job[h]
  BY Footprint DEF IInv
<1>2. CASE Complete(h)
  BY <1>1, <1>2, Types DEF Complete, Goto, Fault
<1>3. CASE MarkCompiling(h) \/ MarkRunning(h)
  BY <1>1, <1>3, Types DEF MarkCompiling, MarkRunning, Mark, Terminal
<1>4. CASE ~(Complete(h) \/ MarkCompiling(h) \/ MarkRunning(h))
  BY <1>4 DEF ExecuteStep, Fetch, MakeTempDir, InitBox, CreateFiles, Compile, Run, WriteRow,
     Panic, dbVars
<1> QED BY <1>1, <1>2, <1>3, <1>4

LEMMA NextKeepsLast ==
  ASSUME NothingLost, "ambiguous" \notin FaultKinds, IInv, Kept, VerdictIsLast, [Next]_vars
  PROVE  VerdictIsLast'
<1> DEFINE Last(s) == \/ task[s] = "done"
                      \/ task[s] = "archived" /\ status[s] = "internal_error"
                      \/ \E h \in Handler : job[h] = s /\ Ending(h)
<1> SUFFICES ASSUME NEW s \in Submission, status'[s] \in Terminal PROVE Last(s)'
  BY DEF VerdictIsLast
<1>0. status[s] \in Terminal => Last(s)
  BY DEF VerdictIsLast
\* Steps that do not touch the submission, nor the goroutine that ends it.
<1>1. ASSUME status[s] \in Terminal, status'[s] = status[s],
             task[s] \in {"done", "archived"} => task'[s] = task[s],
             \A g \in Handler : job[g] = s /\ Ending(g) =>
               /\ pc'[g] = pc[g] /\ job'[g] = job[g] /\ attached'[g] = attached[g]
               /\ retried'[s] = retried[s]
      PROVE  Last(s)'
  <2>1. CASE task[s] \in {"done", "archived"}
    <3>1. CASE task[s] = "done" \/ status[s] = "internal_error"
      BY <1>1, <2>1, <3>1
    <3>2. CASE task[s] = "archived" /\ status[s] # "internal_error"
      BY <1>0, <1>1, <3>2 DEF Ending, IInv, OneWriter
    <3> QED BY <2>1, <3>1, <3>2
  <2>2. CASE task[s] \notin {"done", "archived"}
    <3>1. PICK g \in Handler : job[g] = s /\ Ending(g)
      BY <1>0, <1>1, <2>2
    <3>2. job'[g] = s /\ Ending(g)'
      BY <1>1, <3>1 DEF Ending, Exhausted
    <3> QED BY <3>2
  <2> QED BY <2>1, <2>2
<1> HIDE DEF Last
<1>2. ASSUME NEW r \in Submission, Enqueue(r) \/ Forward(r) \/ Recover(r) PROVE Last(s)'
  <2>1. /\ UNCHANGED <<status, pc, job, attached, retried>> /\ task[r] \in {"none", "retry"}
        /\ \A q \in Submission : q # r => task'[q] = task[q]
    BY <1>2, NothingRecovers, Types
       DEF Enqueue, Forward, EnqueueTask, ForwardTask, Move, dbVars
  <2> QED BY <1>1, <2>1
<1>3. ASSUME NEW h \in Handler, NEW r \in Submission, Start(h, r) PROVE Last(s)'
  <2>1. /\ UNCHANGED <<status, retried>> /\ task[r] = "pending" /\ pc[h] = "idle"
        /\ \A g \in Handler : g # h => /\ pc'[g] = pc[g] /\ job'[g] = job[g]
                                       /\ attached'[g] = attached[g]
        /\ \A q \in Submission : q # r => task'[q] = task[q]
    BY <1>3, Types DEF Start, Dequeue, Move, Goto, dbVars
  <2> QED BY <1>1, <2>1 DEF Ending
<1>4. ASSUME NEW h \in Handler, ExecuteStep(h) PROVE Last(s)'
  <2>1. /\ pc[h] \in Inside /\ UNCHANGED <<task, retried, job, attached>>
        /\ \A g \in Handler : g # h => pc'[g] = pc[g]
    BY <1>4, Footprint DEF IInv
  <2>2. CASE status[s] \in Terminal
    BY <1>1, <2>1, <2>2, TerminalStays DEF Ending, Inside
  <2>3. CASE status[s] \notin Terminal
    <3>1. attached[h] /\ s = job[h] /\ pc'[h] = "succeeded"
      BY <1>4, <2>3, OnlyCompleteWrites
    <3>2. job'[h] = s /\ Ending(h)'
      BY <2>1, <3>1 DEF Ending
    <3> QED BY <3>2 DEF Last
  <2> QED BY <2>2, <2>3
<1>5. ASSUME NEW h \in Handler, HandleError(h) PROVE Last(s)'
  <2>1. /\ pc[h] = "failed" /\ attached[h] /\ pc'[h] = "erred"
        /\ UNCHANGED <<task, retried, job, attached>>
        /\ \A g \in Handler : g # h => pc'[g] = pc[g]
    BY <1>5, Types DEF HandleError, Goto, queueVars
  <2>2. CASE status[s] \in Terminal
    BY <1>1, <2>1, <2>2, TerminalStays DEF Ending
  <2>3. CASE status[s] \notin Terminal
    <3>1. Exhausted(h) /\ s = job[h] /\ status'[s] = "internal_error"
      BY <1>5, <2>3, Types DEF HandleError
    <3>2. job'[h] = s /\ Ending(h)'
      BY <2>1, <3>1 DEF Ending, Exhausted
    <3> QED BY <3>2 DEF Last
  <2> QED BY <2>2, <2>3
<1>6. ASSUME NEW h \in Handler, Acknowledge(h) \/ GiveBack(h) PROVE Last(s)'
  <2>1. /\ attached[h] /\ UNCHANGED status /\ job[h] \in Submission
        /\ \A g \in Handler : g # h => /\ pc'[g] = pc[g] /\ job'[g] = job[g]
                                       /\ attached'[g] = attached[g]
        /\ \A q \in Submission : q # job[h] => task'[q] = task[q] /\ retried'[q] = retried[q]
    BY <1>6, Types
       DEF Acknowledge, GiveBack, Leave, AckTask, FailTask, Move, IInv, Control, dbVars
  <2>2. CASE s # job[h]
    BY <1>1, <2>1, <2>2
  <2>3. CASE s = job[h] /\ Acknowledge(h)
    <3>1. task'[s] = "done"
      BY <2>3, Types DEF Acknowledge, AckTask, Move
    <3> QED BY <3>1 DEF Last
  <2>4. CASE s = job[h] /\ GiveBack(h)
    <3>1. Exhausted(h) /\ status[s] = "internal_error"
      BY <1>0, <2>1, <2>4 DEF Last, Ending, GiveBack, IInv, OneWriter
    <3>2. task'[s] = "archived"
      BY <2>4, <3>1, Types DEF GiveBack, FailTask, Exhausted
    <3> QED BY <2>1, <3>1, <3>2 DEF Last
  <2> QED BY <1>6, <2>2, <2>3, <2>4
<1>7. ASSUME NEW h \in Handler, Vanish(h) PROVE Last(s)'
  BY <1>7 DEF Vanish, Kept
<1>8. CASE UNCHANGED vars
  BY <1>1, <1>8 DEF vars
<1> QED
  BY <1>2, <1>3, <1>4, <1>5, <1>6, <1>7, <1>8, NothingInterrupts DEF Next, Step, ExecuteStep

LEMMA NextKeepsMarked ==
  ASSUME NothingLost, "handler" \notin FaultKinds, IInv, Kept, ErredIsMarked, ArchivedIsMarked,
         [Next]_vars
  PROVE  ErredIsMarked' /\ ArchivedIsMarked'
\* Steps that only their own submission or their own goroutine can tell.
<1>1. ASSUME NEW s \in Submission,
             \A r \in Submission : r # s => task'[r] = task[r] /\ retried'[r] = retried[r],
             UNCHANGED <<pc, job, attached, status>>,
             task'[s] # "archived", retried'[s] = retried[s]
      PROVE  ErredIsMarked' /\ ArchivedIsMarked'
  BY <1>1 DEF ErredIsMarked, ArchivedIsMarked, Exhausted, IInv, Control, OneWriter
<1>2. ASSUME NEW s \in Submission, Enqueue(s) \/ Forward(s) \/ Recover(s)
      PROVE  ErredIsMarked' /\ ArchivedIsMarked'
  BY <1>1, <1>2, NothingRecovers, Types
     DEF Enqueue, Forward, EnqueueTask, ForwardTask, Move, dbVars
<1>3. ASSUME NEW h \in Handler, NEW s \in Submission, Start(h, s)
      PROVE  ErredIsMarked' /\ ArchivedIsMarked'
  <2>1. /\ UNCHANGED <<status, retried>> /\ pc'[h] = "fetch" /\ task'[s] = "active"
        /\ \A g \in Handler : g # h => pc'[g] = pc[g] /\ job'[g] = job[g]
        /\ \A q \in Submission : q # s => task'[q] = task[q]
    BY <1>3, Types DEF Start, Dequeue, Move, Goto, dbVars
  <2> QED BY <2>1 DEF ErredIsMarked, ArchivedIsMarked, Exhausted
<1>4. ASSUME NEW h \in Handler, ExecuteStep(h) PROVE ErredIsMarked' /\ ArchivedIsMarked'
  <2>1. /\ pc[h] \in Inside /\ pc'[h] # "erred" /\ UNCHANGED <<task, retried, job, attached>>
        /\ \A g \in Handler : g # h => pc'[g] = pc[g]
        /\ \A s \in Submission : status'[s] # status[s] => attached[h] /\ s = job[h]
    BY <1>4, Footprint DEF IInv, Inside
  <2>2. \A g \in Handler : pc[g] = "erred" => attached[g] /\ job[g] \in Submission
    BY DEF IInv, Control
  <2> QED BY <2>1, <2>2 DEF ErredIsMarked, ArchivedIsMarked, Exhausted, IInv, OneWriter
<1>5. ASSUME NEW h \in Handler, HandleError(h) PROVE ErredIsMarked' /\ ArchivedIsMarked'
  <2>1. /\ attached[h] /\ UNCHANGED <<task, retried, job, attached>>
        /\ \A g \in Handler : g # h => pc'[g] = pc[g]
        /\ job[h] \in Submission /\ task[job[h]] = "active"
        /\ \A s \in Submission : s # job[h] => status'[s] = status[s]
        /\ Exhausted(h) => status'[job[h]] = "internal_error"
    BY <1>5, Types
       DEF HandleError, Goto, DbFails, Fault, queueVars, IInv, OneWriter
  <2>2. \A g \in Handler : pc[g] = "erred" => attached[g] /\ job[g] \in Submission
    BY DEF IInv, Control
  <2> QED BY <2>1, <2>2 DEF ErredIsMarked, ArchivedIsMarked, Exhausted, IInv, OneWriter
<1>6. ASSUME NEW h \in Handler, Acknowledge(h) \/ GiveBack(h)
      PROVE  ErredIsMarked' /\ ArchivedIsMarked'
  <2>1. /\ attached[h] /\ UNCHANGED status /\ pc'[h] = "idle" /\ job[h] \in Submission
        /\ \A g \in Handler : g # h => pc'[g] = pc[g] /\ job'[g] = job[g]
        /\ \A q \in Submission : q # job[h] => task'[q] = task[q] /\ retried'[q] = retried[q]
        /\ task'[job[h]] = "archived" => pc[h] = "erred" /\ Exhausted(h)
    BY <1>6, Types
       DEF Acknowledge, GiveBack, Leave, AckTask, FailTask, Move, Exhausted, IInv, Control, dbVars
  <2>2. \A g \in Handler : g # h /\ pc[g] = "erred" => job[g] \in Submission /\ job[g] # job[h]
    BY <2>1 DEF IInv, Control, OneWriter
  <2> QED BY <2>1, <2>2 DEF ErredIsMarked, ArchivedIsMarked, Exhausted
<1>7. ASSUME NEW h \in Handler, Vanish(h) PROVE ErredIsMarked' /\ ArchivedIsMarked'
  BY <1>7 DEF Vanish, Kept
<1>8. CASE UNCHANGED vars
  BY <1>8 DEF vars, ErredIsMarked, ArchivedIsMarked, Exhausted
<1> QED
  BY <1>2, <1>3, <1>4, <1>5, <1>6, <1>7, <1>8, NothingInterrupts DEF Next, Step, ExecuteStep

LEMMA InitKept ==
  ASSUME Init
  PROVE  Kept /\ VerdictIsLast /\ ErredIsMarked /\ ArchivedIsMarked
BY DEF Init, QueueInit, Kept, VerdictIsLast, ErredIsMarked, ArchivedIsMarked, Terminal

\* Whatever fails inside of Execute, a submission whose retries are used up is
\* left as internal_error by the ErrorHandler: no attempt is lost outside of
\* it and its own CompleteSubmission succeeds.
THEOREM ErrorHandlerMarks ==
  ASSUME NothingLost, "handler" \notin FaultKinds
  PROVE  Spec => []ArchivedIsMarked
<1> DEFINE Inv == Kept /\ ErredIsMarked /\ ArchivedIsMarked
<1>1. Init => Inv
  BY InitKept
<1>2. IInv /\ Inv /\ [Next]_vars => Inv'
  BY NextKeepsKept, NextKeepsMarked
<1>3. Inv => ArchivedIsMarked
  OBVIOUS
<1> QED BY <1>1, <1>2, <1>3, Invariance, PTL DEF Spec

\* As long as attempts fail by returning errors, a retry never takes back a
\* verdict: what is retried has not got a terminal status yet.
THEOREM VerdictNotTakenBack ==
  ASSUME NothingLost, "ambiguous" \notin FaultKinds
  PROVE  Spec => TerminalIsFinal
<1> DEFINE Final == \A s \in Submission : status[s] \in Terminal => status'[s] = status[s]
           Inv == Kept /\ VerdictIsLast
<1>1. Init => Inv
  BY InitKept
<1>2. IInv /\ Inv /\ [Next]_vars => Inv'
  BY NextKeepsKept, NextKeepsLast
<1>3. IInv /\ Inv /\ [Next]_vars => [Final]_vars
  BY TerminalStays
<1> QED BY <1>1, <1>2, <1>3, Invariance, PTL DEF Spec, TerminalIsFinal

\* While, besides, every updateTestCaseResult succeeds, a terminal status that
\* does not come from the ErrorHandler is what the results add up to, even
\* before the task is acknowledged.
LEMMA LastAgrees ==
  ASSUME IInv, Accounts, VerdictMatchesRows, VerdictIsLast,
         NEW s \in Submission, status[s] \in Terminal \ {"internal_error"}
  PROVE  /\ status[s] \in {rows[s][i] : i \in DOMAIN rows[s]}
         /\ \A i \in DOMAIN rows[s] :
              /\ rows[s][i] \in Terminal
              /\ status[s] = "accepted" => rows[s][i] = "accepted"
<1>1. CASE task[s] = "done"
  BY <1>1 DEF VerdictMatchesRows
<1>2. ASSUME NEW h \in Handler, job[h] = s, Ending(h)
      PROVE  /\ status[s] \in {rows[s][i] : i \in DOMAIN rows[s]}
             /\ \A i \in DOMAIN rows[s] :
                  /\ rows[s][i] \in Terminal
                  /\ status[s] = "accepted" => rows[s][i] = "accepted"
  <2>1. attached[h] /\ pc[h] = "succeeded" /\ Tallied(h) /\ status[s] = overall[h]
    BY <1>2 DEF Ending, Accounts, Accounted, Trying
  <2>2. DOMAIN rows[s] = 1..NumTests[s] /\ 1 \in DOMAIN rows[s]
    BY ExecutionAssumption DEF IInv, TypeOK, DbTypeOK
  <2>3. Seen(h) = {rows[s][i] : i \in DOMAIN rows[s]}
    BY <1>2, <2>1, <2>2 DEF Seen, Written
  <2>4. \A i \in DOMAIN rows[s] : rows[s][i] \in Seen(h)
    BY <2>3
  <2>5. status[s] \in Seen(h)
    BY <2>1, <2>2, <2>4 DEF Tallied
  <2> QED BY <2>1, <2>3, <2>4, <2>5 DEF Tallied
<1> QED BY <1>1, <1>2 DEF VerdictIsLast
=============================================================================
