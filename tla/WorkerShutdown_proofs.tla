----------------------- MODULE WorkerShutdown_proofs -----------------------
(***************************************************************************)
(* Theorems about WorkerShutdown: if main's call of Shutdown is the one    *)
(* that stops the server, the stop costs no task anything.                 *)
(***************************************************************************)
EXTENDS WorkerShutdown, TLAPS

\* A task is active exactly while asynq waits for its goroutine, until the
\* process is gone and the recoverers take over.
Attachment ==
  \A s \in Submission : /\ attached[s] => task[s] = "active" /\ Alive
                        /\ Alive /\ task[s] = "active" => attached[s]

\* Where the goroutines are when the server has been stopped.
Control ==
  /\ run = "starting" => server = "new"
  /\ owner = "main" => main \in {"draining", "closing", "leaving", "exited"} /\ server = "closed"
  /\ pool = "closed" => main \in {"leaving", "exited"}

\* Main has waited: nothing is executed, and nothing will be.
Waited ==
  owner = "main" /\ main \in {"closing", "leaving", "exited"} =>
    ~fetching /\ \A s \in Submission : task[s] # "active"

\* While the pool is open, only failures of its own cost a task a retry.
Paid ==
  owner = "main" \/ (pool = "open" /\ Alive) =>
    \A s \in Submission : retried[s] > 0 \/ task[s] = "archived" => s \in paid

IInv == TypeOK /\ Attachment /\ Control /\ Waited /\ Paid

----------------------------------------------------------------------------
LEMMA InitInv == Init => IInv
<1> SUFFICES ASSUME Init PROVE IInv
  OBVIOUS
<1>1. QueueTypeOK
  <2>1. 0 \in 0..MaxRetry /\ "none" \in TaskState
    BY MaxRetryAssumption DEF TaskState
  <2>2. task = [s \in Submission |-> "none"] /\ retried = [s \in Submission |-> 0]
    BY DEF Init, QueueInit
  <2> QED BY <2>1, <2>2 DEF QueueTypeOK
<1>2. TypeOK
  <2>1. 0 \in 0..MaxSignals
    BY ShutdownAssumption
  <2>2. signals = 0 /\ heard = {} /\ paid = {} /\ fetching = FALSE
    BY DEF Init
  <2>3. /\ main = "starting" /\ run = "starting" /\ server = "new"
        /\ owner = "none" /\ timer = "unset" /\ pool = "open"
    BY DEF Init
  <2>4. /\ work = [s \in Submission |-> "none"]
        /\ attached = [s \in Submission |-> FALSE]
    BY DEF Init
  <2>5. /\ work \in [Submission -> {"none", "sandbox", "statement"}]
        /\ attached \in [Submission -> BOOLEAN]
    BY <2>4
  <2>6. signals \in 0..MaxSignals
    BY <2>1, <2>2
  <2> QED BY <1>1, <2>2, <2>3, <2>5, <2>6 DEF TypeOK
<1>3. Attachment /\ Control /\ Waited /\ Paid
  BY DEF Init, QueueInit, Attachment, Control, Waited, Paid, Alive, Gone
<1> QED BY <1>2, <1>3 DEF IInv

\* The part of the type invariant that is about the tasks.
TasksOK == /\ QueueTypeOK
           /\ fetching \in BOOLEAN
           /\ work \in [Submission -> {"none", "sandbox", "statement"}]
           /\ attached \in [Submission -> BOOLEAN]
           /\ paid \subseteq Submission

\* The steps of the two goroutines and the timer that leave the tasks alone.
LEMMA ControlInv ==
  ASSUME IInv,
         \/ Register \/ StartServer \/ RegisterRun \/ RunReceives \/ Receive \/ RunStops
         \/ Abort \/ RunDrained \/ ClosePool
  PROVE  IInv'
<1>0. UNCHANGED tasks /\ UNCHANGED signals
  BY DEF Register, StartServer, RegisterRun, RunReceives, Receive, RunStops, Abort,
         RunDrained, ClosePool
<1>1. TypeOK'
  <2>1. TasksOK'
    BY <1>0 DEF IInv, TypeOK, TasksOK, QueueTypeOK, tasks
  <2>2. TypeOK /\ signals' \in 0..MaxSignals
    BY <1>0 DEF IInv, TypeOK
  <2>3. CASE Register \/ Receive \/ ClosePool
    BY <2>1, <2>2, <2>3 DEF TypeOK, TasksOK, Register, Receive, ClosePool
  <2>4. CASE StartServer \/ RegisterRun \/ RunReceives
    BY <2>1, <2>2, <2>4 DEF TypeOK, TasksOK, StartServer, RegisterRun, RunReceives
  <2>5. CASE Abort \/ RunDrained
    BY <2>1, <2>2, <2>5 DEF TypeOK, TasksOK, Abort, RunDrained
  <2>6. CASE RunStops
    BY <2>1, <2>2, <2>6 DEF TypeOK, TasksOK, RunStops, Own, ReturnsAtOnce
  <2> QED BY <2>3, <2>4, <2>5, <2>6
<1>2. Control'
  BY DEF IInv, TypeOK, Control, Register, StartServer, RegisterRun, RunReceives, Receive,
         RunStops, Own, ReturnsAtOnce, Abort, RunDrained, ClosePool
<1>3. Alive' = Alive
  BY DEF Alive, Gone, Register, StartServer, RegisterRun, RunReceives, Receive, RunStops,
         Own, ReturnsAtOnce, Abort, RunDrained, ClosePool
<1>4. Attachment'
  BY <1>0, <1>3 DEF IInv, Attachment, tasks
<1>5. owner' = "main" => owner = "main"
  BY DEF Register, StartServer, RegisterRun, RunReceives, Receive, RunStops, Own,
         ReturnsAtOnce, Abort, RunDrained, ClosePool
<1>6. Waited'
  <2>1. owner = "main" /\ main' \in {"closing", "leaving", "exited"} =>
          main \in {"closing", "leaving", "exited"}
    BY DEF Register, StartServer, RegisterRun, RunReceives, Receive, RunStops, Abort,
           RunDrained, ClosePool
  <2> QED BY <1>0, <1>5, <2>1 DEF IInv, Waited, tasks
<1>7. Paid'
  <2>1. pool' = "open" => pool = "open"
    BY DEF Register, StartServer, RegisterRun, RunReceives, Receive, RunStops, Abort,
           RunDrained, ClosePool
  <2> QED BY <1>0, <1>3, <1>5, <2>1 DEF IInv, Paid, tasks
<1> QED BY <1>1, <1>2, <1>4, <1>6, <1>7 DEF IInv

\* The calls of Shutdown and the wait of main.
LEMMA MainInv ==
  ASSUME IInv, MainStops \/ MainDrained
  PROVE  IInv'
<1>0. UNCHANGED <<tasks, pool, signals, run, heard>> /\ Alive /\ Alive'
  BY DEF MainStops, MainDrained, Alive, Gone
<1>1. TypeOK'
  BY <1>0 DEF IInv, TypeOK, QueueTypeOK, tasks, MainStops, Own, ReturnsAtOnce, MainDrained
<1>2. Control' /\ pool = "open"
  BY <1>0 DEF IInv, TypeOK, Control, MainStops, Own, ReturnsAtOnce, MainDrained
<1>3. Attachment'
  BY <1>0 DEF IInv, Attachment, tasks
<1>4. Waited'
  <2>1. CASE MainStops
    BY <1>0, <2>1 DEF IInv, Control, Waited, MainStops, Own, ReturnsAtOnce
  <2>2. CASE MainDrained
    BY <1>0, <2>2 DEF IInv, Attachment, Waited, MainDrained, Drained, tasks
  <2> QED BY <2>1, <2>2
<1>5. Paid'
  BY <1>0, <1>2 DEF IInv, Paid, tasks
<1> QED BY <1>1, <1>2, <1>3, <1>4, <1>5 DEF IInv

\* A signal that kills the process finds main at its start, and the pool open.
LEMMA EndInv ==
  ASSUME IInv, Signal \/ Exit
  PROVE  IInv'
<1>0. UNCHANGED <<run, server, owner, timer, task, retried, pool, paid>>
  BY DEF Signal, Exit
<1>1. TypeOK'
  <2>1. /\ main' \in {main, "killed", "exited"} /\ heard' \subseteq {"main", "run"}
        /\ fetching' \in BOOLEAN /\ attached' \in [Submission -> BOOLEAN]
        /\ work' \in [Submission -> {"none", "sandbox", "statement"}]
    BY DEF IInv, TypeOK, Signal, Exit, Die, Registered
  <2>2. signals' \in 0..MaxSignals
    BY ShutdownAssumption DEF IInv, TypeOK, Signal, Exit
  <2> QED BY <1>0, <2>1, <2>2 DEF IInv, TypeOK, QueueTypeOK
<1>2. CASE main' = main /\ UNCHANGED <<work, attached, fetching>>
  BY <1>0, <1>1, <1>2 DEF IInv, Attachment, Control, Waited, Paid, Alive, Gone
<1>3. CASE Die("killed") /\ main = "starting"
  BY <1>0, <1>1, <1>3 DEF IInv, Attachment, Control, Waited, Paid, Alive, Gone, Die
<1>4. CASE Die("exited") /\ main = "leaving"
  BY <1>0, <1>1, <1>4 DEF IInv, Attachment, Control, Waited, Paid, Alive, Gone, Die
<1> QED BY <1>2, <1>3, <1>4 DEF Signal, Exit, Registered, Alive, Gone

LEMMA FetchInv ==
  ASSUME IInv, Fetch \/ Fetched
  PROVE  IInv'
<1>0. UNCHANGED <<control, pool, paid, retried>> /\ Alive /\ Alive'
  BY DEF Fetch, Fetched, control, Dequeue, Move, Alive, Gone
<1>1. TypeOK'
  <2>1. QueueTypeOK'
    BY <1>0 DEF IInv, TypeOK, QueueTypeOK, TaskState, Fetch, Fetched, Dequeue, Move
  <2>2. TasksOK'
    BY <1>0, <2>1 DEF IInv, TypeOK, TasksOK, Fetch, Fetched
  <2> QED BY <1>0, <2>2 DEF IInv, TypeOK, TasksOK, control
<1>2. ~(owner = "main" /\ main \in {"closing", "leaving", "exited"})
  BY DEF IInv, Control, Waited, Fetch, Fetched
<1>3. Attachment'
  BY <1>0 DEF IInv, Attachment, TypeOK, QueueTypeOK, Fetch, Fetched, Dequeue, Move
<1>4. Paid'
  BY <1>0 DEF IInv, Paid, TypeOK, QueueTypeOK, control, Fetch, Fetched, Dequeue, Move
<1> QED BY <1>0, <1>1, <1>2, <1>3, <1>4 DEF IInv, Control, Waited, control, Alive, Gone

\* The steps of a task that is executed.
LEMMA TaskInv ==
  ASSUME IInv, NEW s \in Submission,
         Enqueue(s) \/ BeginStatement(s) \/ EndStatement(s) \/ Succeed(s) \/ Requeue(s) \/ Vanish(s)
  PROVE  IInv'
<1>0. UNCHANGED <<control, fetching, pool, paid, retried>>
  BY DEF Enqueue, BeginStatement, EndStatement, Succeed, Requeue, Vanish, EnqueueTask,
         AckTask, RequeueTask, Move, tasks
<1>1. TypeOK'
  <2>1. QueueTypeOK'
    BY <1>0 DEF IInv, TypeOK, QueueTypeOK, TaskState, Enqueue, BeginStatement, EndStatement,
                Succeed, Requeue, Vanish, EnqueueTask, AckTask, RequeueTask, Move
  <2>2. TasksOK'
    BY <1>0, <2>1 DEF IInv, TypeOK, TasksOK, Enqueue, BeginStatement, EndStatement, Succeed,
                      Requeue, Vanish, Leave
  <2> QED BY <1>0, <2>2 DEF IInv, TypeOK, TasksOK, control
<1>2. Attachment'
  BY <1>0 DEF IInv, Attachment, TypeOK, QueueTypeOK, control, Alive, Gone, Enqueue,
              BeginStatement, EndStatement, Succeed, Requeue, Vanish, EnqueueTask, AckTask,
              RequeueTask, Move, Leave
<1>3. \A q \in Submission : task'[q] \in {"active", "archived"} => task'[q] = task[q]
  BY DEF IInv, TypeOK, QueueTypeOK, Enqueue, BeginStatement, EndStatement, Succeed, Requeue,
         Vanish, EnqueueTask, AckTask, RequeueTask, Move
<1>4. Waited' /\ Paid' /\ Control'
  BY <1>0, <1>3 DEF IInv, Waited, Paid, Control, control, Alive, Gone
<1> QED BY <1>1, <1>2, <1>4 DEF IInv

\* A failed attempt is paid for, or fails on the pool that was closed.
LEMMA FailedInv ==
  ASSUME IInv, NEW s \in Submission, Refused(s) \/ Fail(s) \/ Recover(s)
  PROVE  IInv'
<1>0. /\ UNCHANGED <<control, fetching, pool>> /\ task[s] = "active"
      /\ task' \in [Submission -> TaskState] /\ retried' \in [Submission -> 0..MaxRetry]
      /\ \A q \in Submission : q # s => task'[q] = task[q] /\ retried'[q] = retried[q]
      /\ task'[s] \in {"retry", "archived"}
      /\ attached'[s] = FALSE /\ \A q \in Submission : q # s => attached'[q] = attached[q]
  <2>1. FailTask(s) /\ TypeOK /\ (attached[s] => Alive)
    BY DEF Refused, Fail, Recover, IInv, Attachment
  <2>2. UNCHANGED <<control, fetching, pool>>
    BY DEF Refused, Fail, Recover
  <2>3. attached'[s] = FALSE /\ \A q \in Submission : q # s => attached'[q] = attached[q]
    BY <2>1 DEF Refused, Fail, Recover, Leave, TypeOK, Alive
  <2> QED BY <2>1, <2>2, <2>3, MaxRetryAssumption DEF FailTask, TypeOK, QueueTypeOK, TaskState
<1>1. TypeOK'
  <2>1. /\ work' \in [Submission -> {"none", "sandbox", "statement"}]
        /\ attached' \in [Submission -> BOOLEAN] /\ paid' \subseteq Submission
    BY DEF IInv, TypeOK, Refused, Fail, Recover, Leave
  <2> QED BY <1>0, <2>1 DEF IInv, TypeOK, QueueTypeOK, control
<1>2. Attachment'
  BY <1>0 DEF IInv, Attachment, Alive, Gone, control
<1>3. Control' /\ Waited'
  BY <1>0 DEF IInv, Control, Waited, control
<1>4. Paid'
  <2>1. CASE Fail(s)
    BY <1>0, <2>1 DEF IInv, Paid, Fail, control, Alive, Gone
  <2>2. CASE Refused(s) \/ Recover(s)
    <3>1. ~(owner = "main" \/ (pool = "open" /\ Alive))
      BY <1>0, <2>2 DEF IInv, Control, Attachment, Waited, Refused, Recover, Alive, Gone
    <3> QED BY <1>0, <3>1 DEF Paid, control, Alive, Gone
  <2> QED BY <2>1, <2>2
<1> QED BY <1>1, <1>2, <1>3, <1>4 DEF IInv

LEMMA NextInv == IInv /\ [Next]_vars => IInv'
<1> SUFFICES ASSUME IInv, [Next]_vars PROVE IInv'
  OBVIOUS
<1>1. CASE UNCHANGED vars
  BY <1>1 DEF vars, IInv, TypeOK, QueueTypeOK, Attachment, Control, Waited, Paid, Alive, Gone
<1> QED BY <1>1, ControlInv, MainInv, EndInv, FetchInv, TaskInv, FailedInv DEF Next

\* The type invariant of the process, its tasks and its pool.
THEOREM ShutdownTypeCorrect == Spec => []TypeOK
<1>1. IInv => TypeOK
  BY DEF IInv
<1> QED BY <1>1, InitInv, NextInv, PTL DEF Spec

\* When main's call stops the server, no task loses a retry to the shutdown,
\* whatever the order of signals, fetches and statements.
THEOREM MainsShutdownIsFree == Spec => []ShutdownIsFree
<1>1. IInv => ShutdownIsFree
  BY DEF IInv, Paid, ShutdownIsFree
<1> QED BY <1>1, InitInv, NextInv, PTL DEF Spec
============================================================================
