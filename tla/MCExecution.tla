---------------------------- MODULE MCExecution ----------------------------
(***************************************************************************)
(* Small instances of Execution.  Submissions are named for what they are: *)
(* a compiled single one, an interpreted single one, and compiled and      *)
(* interpreted batches of two test cases.                                  *)
(***************************************************************************)
EXTENDS Execution, TLC

MCMode == [s \in Submission |-> IF s \in {"cs", "is"} THEN "single" ELSE "batch"]
MCCompiled == [s \in Submission |-> s \in {"cs", "cb"}]
MCNumTests == [s \in Submission |-> IF MCMode[s] = "single" THEN 1 ELSE 2]

OneHost == [h \in Handler |-> CHOOSE w \in Worker : TRUE]

\* Goroutines are alike: none of the properties names one.
Symmetry == Permutations(Handler)

\* A right answer, a wrong answer, a timeout.
MCReports == {r \in Report : /\ r.signal = 0 /\ ~r.memFull
                             /\ r.status \in {"", "TO"}
                             /\ r.status = "TO" => ~r.matches}

\* One test case that is accepted and one that is not.
MCTwoReports == {r \in MCReports : r.matches \/ r.status = "TO"}

ReturnedErrors == {"fetch", "box", "compile", "run", "complete"}
SwallowedErrors == {"mark", "row"}
LostAttempts == {"panic", "crash", "timeout", "lease", "shutdown", "ambiguous"}
AnyFault == ReturnedErrors \cup SwallowedErrors \cup LostAttempts \cup {"handler"}
AllButRow == AnyFault \ {"row"}

\* The ways in which an attempt can be lost: its process dies, asynq gives it up,
\* or Execute returns an error; and two statements whose failure is only logged,
\* the update of a row and the one of the ErrorHandler.
OneOfEachKind == {"panic", "crash", "timeout", "run", "row", "handler"}

Crashes == {"crash"}
BoxFaults == {"box"}
============================================================================
