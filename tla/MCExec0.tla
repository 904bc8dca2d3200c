------------------------------ MODULE MCExec0 ------------------------------
(***************************************************************************)
(* Two requests for a batch of two test cases; the client of one polls.    *)
(***************************************************************************)
EXTENDS Exec0

MCMode == [s \in Submission |-> "batch"]
MCCompiled == [s \in Submission |-> FALSE]
MCNumTests == [s \in Submission |-> 2]
OneHost == [h \in Handler |-> CHOOSE w \in Worker : TRUE]
MCBody == {[mode |-> "batch", decodes |-> TRUE, source |-> "fits",
            language |-> "known", limit |-> Unset, tests |-> 2]}

\* A right answer, and a program that is stopped at its time limit.
MCReports == {r \in Report : /\ r.signal = 0 /\ ~r.memFull
                             /\ \/ r.status = "" /\ r.matches
                                \/ r.status = "TO" /\ ~r.matches}

ErrorFaults == {"fetch", "box", "run", "complete", "mark"}
APIFaults == {"commit", "unheard"}
============================================================================
