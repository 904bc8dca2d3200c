------------------------------ MODULE Judging ------------------------------
(***************************************************************************)
(* What the queue and the workers together promise about a submission,     *)
(* without goroutines, sandboxes or faults: it is judged by at most one    *)
(* attempt at a time, given back at most Retries times with a strike, and  *)
(* settled once: with one verdict that is published for good, or abandoned *)
(* after its last strike.                                                  *)
(***************************************************************************)
EXTENDS Naturals

CONSTANTS Submission, Verdicts, Retries

VARIABLES phase, strikes, published

Unsettled == "none"

Init == /\ phase = [s \in Submission |-> "new"]
        /\ strikes = [s \in Submission |-> 0]
        /\ published = [s \in Submission |-> Unsettled]

Become(s, from, to) == phase[s] = from /\ phase' = [phase EXCEPT ![s] = to]

Accept(s) == Become(s, "new", "queued") /\ UNCHANGED <<strikes, published>>

Take(s) == Become(s, "queued", "judging") /\ UNCHANGED <<strikes, published>>

\* An attempt is broken off and the submission judged anew later.
Return(s) == Become(s, "judging", "queued") /\ UNCHANGED <<strikes, published>>

Strike(s) ==
  /\ strikes[s] < Retries
  /\ strikes' = [strikes EXCEPT ![s] = @ + 1]
  /\ Become(s, "judging", "queued")
  /\ UNCHANGED published

Abandon(s) ==
  /\ strikes[s] = Retries
  /\ Become(s, "judging", "abandoned")
  /\ UNCHANGED <<strikes, published>>

Judge(s, v) ==
  /\ Become(s, "judging", "judged")
  /\ published' = [published EXCEPT ![s] = v]
  /\ UNCHANGED strikes

Next == \E s \in Submission :
          \/ Accept(s) \/ Take(s) \/ Return(s) \/ Strike(s) \/ Abandon(s)
          \/ \E v \in Verdicts : Judge(s, v)

Spec == Init /\ [][Next]_<<phase, strikes, published>>
============================================================================
