-------------------------- MODULE MCSubmissionAPI --------------------------
(***************************************************************************)
(* Instances of SubmissionAPI with the bodies that the checks tell apart.  *)
(***************************************************************************)
EXTENDS SubmissionAPI

Good(mode, n) == [mode |-> mode, decodes |-> TRUE, source |-> "fits",
                  language |-> "known", limit |-> Unset, tests |-> n]

MCBodies == {Good("single", 1), Good("batch", 2)}

\* One body for every check that can refuse it.
MCRefused == { [Good("single", 1) EXCEPT !.decodes = FALSE],
               [Good("single", 1) EXCEPT !.source = "large"],
               [Good("batch", 1) EXCEPT !.source = "empty"],
               [Good("single", 1) EXCEPT !.language = "none"],
               [Good("single", 1) EXCEPT !.language = "unknown"],
               [Good("single", 1) EXCEPT !.limit = 0],
               Good("batch", 0), Good("batch", 3) }

\* A limit within the bounds, and one that is cut.
MCLimited == { [Good("single", 1) EXCEPT !.limit = 2],
               [Good("single", 1) EXCEPT !.limit = 4] }

MCAllBodies == MCBodies \cup MCRefused \cup MCLimited

AllFaults == {"statement", "commit", "ambiguous", "enqueue", "unheard", "disconnect", "crash"}
============================================================================
