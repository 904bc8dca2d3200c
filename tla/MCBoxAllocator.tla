--------------------------- MODULE MCBoxAllocator ---------------------------
(***************************************************************************)
(* Instances of BoxAllocator with two or three goroutines and a maxBoxID   *)
(* small enough that the counter wraps, and the metadata files that they   *)
(* read from their sandboxes: up to three lines, int32 being -4..3.        *)
(***************************************************************************)
EXTENDS BoxAllocator, TLC

OneHost == [h \in Handler |-> CHOOSE w \in Worker : TRUE]

\* The goroutines of the one worker are interchangeable.
Symmetry == Permutations(Handler)

Lines == [key : {"time", "exitcode", "status", "none", "long"},
          value : {File!NoNumber} \cup {File!Number(n) : n \in {-5, -1, 0, 3, 8}}]

ShortReports == UNION {[1..n -> Lines] : n \in 0..3}
============================================================================
