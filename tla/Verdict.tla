------------------------------ MODULE Verdict ------------------------------
(***************************************************************************)
(* How one sandbox report becomes the status of a test case, and how the   *)
(* statuses of the test cases become the status of the submission.  A      *)
(* report keeps of the metadata and the output only what the decision      *)
(* reads: the isolate status, the signal, whether the peak memory reached  *)
(* the limit, and whether the trimmed output is the expected one (TRUE     *)
(* too when the test case expects nothing).                                *)
(***************************************************************************)
InProgress == {"pending", "compiling", "running"}

Terminal == {"accepted", "wrong_answer", "compilation_error",
             "time_limit_exceeded", "memory_limit_exceeded",
             "runtime_error", "internal_error"}

Status == InProgress \cup Terminal

SIGKILL == 9

Report == [status   : {"", "TO", "SG", "RE", "XX"},
           signal   : {0, SIGKILL, 11},
           memFull  : BOOLEAN,
           matches  : BOOLEAN]

mapIsolateStatus(r) ==
  CASE r.status = "TO" -> "time_limit_exceeded"
    [] r.status = "SG" /\ r.signal = SIGKILL /\ r.memFull -> "memory_limit_exceeded"
    [] r.status = "XX" -> "internal_error"
    [] OTHER -> "runtime_error"

TestStatus(r) == IF r.status # "" THEN mapIsolateStatus(r)
                 ELSE IF r.matches THEN "accepted" ELSE "wrong_answer"

\* The last test case decides instead of the first one that is not accepted.
OverallLast(overall, testStatus) == testStatus

\* executeBatch's running overall status after one more reported test case.
Overall(overall, testStatus) ==
  IF overall = "accepted" /\ testStatus # "accepted" THEN testStatus ELSE overall
============================================================================
