CONSTANTS
  Submission = {"ib"}
  Handler = {"h1"}
  Worker = {"w1"}
  HostOf <- OneHost
  Concurrency = 1
  MaxRetry = 1
  Mode <- MCMode
  Compiled <- MCCompiled
  NumTests <- MCNumTests
  Reports <- MCReports
  FaultKinds <- BoxFaults
  MaxFaults = 1
  MaxLeft = 0
  NoJob = "none"
SPECIFICATION Spec
INVARIANTS InternalErrorAfterRetries
\* Every submission ends as done or archived, and then nothing is left to do.
CHECK_DEADLOCK FALSE
