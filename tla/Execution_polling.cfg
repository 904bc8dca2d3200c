CONSTANTS
  Submission = {"is"}
  Handler = {"h1"}
  Worker = {"w1"}
  HostOf <- OneHost
  Concurrency = 1
  MaxRetry = 1
  Mode <- MCMode
  Compiled <- MCCompiled
  NumTests <- MCNumTests
  Reports <- MCReports
  FaultKinds <- Crashes
  MaxFaults = 2
  MaxLeft = 0
  NoJob = "none"
SPECIFICATION Spec
INVARIANTS PollingEnds
\* Every submission ends as done or archived, and then nothing is left to do.
CHECK_DEADLOCK FALSE
