CONSTANTS
  Submission = {"cs", "is"}
  Handler = {"h1", "h2"}
  Worker = {"w1"}
  HostOf <- OneHost
  Concurrency = 1
  MaxRetry = 1
  Mode <- MCMode
  Compiled <- MCCompiled
  NumTests <- MCNumTests
  Reports <- MCTwoReports
  FaultKinds <- OneOfEachKind
  MaxFaults = 2
  MaxLeft = 0
  NoJob = "none"
SPECIFICATION FairSpec
PROPERTIES Settles Judged
\* Every submission ends as done or archived, and then nothing is left to do.
CHECK_DEADLOCK FALSE
