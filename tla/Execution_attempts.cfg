CONSTANTS
  Submission = {"cb"}
  Handler = {h1, h2}
  Worker = {"w1"}
  HostOf <- OneHost
  Concurrency = 1
  MaxRetry = 1
  Mode <- MCMode
  Compiled <- MCCompiled
  NumTests <- MCNumTests
  Reports <- MCTwoReports
  FaultKinds <- AllButRow
  MaxFaults = 3
  MaxLeft = 1
  NoJob = "none"
SYMMETRY Symmetry
SPECIFICATION Spec
INVARIANTS TypeOK OneWriter DoneHasVerdict RetryNeedsFault OneBox VerdictMatchesRows
PROPERTIES FinalVerdictStable ImplementsJudging
\* Every submission ends as done or archived, and then nothing is left to do.
CHECK_DEADLOCK FALSE
