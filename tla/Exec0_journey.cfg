CONSTANTS
  Submission = {1, 2}
  Handler = {"h1"}
  Worker = {"w1"}
  HostOf <- OneHost
  Concurrency = 1
  MaxRetry = 1
  Mode <- MCMode
  Compiled <- MCCompiled
  NumTests <- MCNumTests
  Reports <- MCReports
  FaultKinds <- ErrorFaults
  MaxFaults = 2
  MaxLeft = 0
  NoJob = NoJob
  Request = {"r1", "r2"}
  Body <- MCBody
  MaxBatchTestCases = 2
  PoolSize = 1
  DefaultLimit = 1
  MaxLimit = 1
  APIFaultKinds <- APIFaults
  MaxAPIFaults = 1
  NoBody = NoBody
  Absent = Absent
  Unset = Unset
  Client = {"r1"}
  MaxReadFaults = 1
SPECIFICATION FairJourney
INVARIANTS ArchivedIsMarked FoundComplete ResponseAgrees AnswerStands
PROPERTIES TerminalIsFinal GetsAnswer
\* The submissions end and the client has its answer.
CHECK_DEADLOCK FALSE
