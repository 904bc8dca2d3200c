CONSTANTS
  Request = {"r1", "r2"}
  Body <- MCAllBodies
  MaxBatchTestCases = 2
  PoolSize = 1
  DefaultLimit = 1
  MaxLimit = 3
  FaultKinds <- AllFaults
  MaxFaults = 3
  NoBody = NoBody
  Absent = Absent
  Unset = Unset
SPECIFICATION FairSpec
INVARIANTS TypeOK AllOrNothing QueuedIsCommitted CreatedIsQueued NoOrphan WithinLimits
PROPERTIES Answered
\* Every request ends, and then nothing is left to do.
CHECK_DEADLOCK FALSE
