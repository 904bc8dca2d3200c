CONSTANTS
  Submission = {"s1", "s2"}
  MaxRetry = 0
  MaxSignals = 2
SPECIFICATION FairSpec
INVARIANTS TypeOK ShutdownIsFree
PROPERTIES Stops
\* The process ends.
CHECK_DEADLOCK FALSE
