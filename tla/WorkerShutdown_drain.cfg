CONSTANTS
  Submission = {"s1"}
  MaxRetry = 1
  MaxSignals = 1
SPECIFICATION Spec
INVARIANTS WaitsForTasks
\* The process ends.
CHECK_DEADLOCK FALSE
