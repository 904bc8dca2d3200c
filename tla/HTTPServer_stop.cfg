CONSTANTS
  Request = {"r1", "r2"}
  Address = {"a1", "unparsable"}
  Entry = {"ip", "typo"}
  From <- FromOf
  Covers <- CoversOf
SPECIFICATION FairSpec
INVARIANTS TypeOK CleanExit DegradedIsTrouble CountedIsSent
PROPERTIES Stops
\* The process ends.
CHECK_DEADLOCK FALSE
