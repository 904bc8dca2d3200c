CONSTANTS
  Handler = {h1, h2}
  Worker = {"w1"}
  HostOf <- OneHost
  MaxBoxID = 3
  LaunchFails = FALSE
  Reports <- ShortReports
  Int32Half = 4
  MaxClaims = 4
  MaxCrashes = 0
SPECIFICATION Spec
INVARIANTS CollisionFree
\* MaxClaims is a bound of the model: when it is reached, everything is idle.
CHECK_DEADLOCK FALSE
