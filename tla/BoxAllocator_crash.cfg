CONSTANTS
  Handler = {h1, h2, h3}
  Worker = {"w1"}
  HostOf <- OneHost
  MaxBoxID = 2
  LaunchFails = TRUE
  Reports <- ShortReports
  Int32Half = 4
  MaxClaims = 4
  MaxCrashes = 1
SYMMETRY Symmetry
SPECIFICATION Spec
INVARIANTS TypeOK OwnResult NoStaleResult MetadataIsRead
\* MaxClaims is a bound of the model: when it is reached, everything is idle.
CHECK_DEADLOCK FALSE
