CONSTANTS
  Submission = {"s1", "s2", "s3", "s4"}
  Half = 6
  DefaultRows = 2
  MaxRows = 3
  Asked <- AskedOf
SPECIFICATION Spec
INVARIANTS TypeOK WalkSeesAll NothingSlipsPast
\* A walk that is over stays over.
CHECK_DEADLOCK FALSE
