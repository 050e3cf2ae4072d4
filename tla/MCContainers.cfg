CONSTANTS
  Ids = {i1, i2}
  Conts = {c1, c2}
  Starts = {s1, s2, s3}
  None = None
SYMMETRY Symmetric
SPECIFICATION Spec
CHECK_DEADLOCK FALSE
INVARIANTS
  TypeOK
  OverlaysAccounted
  RunsOwnBundle
  RootfsStays
PROPERTY RefusedOnlyByLeftovers
