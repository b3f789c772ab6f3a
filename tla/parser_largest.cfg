SPECIFICATION Spec
CONSTANTS
  Sent = {}
  Streams <- LargestStreams
  SizeMod = 16
  MayReset = FALSE
CHECK_DEADLOCK FALSE
INVARIANTS
  BodiesHaveTheirLength
