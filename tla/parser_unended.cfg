SPECIFICATION Spec
CONSTANTS
  Sent = {}
  Streams <- UnendedStreams
  SizeMod = 16
  MayReset = FALSE
CHECK_DEADLOCK FALSE
INVARIANTS
  FramesAreEnded
