SPECIFICATION Spec
CONSTANTS
  a1 = a1
  a2 = a2
  Reader = reader
  Apps <- OneApp
  MaxSessions = 2
  MaxSubs = 1
  MaxQueue = 1
INVARIANTS
  FramesAreWhole
