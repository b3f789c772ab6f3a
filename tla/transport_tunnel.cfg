SPECIFICATION Spec
CONSTANTS
  a1 = a1
  a2 = a2
  Apps <- MCApps
  MaxOpens = 3
  NativeWs = FALSE
  CallbackOps <- SendOnly
SYMMETRY Symmetry
CHECK_DEADLOCK FALSE
INVARIANTS
  TypeOK
  ConnectedHasReader
  StopsOnlyByReentry
  NeverHangs
  OneWorker
  ClosedIsQuiet
  DestructorLeavesNoThread
PROPERTIES
  ImplementsContract
