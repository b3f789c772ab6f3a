SPECIFICATION Spec
CONSTANTS
  a1 = a1
  a2 = a2
  Apps <- MCApps
  MaxOpens = 2
  NativeWs = FALSE
  CallbackOps <- AnyMethod
SYMMETRY Symmetry
CHECK_DEADLOCK FALSE
INVARIANTS
  IInv
  HandleNotFreedInUse
  SpawnFindsNoWorker
  OverlapOnlyWithConnect
  StopsOnlyByReentry
