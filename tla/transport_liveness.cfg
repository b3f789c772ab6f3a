SPECIFICATION FairSpec
CONSTANTS
  a1 = a1
  a2 = a2
  Apps <- MCApps
  MaxOpens = 1
  NativeWs = FALSE
  CallbackOps <- SendOnly
CHECK_DEADLOCK FALSE
PROPERTIES
  CloseReturns
  EndIsReported
