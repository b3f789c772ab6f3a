SPECIFICATION Spec
CONSTANTS
  s1 = s1
  s2 = s2
  ShortBytes = 1
  ShortMax = 16
  LongBytes = 2
  MaskBytes = 2
  Senders <- TwoSenders
  Payloads <- MCPayloads
  Masks <- MCMasks
  Urls <- MCUrls
  Keys <- MCKeys
  Streams <- MCStreams
  Cuts <- MCCuts
  MaxOpens = 2
  MaxWritten = 2
CHECK_DEADLOCK FALSE
INVARIANTS
  TypeOK
  WireIsFrames
  OneLateFrameEach
  DataIsDelivered
  PongsEchoPings
  ResponseIsRecognised
  RequestIsForUrl
  KeyIsBase64
