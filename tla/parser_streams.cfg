SPECIFICATION FairSpec
CONSTANTS
  Sent <- MCSent
  Streams <- AllStreams
  SizeMod = 64
  MayReset = TRUE
INVARIANTS
  TypeOK
  ChunksDoNotMatter
  RoundTripOfSent
PROPERTIES
  FeedEnds
