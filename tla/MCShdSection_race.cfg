CONSTANTS
  p1 = p1
  p2 = p2
  Producers <- TwoProducers
  Infos <- TwoSizes
  Lookup <- Shm
  MemorySize = 36
  HdrSize = 6
  BlobOffset = 4
  CrashPoints <- OutsideUpdate
  Leftover = FALSE
  MaxCreations = 2
  MaxOngoing = 1
SPECIFICATION FairSpec
INVARIANTS
  TypeOK
  OneCreator
  OddWhileUpdating
  OpenedOnAFormat
PROPERTIES
  ConsumerGetsIn
