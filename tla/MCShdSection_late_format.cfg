CONSTANTS
  p1 = p1
  p2 = p2
  Producers <- OneProducer
  Infos <- TwoSizes
  Lookup <- Shm
  MemorySize = 36
  HdrSize = 6
  BlobOffset = 4
  CrashPoints <- NoCrash
  Leftover = FALSE
  MaxCreations = 3
  MaxOngoing = 2
SPECIFICATION Spec
INVARIANTS
  FormatChangeIsTold
