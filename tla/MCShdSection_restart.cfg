CONSTANTS
  p1 = p1
  p2 = p2
  Producers <- OneProducer
  Infos <- TwoSizes
  Lookup <- AllBackends
  MemorySize = 36
  HdrSize = 6
  BlobOffset = 4
  CrashPoints <- Anywhere
  Leftover = TRUE
  MaxCreations = 3
  MaxOngoing = 2
SPECIFICATION Spec
INVARIANTS
  EvenCountsCreations
  RestartSucceeds
  RestartIsGrantedWrites
  
  
  HeaderStandsWithRevision
  CreatorFitsSection
