CONSTANTS
  p1 = p1
  NbSamples = 2
  Producers <- OneProducer
  Api <- BlobApi
  UintMod = 16
  MaxSessions = 4
  MaxOngoing = 2
  Searches <- LatestOnly
  ReadApi <- SampleApi
  Hints <- Naive
SPECIFICATION ReadSpec
INVARIANTS
  ValidatedIsWhole
