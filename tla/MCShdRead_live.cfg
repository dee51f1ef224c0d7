CONSTANTS
  p1 = p1
  NbSamples = 3
  Producers <- OneProducer
  Api <- BlobApi
  UintMod = 16
  MaxSessions = 4
  MaxOngoing = 2
  Searches <- AllSearches
  ReadApi <- SampleApi
  Hints <- BothHints
SPECIFICATION FairReadSpec
PROPERTIES
  ReadReturns
