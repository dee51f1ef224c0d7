CONSTANTS
  p1 = p1
  p2 = p2
  NbSamples = 3
  Producers <- TwoProducers
  Api <- BlobApi
  UintMod = 16
  MaxSessions = 5
  MaxOngoing = 3
SPECIFICATION BpmpSpec
INVARIANTS
  OneWriter
