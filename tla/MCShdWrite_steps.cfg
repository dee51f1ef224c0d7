CONSTANTS
  p1 = p1
  p2 = p2
  p3 = p3
  NbSamples = 2
  Producers <- TwoProducers
  Api <- StepApi
  UintMod = 16
  MaxSessions = 6
  MaxOngoing = 4
SPECIFICATION FairSpec
INVARIANTS
  LapOrder
PROPERTIES
  SessionsEnd
