CONSTANTS
  p1 = p1
  p2 = p2
  p3 = p3
  NbSamples = 3
  Producers <- ThreeProducers
  Api <- BlobApi
  UintMod = 16
  MaxSessions = 7
  MaxOngoing = 4
SPECIFICATION Spec
INVARIANTS
  TypeOK
  OneWriter
  SectionHeld
  OneSlotPerWrite
  LapOrder
  FaultMeansForeignWrite
  NoFaultMeansWholeLaps
PROPERTIES
  PublishedStable
  FaultStopsTheRing
  ImplementsLog
