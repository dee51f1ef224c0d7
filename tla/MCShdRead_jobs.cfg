CONSTANTS
  p1 = p1
  NbSamples = 3
  Producers <- OneProducer
  Api <- BlobApi
  UintMod = 16
  MaxSessions = 6
  MaxOngoing = 2
  Searches <- AllSearches
  ReadApi <- BothApis
  Hints <- BothHints
SPECIFICATION ReadSpec
INVARIANTS
  ReadTypeOK
  ValidatedReadIsTheWindow
  WindowAroundReference
  QuietSearchIsRight
  SearchEndIsExact
  NoFalseAlarm
  WindowLasts
  OldestHasMargin
  LatestIsFresh
