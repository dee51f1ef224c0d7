CONSTANTS
  NbSamples = 3
  Searches <- AllSearches
  UintMod = 16
  MaxWrites = 4
  MaxCreations = 2
  MaxBlocks = 2
SPECIFICATION Spec
INVARIANTS
  TypeOK
  ValidatedSpansJob
  ReadsOnlyInJob
  ReferenceInWindow
  FreedTwiceOnlyByBareJob
  LeakOnlyOfGivenUpJob
