CONSTANTS
  NbSamples = 3
  Searches <- Single
  UintMod = 16
  MaxWrites = 2
  MaxCreations = 2
  MaxBlocks = 2
SPECIFICATION Spec
INVARIANTS
  MetadataFreedOnce
