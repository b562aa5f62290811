\* All small configurations.
CONSTANTS
  Configs <- SmallConfigs
  CountModulus = 8
  IntMax = 8
SPECIFICATION Spec
INVARIANTS
  AccessesInMemoryRange
  EnoughOperations
  CoversRange
  ReadsGeneratedData
