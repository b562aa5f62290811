\* A hybrid benchmark with two partitions.
CONSTANTS
  Configs <- HybridPartitions
  CountModulus = 1024
  IntMax = 1024
SPECIFICATION Spec
INVARIANTS
  DramAccessesInRange
