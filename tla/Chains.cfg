\* All small chains, and the README's, over partitions of 2 and 1 KiB.
CONSTANTS
  Jobs <- AllJobs
  PartitionSize = 2048
  DramPartitionSize = 1280
  WordSize = 8192
SPECIFICATION Spec
INVARIANTS
  AccessesInRange
  WritesFollowRead
  Persisted
