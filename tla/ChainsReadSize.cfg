\* The chain of the README's example.
CONSTANTS
  Jobs <- ReadmeJob
  PartitionSize = 2048
  DramPartitionSize = 1280
  WordSize = 8192
SPECIFICATION Spec
INVARIANTS
  AccessesItsSize
