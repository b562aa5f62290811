\* Three threads, three chunks of three operations, eight requested: the
\* last chunk is added for the rest.
CONSTANTS
  NumThreads = 3
  NumOperations = 8
  OpsPerChunk = 3
  SampleFrequency = 2
  MaxClock = 2
SPECIFICATION TimedSpec
INVARIANTS
  EnoughOperations
  ReportedSizesAddUp
  CounterBounded
  SamplesPerChunk
  ThroughputAddsUp
PROPERTIES
  Termination
