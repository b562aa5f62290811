\* Two threads, three chunks, handed out for up to two rounds and a half
\* before the deadlines pass.
CONSTANTS
  NumThreads = 2
  NumChunks = 3
  ChunkSize = 2
  RunTime = 1
  MaxIoPosition = 7
  MaxSpuriousWakeups = 1
SPECIFICATION Spec
INVARIANTS
  ReportedSizesAddUp
PROPERTIES
  Termination
  ImplementsPool
