\* Three threads, four chunks: one thread generates an extra chunk.
CONSTANTS
  NumThreads = 3
  NumChunks = 4
  ChunkSize = 2
  RunTime = 0
  MaxIoPosition = 0
  MaxSpuriousWakeups = 2
SPECIFICATION Spec
INVARIANTS
  IndInv
  GenerationBarrier
  NoLostWakeup
  ExactlyOnce
PROPERTIES
  WriteOnce
  Termination
  ImplementsPool
