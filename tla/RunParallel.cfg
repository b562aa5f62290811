\* A parallel benchmark: two threads with a barrier, two custom threads.
CONSTANTS
  NumThreadsOne = 2
  NumThreadsTwo = 2
  Custom = {2}
SPECIFICATION RunSpec
INVARIANTS
  SuccessMeansFinished
  RunInv
PROPERTIES
  FaultFreeCompletes
  FaultStopsRun
