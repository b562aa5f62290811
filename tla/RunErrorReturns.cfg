\* A single benchmark with two threads.
CONSTANTS
  NumThreadsOne = 2
  NumThreadsTwo = 0
  Custom = {}
SPECIFICATION RunSpec
PROPERTIES
  ErrorReturnsFalse
