\* Two threads with up to three calls each; 5 is too large for int arithmetic.
CONSTANTS
  NumThreads = 2
  a = 3
  m = 7
  Seed = 1
  Ranges <- SmallRanges
  sum_probs <- SmallTables
  IntMax = 8
  MaxCalls = 3
SPECIFICATION Spec
INVARIANTS
  RandValFollowsLcg
  ZipfInverts
PROPERTIES
  EveryCallReturns
