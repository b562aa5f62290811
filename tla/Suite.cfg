\* Suites of two entries, with shared names, matrices and parallel benchmarks.
CONSTANTS
  Suites <- SmallSuites
SPECIFICATION Spec
INVARIANTS
  WritersOwnTheirFiles
  ResultsComplete
  GroupedByName
  OnlyCurrentMapped
  ReadsFindData
  CleanUpUnlessMixed
