CONSTANTS
  Benchmarks <- MCBenchmarks
  Groups <- MCGroups
  Full <- MCFull
  DefaultList <- MCDefaultList
  MaxArgs = 1
SPECIFICATION SelectionSpec
INVARIANT DefaultIsAllListed
CHECK_DEADLOCK FALSE
