CONSTANTS
  Benchmarks <- MCBenchmarks
  Groups <- MCGroups
  Full <- MCFull
  DefaultList <- MCDefaultList
  MaxArgs = 1
SPECIFICATION SelectionSpec
INVARIANT OmittedAsDocumented
CHECK_DEADLOCK FALSE
