CONSTANTS
  NumBench = 2
  NoStatistics = FALSE
  ChangedUrls = 2
  BaselineUrls = 1
  Retries = 1
  Healthy = {2}
  Benchmarks <- MCBenchmarks
  Groups <- MCGroups
  Full <- MCFull
  DefaultList <- MCDefaultList
  MaxArgs = 3
SPECIFICATION NightSpec
INVARIANTS ExitStatusTells HealthyGetAll SentAgainOnlyIfUnanswered 
CHECK_DEADLOCK FALSE
