CONSTANTS
  NumBench = 2
  NoStatistics = FALSE
  ChangedUrls = 1
  BaselineUrls = 0
  Retries = 1
  Healthy = {}
SPECIFICATION Spec
INVARIANT OkMeansAllStored
CHECK_DEADLOCK FALSE
