CONSTANTS
  MaxSamples = 2
  NumBench = 2
  ZombieReadable = TRUE
SPECIFICATION Spec
INVARIANT Undisturbed
PROPERTIES UsageIsFinal Ends
CHECK_DEADLOCK FALSE
