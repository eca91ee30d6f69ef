CONSTANTS
  MaxSamples = 2
  NumBench = 1
  ZombieReadable = TRUE
SPECIFICATION Spec
INVARIANT ReportIsPrinted
CHECK_DEADLOCK FALSE
