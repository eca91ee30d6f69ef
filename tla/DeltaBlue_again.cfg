CONSTANTS
  MaxSize = 2
  Rounds = 1
  None = None
SPECIFICATION Spec
INVARIANT SatisfiedAgain
CHECK_DEADLOCK FALSE
