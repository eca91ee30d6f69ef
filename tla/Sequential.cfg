CONSTANTS
  MaxSize = 3
  Rounds = 3
  None = None
  BoardSize = 3
  Paths <- GoPaths
  MaxPlays = 8
SPECIFICATION SequentialSpec
INVARIANTS Determined AnnotationsCurrent EquationsHold BoardChecks
PROPERTIES TestsEnd GamesAreLegal
CHECK_DEADLOCK FALSE
