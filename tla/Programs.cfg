CONSTANTS
  w1 = w1  w2 = w2  q1 = q1  q2 = q2  p1 = p1  p2 = p2  p3 = p3  l1 = l1  l2 = l2  main = main
  Worms = {w1, w2}
  CellsWide = 3
  CellsHigh = 2
  MaxSize = 4
  NumSteps = 5
  None = None
  IdleCount = 10000
  Length = 6
  FutureLevel = 0
  CallSize = 2
  Sorters = {q1, q2}
  Sorting = main
  NoFuture = NoFuture
  SkipElems = {1, 2, 3, 4}
  TopHeight = 3
  Items = {1, 2, 3, 4, 5, 6, 7, 8}
  Order = 2
  Limit = 8
  BatchSize = 3
  PrimeWorkers = {p1, p2, p3}
  Iterations = 2
  WarmUp = 1
  Concurrency = 2
  MinCount = 1
  NumPrograms = 2
  GridSize = 7
  Pads <- BoardPads
  Nets <- BoardNets
  LongRun = 1
  LeeThreads = {l1, l2}
SPECIFICATION ProgramsSpec
INVARIANTS TypesOK GridIsBodies PacketsKept PendingIsInput RightCounts
  RangesDisjoint SortedAtLast LevelsAgree BTreeShape EveryPrimeCounted ReportsAreIterations
PROPERTIES SkipListIsSet BTreeIsSet StragglersOnlyDrain TracksConnect ProgramEnds
CHECK_DEADLOCK FALSE
