CONSTANTS
  main = main  c1 = c1
  p1 = p1  p2 = p2
  w1 = w1  w2 = w2  w3 = w3
  f1 = f1  f2 = f2
  Main = main
  Clients = {}
  Pools = {p1, p2}
  FirstPool = p1
  WorkersOf <- TwoAndOne
  Futures = {f1, f2}
  AtomicFutures = {f2}
  Makers = {main, w1}
  Callers = {main, w2}
  Patient = FALSE
  Endings = {"value", "exit"}
  None = None
SPECIFICATION Spec
CHECK_DEADLOCK FALSE
INVARIANTS TaskInOnePlace NoSleepingCaller RetiredPoolIsDead ExitsSuffice
PROPERTIES ImplementsFuture ShutdownEnds
