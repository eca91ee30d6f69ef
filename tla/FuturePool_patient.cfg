CONSTANTS
  main = main  c1 = c1
  p1 = p1  p2 = p2
  w1 = w1  w2 = w2  w3 = w3
  f1 = f1  f2 = f2
  Main = main
  Clients = {c1}
  Pools = {p1}
  FirstPool = p1
  WorkersOf <- JustTwo
  Futures = {f1, f2}
  AtomicFutures = {f2}
  Makers = {main, w1}
  Callers = {main, c1}
  Patient = TRUE
  Endings = {"exception"}
  None = None
SPECIFICATION Spec
CHECK_DEADLOCK FALSE
PROPERTIES CallsReturn TasksRun
