CONSTANTS
  t1 = t1  t2 = t2  t3 = t3
  v1 = v1  v2 = v2  v3 = v3
  q1 = q1  q2 = q2
  Threads = {t1, t2, t3}
  Queues = {q1, q2}
  Values = {v1, v2, v3}
  None = None
SPECIFICATION QSpec
INVARIANTS NoLostWakeup InOnePlace
PROPERTY ImplementsStore
CHECK_DEADLOCK FALSE
