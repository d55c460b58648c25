SPECIFICATION Spec
CONSTANTS
  Threads = {t1, t2, t3}
  Null = Null
INVARIANTS KillReachesAll
CHECK_DEADLOCK FALSE
