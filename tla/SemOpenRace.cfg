SPECIFICATION SemSpec
CONSTANTS
  Procs = {p1, p2, p3}
  p1 = p1
  p2 = p2
  p3 = p3
  Ops <- MCOps
  InitVal = 1
  BIGCOUNT = 4
  MaxSets = 2
  MaxKills = 1

PROPERTIES RemovedUnused
CHECK_DEADLOCK FALSE
