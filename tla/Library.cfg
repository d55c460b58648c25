SPECIFICATION LibSpec
CONSTANTS
  p1 = p1
  p2 = p2
  p3 = p3
  Procs = {p1, p2, p3}
  Ops <- MCOps
  InitVal = 1
  BIGCOUNT = 4
  MaxSets = 3
  MaxKills = 2
  Threads = {t1, t2}
  Objs = {a, b, c}
  Ids = {i1, i2}
  Slots = {s1, s2}
  Hashes = {0}
  HASH <- MCHASH
  i1 = i1
  i2 = i2
  a = a
  b = b
  c = c
  s1 = s1
  s2 = s2
  NULL = NULL
  NUM_THREADS = 4
  NoJob = NoJob
  Loops <- MCLoops
SYMMETRY Alike
INVARIANTS ValuesAccounted TypeOK NoUseAfterFree CountsReferences FreedAlone LocksInOrder QueueServes TurnsKept
PROPERTIES InitialisedOnce CreatorKeepsSet ImplementsMutex3
CHECK_DEADLOCK FALSE
