SPECIFICATION Spec
CONSTANTS
  Procs = {p1, p2}
  Keys = {k1, k3}
  Vals = {va, vc}
  Chains = {h1, h2}
  p1 = p1
  p2 = p2
  k1 = k1
  k2 = k2
  k3 = k3
  va = va
  vb = vb
  vc = vc
  h1 = h1
  h2 = h2
  Hash <- MCHash
  KeyLen <- MCKeyLen
  DatLen <- MCDatLen
  Ops <- MCScan
  Flags = {"DB_INSERT", "DB_REPLACE", "other"}
  PtrMax = 2
  MaxKills = 1
  Blank = Blank
  None = None
INVARIANTS TypeOK ReadersSeeWholeRecords DataNotShared PointersValid Serialised LockOrder NotAllBlocked
PROPERTIES RecordsKeepShape
CHECK_DEADLOCK FALSE
