SPECIFICATION Spec
CONSTANTS
  Procs = {p1, p2}
  Keys = {k1, k2, k3}
  Vals = {va, vc}
  Chains = {h1, h2}
  p1 = p1
  p2 = p2
  k1 = k1
  k2 = k2
  k3 = k3
  va = va
  vb = vb
  vc = vc
  h1 = h1
  h2 = h2
  Hash <- MCHash
  KeyLen <- MCKeyLen
  DatLen <- MCDatLen
  Ops <- MCOps
  Flags = {"DB_STORE"}
  PtrMax = 2
  MaxKills = 0
  Blank = Blank
  None = None
INVARIANTS ListsSound NoRecordLeaks
PROPERTIES ImplementsMap
CHECK_DEADLOCK FALSE
SYMMETRY Alike
