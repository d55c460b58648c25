SPECIFICATION Spec
CONSTANTS
  Procs = {p1, p2}
  Keys = {k1, k2}
  Vals = {va, vb, vc}
  Chains = {h1}
  p1 = p1 
  p2 = p2
  k1 = k1
  k2 = k2
  k3 = k3
  va = va
  vb = vb
  vc = vc
  h1 = h1
  h2 = h2
  Hash <- MCHash
  KeyLen <- MCKeyLen
  DatLen <- MCDatLen
  Ops <- MCMixed
  Flags = {"DB_INSERT", "DB_REPLACE", "DB_STORE", "other"}
  PtrMax = 2
  MaxKills = 0
  Blank = Blank
  None = None
INVARIANTS NextrecAtRecord
CHECK_DEADLOCK FALSE
