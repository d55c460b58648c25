SPECIFICATION Spec
CONSTANTS
  Clients = {c1, c2}
  Loops = {"poll"}
  NALLOC = 1
  MaxReq <- MCMaxReq
  MaxStale = 0
INVARIANTS UidRight
CHECK_DEADLOCK FALSE
