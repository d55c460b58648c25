SPECIFICATION Spec
CONSTANTS
  Clients = {c1, c2}
  Size = 1
  MaxJob = 3
  Radix = 3
  JobFiles <- NewFile
  Prompt = TRUE
  Late = TRUE
  MaxCrash = 1
  MaxFail = 0
  MaxDefer = 1
  MaxEdit = 0
  None = None
INVARIANTS JobIdsFresh
CHECK_DEADLOCK FALSE
