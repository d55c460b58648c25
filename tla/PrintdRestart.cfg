SPECIFICATION Spec
CONSTANTS
  Clients = {c1, c2}
  Size = 1
  MaxJob = 3
  Radix = 3
  JobFiles <- AnyFile
  Prompt = TRUE
  Late = FALSE
  MaxCrash = 2
  MaxFail = 1
  MaxDefer = 1
  MaxEdit = 1
  None = None
INVARIANTS TypeOK AckedNotLost JobsOwnTheirFiles PrintedAgainForAReason RefusedLeavesNothing RereadNotLost
CHECK_DEADLOCK FALSE
SYMMETRY Alike
