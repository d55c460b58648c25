SPECIFICATION FairSpec
CONSTANTS
  Clients = {c1, c2}
  Size = 1
  MaxJob = 3
  Radix = 3
  JobFiles <- AtWrap
  Prompt = FALSE
  Late = TRUE
  MaxCrash = 0
  MaxFail = 2
  MaxDefer = 2
  MaxEdit = 0
  None = None
PROPERTIES JobsLeaveSpool
CHECK_DEADLOCK FALSE
