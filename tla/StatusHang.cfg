SPECIFICATION FairSpec
CONSTANTS
  Conversations <- MCAnyCut
  Success <- MCSuccess
  Failures <- MCFailures
PROPERTIES Returns
CHECK_DEADLOCK FALSE
