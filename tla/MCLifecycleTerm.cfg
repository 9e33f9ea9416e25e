SPECIFICATION FairSpec
CONSTANTS
  q1 = q1
  q2 = q2
  Requests <- MCRequests
  Enabled = TRUE
  MaxSignals = 3
PROPERTIES TermHonoured
CHECK_DEADLOCK FALSE
