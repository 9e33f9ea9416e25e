SPECIFICATION FairSpec
CONSTANTS
  q1 = q1
  q2 = q2
  Requests <- MCRequests
  Enabled = TRUE
  MaxSignals = 3
INVARIANTS CutOnlyWhenExpired NoTraceUncounted IInv
PROPERTIES HupServed ShutdownEnds
CHECK_DEADLOCK FALSE
