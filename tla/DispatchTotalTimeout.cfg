CONSTANTS
  r1 = r1
  r2 = r2
  Requests <- TwoRequests
  PoolLen = 1
  PanicsAllowed = FALSE

SPECIFICATION Spec
CHECK_DEADLOCK FALSE
INVARIANTS
  TimeoutIsTotal
