SPECIFICATION Spec
CONSTANTS
  r1 = r1
  r2 = r2
  r3 = r3
  r4 = r4
  Requests <- MCFourRequests
  ClientIds = {1, 2}
  Asks <- MCFourAsks
  maxSequenceNumber = 2
  nireq = 1
INVARIANT NoCircularWait
CHECK_DEADLOCK FALSE
