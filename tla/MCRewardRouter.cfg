SPECIFICATION RouterSpec
CHECK_DEADLOCK FALSE
CONSTANTS
  r1 = r1
  r2 = r2
  r3 = r3
  r4 = r4
  r5 = r5
  NumWorkers = 2
  Requests <- MCRequests
  MaxAttempts = 3
SYMMETRY Symmetric
INVARIANTS
  CountsExplained
