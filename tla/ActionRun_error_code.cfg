SPECIFICATION Spec
CONSTANTS
  c1 = c1
  c2 = c2
  Clients <- OneClient
  MaxAttempts = 2
CHECK_DEADLOCK FALSE
INVARIANTS
  FailedHasCode
