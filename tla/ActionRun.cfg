SPECIFICATION FairSpec
CONSTANTS
  c1 = c1
  c2 = c2
  Clients <- TwoClients
  MaxAttempts = 2
INVARIANTS
  TypeOK
  Custody
PROPERTIES
  PromiseKept
  StartedSettles
CHECK_DEADLOCK FALSE
