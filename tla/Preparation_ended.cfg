CONSTANTS
  Runs = {r1}
  Jobs = {j1}
  Requests <- Named
  NumStages = 1
  MaxAttempts = 1
  NoRun = NoRun
SPECIFICATION Spec
INVARIANTS EndedIsRetryable
CHECK_DEADLOCK FALSE
