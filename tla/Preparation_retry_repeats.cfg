CONSTANTS
  Runs = {r1, r2}
  Jobs = {j1}
  Requests <- Named
  NumStages = 1
  MaxAttempts = 2
  NoRun = NoRun
SPECIFICATION Spec
SYMMETRY RunSymmetry
INVARIANTS RetryDoesNotRepeat
CHECK_DEADLOCK FALSE
