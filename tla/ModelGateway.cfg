SPECIFICATION Spec
CONSTANTS
  narrow = narrow
  wide = wide
  p1 = p1
  p2 = p2
  Pids = {p1, p2}
  Lanes = {narrow, wide}
  Capacity <- TwoLanes
  Budgets = {0, 2}
  Limits = {0, 1}
  Usages <- Priced
  MaxCalls = 2
  MaxDay = 1
SYMMETRY PidSymmetry
INVARIANTS
  TypeOK
  AnswerFindsReceipt
  SpendIsHonest
PROPERTIES
  WithinLimits
CHECK_DEADLOCK FALSE
