CONSTANTS
  Runs = {r1, r2}
  Jobs = {j1}
  Requests <- Unnamed
  NumStages = 2
  MaxAttempts = 2
  NoRun = NoRun
SPECIFICATION Spec
SYMMETRY RunSymmetry
CONSTRAINTS
  OneRestart
  OneCancelled
INVARIANTS
  TypeOK
  OneWriter
  Evidence
PROPERTIES
  EvidenceStays
  RunsAreDurable
CHECK_DEADLOCK FALSE
