SPECIFICATION VisitSpec
CONSTANTS
  Modes = {"http", "page", "job"}
INVARIANTS
  VisitTypeOK
  LeavesNothing
  StaysAtSource
PROPERTIES
  VisitEnds
CHECK_DEADLOCK FALSE
