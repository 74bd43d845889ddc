SPECIFICATION Spec
CONSTANTS
  a = a
  b = b
  Nothing = Nothing
  Tabs = {a, b}
  Ops = {o1}
  Releases = {1, 2}
  Migrated = {}
  LogLimit = 1
  MaxWrites = 2
  MaxOthers = 1
SYMMETRY TabSymmetry
INVARIANTS
  TypeOK
  Coherent
  NothingLost
PROPERTIES
  NeverGoesBack
CHECK_DEADLOCK FALSE
