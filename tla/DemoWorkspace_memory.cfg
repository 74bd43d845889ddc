SPECIFICATION Spec
CONSTANTS
  a = a
  Nothing = Nothing
  Tabs = {a}
  Ops = {o1, o2}
  Releases = {1}
  Migrated = {}
  LogLimit = 1
  MaxWrites = 2
  MaxOthers = 1
INVARIANTS
  PreservesConfirmed
CHECK_DEADLOCK FALSE
