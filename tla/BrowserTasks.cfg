SPECIFICATION FairSpec
CONSTANTS
  p = p
  q = q
  a = a
  b = b
  c = c
  r = r
  Nobody = Nobody
  Tasks = {t1}
  Runs = {r}
  ParentOf <- OneRun
  Profiles = {p, q}
  Executors = {a, b, c}
  Of <- TwoProfiles
  Capacity = 1
  MaxChanges = 3
INVARIANTS
  TypeOK
  StartedOnce
PROPERTIES
  Authority
  AbandonedStops
CHECK_DEADLOCK FALSE
