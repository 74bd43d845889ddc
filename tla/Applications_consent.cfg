SPECIFICATION FairSpec
CONSTANTS
  Jobs = {j1}
  OtherJobs = {o1}
  Direct = {d1, d2}
  Standing = {}
  Modes = {"email", "browser"}
  Reviews = {"approve_submit"}
  Stops = {"skipped"}
  Concurrency = 1
  MaxTries <- OneTwice
  AutomaticLimit = 3
  MaxPayloads = 1
  MaxDecisions = 1
  MaxSources = 1
  MaxStops = 0
  MaxChecks = 1
INVARIANTS
  OneUseConsent
PROPERTIES
  DirectSettles
CHECK_DEADLOCK FALSE
