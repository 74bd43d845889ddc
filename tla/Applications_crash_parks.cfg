SPECIFICATION FairSpec
CONSTANTS
  Jobs = {j1}
  OtherJobs = {}
  Direct = {}
  Standing = {s1}
  Modes = {"email"}
  Reviews = {"approve_submit"}
  Stops = {"cancelled"}
  Concurrency = 1
  MaxTries <- Twice
  AutomaticLimit = 2
  MaxPayloads = 1
  MaxDecisions = 1
  MaxSources = 0
  MaxStops = 0
  MaxChecks = 0
PROPERTIES
  CrashParks
CHECK_DEADLOCK FALSE
