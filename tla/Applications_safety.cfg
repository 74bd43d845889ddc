SPECIFICATION Spec
CONSTANTS
  Jobs = {j1}
  OtherJobs = {}
  Direct = {d1}
  Standing = {s1}
  Modes = {"email", "browser"}
  Reviews = {"approve_submit"}
  Stops = {"cancelled"}
  Concurrency = 1
  MaxTries <- OneTwice
  AutomaticLimit = 1
  MaxPayloads = 2
  MaxDecisions = 2
  MaxSources = 1
  MaxStops = 1
  MaxChecks = 0
CONSTRAINTS
  PlainChange
INVARIANTS
  TypeOK
  RecordStands
  StopSurvives
PROPERTIES
  SubmitsOnce
  NoRevival
CHECK_DEADLOCK FALSE
