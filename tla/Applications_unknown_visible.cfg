SPECIFICATION Spec
CONSTANTS
  Jobs = {j1}
  OtherJobs = {}
  Direct = {d1}
  Standing = {}
  Modes = {"email", "browser"}
  Reviews = {"approve_submit"}
  Stops = {"cancelled"}
  Concurrency = 1
  MaxTries <- Twice
  AutomaticLimit = 2
  MaxPayloads = 2
  MaxDecisions = 1
  MaxSources = 0
  MaxStops = 0
  MaxChecks = 0
PROPERTIES
  UnknownStaysVisible
CHECK_DEADLOCK FALSE
