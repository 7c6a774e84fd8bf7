SPECIFICATION LiveSpec
CONSTANTS
  Services = {"worker", "frontend"}
  MAX_RETRY = 3
  Errors <- MCErrors
  MAX_FAULTS = 2
  MAX_KILLS = 1
  MAX_SIGNALS = 1
  MAX_PENDING = 1
INVARIANTS
  ReadyMeansReachable
  OutageFollowsFailures
PROPERTIES
  ServesAgain
CHECK_DEADLOCK FALSE
