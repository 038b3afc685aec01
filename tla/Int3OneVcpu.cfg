SPECIFICATION FairSpec
CONSTANTS
  Vcpus = {v1}
  OrigOpcode = 15
  NotifyThreshold = 7
  TimeLimit = TRUE
  Fallible = {}
INVARIANTS GuestReleased
PROPERTIES TracedOnce ShutsDown
CHECK_DEADLOCK FALSE
