SPECIFICATION FairSpec
CONSTANTS
  Vcpus = {v1, v2}
  OrigOpcode = 15
  NotifyThreshold = 7
  TimeLimit = FALSE
  Fallible = {}
INVARIANTS EveryPauseIsAnswerable NoUnhandledRequest
PROPERTIES TrapsAnswered
CHECK_DEADLOCK FALSE
