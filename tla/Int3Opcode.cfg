SPECIFICATION Spec
CONSTANTS
  Vcpus = {v1}
  OrigOpcode = 15
  NotifyThreshold = 7
  TimeLimit = FALSE
  Fallible = {}
INVARIANTS OpcodeRestored
CHECK_DEADLOCK FALSE
