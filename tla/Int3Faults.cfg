SPECIFICATION Spec
CONSTANTS
  Vcpus = {v1, v2}
  OrigOpcode = 15
  NotifyThreshold = 1
  TimeLimit = FALSE
  Fallible = {"init", "lstar", "pause", "read", "write", "reg_int", "reg_step", "resume", "poll", "inject", "send"}
INVARIANTS TypeOK NoOrphanTrap
CHECK_DEADLOCK FALSE
