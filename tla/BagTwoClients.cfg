SPECIFICATION Spec
CONSTANTS
  Clients = {c1, c2}
  MainThread = main
  Syscalls = {a}
  WINDOW_SIZE = 2
  MaxTokens = 4
INVARIANTS WindowBound NeverOvercounted
PROPERTIES StuckForever
CHECK_DEADLOCK FALSE
