SPECIFICATION Spec
CONSTANTS
  Clients = {c1}
  MainThread = main
  Syscalls = {a, b}
  WINDOW_SIZE = 2
  MaxTokens = 6
INVARIANTS AllCounted
PROPERTIES ImplementsBagWindow
CHECK_DEADLOCK FALSE
