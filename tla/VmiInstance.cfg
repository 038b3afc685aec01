SPECIFICATION Spec
CONSTANTS
  Procs <- MCProcs
  Scenarios <- MCScenarios
  CutAt = 3
  Width = 4
CHECK_DEADLOCK FALSE
INVARIANTS
  
  
  
  PauseBalanced
  
PROPERTIES
  
  WalksRight
