SPECIFICATION Spec
CONSTANTS
  Mode = "analyze"
  Chars = {"a", "b"}
  SysIndex <- MCSysIndex
  Watched = {}
  Rax = {0, 65537, 334}
  window_size = 2
  MaxName = 2
  BufSize = 8
  RecvMax = 8
  MaxCalls = 6
INVARIANTS BufferFits TokensFaithful
PROPERTIES ThreadEnds
CHECK_DEADLOCK FALSE
