CONSTANTS
  Fd = {f1, f2}
  Client = {c1, c2}
  Worker = {w1}
  Main = Main
  Listen = Listen
  Idle = Idle
  NoOne = NoOne
  MAX_FD = 1
  MaxEvent = 1
  RcvBuf = 1
  RespLen = 2
  SndBuf = 1
  LowWater = 0
  ConnET = FALSE
  ListenET = FALSE
  Timeouts = TRUE
  SlowTasks = FALSE
  Resets = FALSE
  Again = FALSE
SPECIFICATION Spec
INVARIANTS
  IInv
PROPERTIES
  EventuallyClosed
  NobodyStranded
CHECK_DEADLOCK FALSE
