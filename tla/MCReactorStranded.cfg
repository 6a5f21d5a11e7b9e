CONSTANTS
  Fd = {f1}
  Client = {c1, c2}
  Worker = {w1, w2}
  Main = Main
  Listen = Listen
  Idle = Idle
  NoOne = NoOne
  MAX_FD = 1
  MaxEvent = 2
  RcvBuf = 1
  RespLen = 1
  SndBuf = 1
  LowWater = 1
  ConnET = TRUE
  ListenET = TRUE
  Timeouts = TRUE
  SlowTasks = FALSE
  Resets = FALSE
  Again = FALSE
SPECIFICATION Spec
\* One property at a time: TLC stops at the first that is violated.
PROPERTY NobodyStranded
\* PROPERTY SilentClosed
CHECK_DEADLOCK FALSE
