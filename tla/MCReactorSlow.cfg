CONSTANTS
  Fd = {f1}
  Client = {c1}
  Worker = {w1, w2}
  Main = Main
  Listen = Listen
  Idle = Idle
  NoOne = NoOne
  MAX_FD = 1
  MaxEvent = 2
  RcvBuf = 1
  RespLen = 1
  SndBuf = 1
  LowWater = 1
  ConnET = TRUE
  ListenET = TRUE
  Timeouts = TRUE
  SlowTasks = TRUE
  Resets = FALSE
  Again = FALSE
SPECIFICATION SafeSpec
INVARIANTS
  OneThreadPerConn
CHECK_DEADLOCK FALSE
