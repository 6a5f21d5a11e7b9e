CONSTANTS
  Fd = {f1}
  Client = {c1}
  Worker = {w1, w2}
  Main = Main
  Listen = Listen
  Idle = Idle
  NoOne = NoOne
  MAX_FD = 1
  MaxEvent = 2
  RcvBuf = 1
  RespLen = 3
  SndBuf = 2
  LowWater = 1
  ConnET = FALSE
  ListenET = FALSE
  Timeouts = FALSE
  SlowTasks = FALSE
  Resets = FALSE
  Again = FALSE
SPECIFICATION SafeSpec
PROPERTIES
  NoTruncation
CHECK_DEADLOCK FALSE
