CONSTANTS
  Fd = {f1}
  Client = {c1, c2}
  Worker = {w1, w2}
  Main = Main
  Listen = Listen
  Idle = Idle
  NoOne = NoOne
  MAX_FD = 1
  MaxEvent = 2
  RcvBuf = 2
  RespLen = 2
  SndBuf = 1
  LowWater = 1
  ConnET = TRUE
  ListenET = FALSE
  Timeouts = FALSE
  SlowTasks = FALSE
  Resets = FALSE
  Again = TRUE
SPECIFICATION CooperativeSpec
PROPERTIES
  NoLostRequest
  ResponsesLeave
CHECK_DEADLOCK FALSE
