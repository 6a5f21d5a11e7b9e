CONSTANTS
  Fd = {f1, f2}
  Client = {c1, c2}
  Worker = {w1, w2}
  Main = Main
  Listen = Listen
  Idle = Idle
  NoOne = NoOne
  MAX_FD = 2
  MaxEvent = 2
  RcvBuf = 1
  RespLen = 2
  SndBuf = 1
  LowWater = 0
  ConnET = TRUE
  ListenET = TRUE
  Timeouts = TRUE
  SlowTasks = FALSE
  Resets = TRUE
  Again = TRUE
SPECIFICATION SafeSpec
SYMMETRY Symmetry
INVARIANTS
  OneThreadPerConn
  NoOrphan
  NothingStale
  SocketMatchesConn
  UserCountExact
  TimerCovers
PROPERTIES
  NoTruncation
CHECK_DEADLOCK FALSE
