CONSTANTS
  Conn = {c1, c2}
  Failed = {}
  Worker = {w1, w2, w3}
  Name = {n1}
  Password = {p1}
  Unique = TRUE
  MaxVerify = 1
  None = None
SPECIFICATION SafeSpec
INVARIANTS
  BusyNow
CHECK_DEADLOCK FALSE
