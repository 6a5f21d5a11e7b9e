CONSTANTS
  Conn = {c1, c2}
  Failed = {}
  Worker = {w1, w2}
  Name = {n1}
  Password = {p1, p2}
  Unique = TRUE
  MaxVerify = 1
  None = None
SPECIFICATION SafeSpec
INVARIANTS
  RegisterTold
CHECK_DEADLOCK FALSE
