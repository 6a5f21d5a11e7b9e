CONSTANTS
  Conn = {c1, c2, c3}
  Failed = {}
  Worker = {w1, w2}
  Name = {n1}
  Password = {p1}
  Unique = TRUE
  MaxVerify = 3
  None = None
SPECIFICATION SafeSpec
PROPERTIES
  GivenIdle
CHECK_DEADLOCK FALSE
