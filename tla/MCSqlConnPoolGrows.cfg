CONSTANTS
  Conn = {c1, c2}
  Failed = {}
  Worker = {w1}
  Name = {n1}
  Password = {p1}
  Unique = TRUE
  MaxVerify = 2
  None = None
SPECIFICATION SafeSpec
INVARIANTS
  PoolBounded
CHECK_DEADLOCK FALSE
