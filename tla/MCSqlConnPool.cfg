CONSTANTS
  Conn = {c1, c2}
  Failed = {}
  Worker = {w1, w2, w3}
  Name = {n1}
  Password = {p1}
  Unique = TRUE
  MaxVerify = 1
  None = None
SPECIFICATION Spec
INVARIANTS
  SemMatchesQueue
  BusyOnlyWhenTaken
  NoneLost
PROPERTIES
  EveryVerifyEnds
CHECK_DEADLOCK FALSE
