CONSTANTS
  Writer = {w1, w2}
  Nobody = Nobody
  capacity_ = 1
  MAX_LINES = 2
  LastDay = 0
  MaxLine = 2
SPECIFICATION Spec
PROPERTIES
  JoinReturns
CHECK_DEADLOCK FALSE
