CONSTANTS
  Writer = {w1, w2}
  Nobody = Nobody
  capacity_ = 1
  MAX_LINES = 3
  LastDay = 1
  MaxLine = 4
SPECIFICATION Spec
INVARIANTS
  LineOnce
  PushNeverWaits
  OvertakeBounded
PROPERTIES
  EveryLineWritten
CHECK_DEADLOCK FALSE
