CONSTANTS
  Writer = {w1, w2}
  Nobody = Nobody
  capacity_ = 2
  MAX_LINES = 2
  LastDay = 1
  MaxLine = 6
SPECIFICATION SafeSpec
\* One property at a time: TLC stops at the first that is violated.
INVARIANT DayOfFile
\* INVARIANT FileBounded
\* INVARIANT FlushesOpenFile
CHECK_DEADLOCK FALSE
