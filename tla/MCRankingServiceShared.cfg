CONSTANTS
  p1 = p1
  p2 = p2
  w1 = w1
  Member <- Products
  Stranger = Stranger
  Worker = {w1}
  Updater = Updater
  Nobody = Nobody
  Losable = FALSE
  MaxOnWay = 4
SPECIFICATION Spec
\* One property at a time: TLC stops at the first that is violated.
INVARIANT OwnReply
\* INVARIANT NoneLeftOver
\* PROPERTY EveryCallReturns
CHECK_DEADLOCK FALSE
