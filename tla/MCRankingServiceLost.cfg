CONSTANTS
  p1 = p1
  p2 = p2
  w1 = w1
  Member <- Products
  Stranger = Stranger
  Worker = {w1}
  Updater = Updater
  Nobody = Nobody
  Losable = TRUE
  MaxOnWay = 4
SPECIFICATION Spec
INVARIANTS
  UnsentBounded
CHECK_DEADLOCK FALSE
