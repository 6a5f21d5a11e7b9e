CONSTANTS
  Id = {f1, f2, f3, f4, f5}
  Timeout = {4}
  Grain = 2
  Delay = {0, 1, 3, 4}
  Back = FALSE
  MaxClock = 6
SPECIFICATION Spec
SYMMETRY Symmetry
INVARIANTS
  RefExact
  HeapOrdered
PROPERTIES
  WakesInTime
  ImplementsTimerSet
