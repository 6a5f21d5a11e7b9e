CONSTANTS
  Id = {f1, f2, f3}
  Timeout = {4}
  Grain = 2
  Delay = {0}
  Back = TRUE
  MaxClock = 6
SPECIFICATION Spec
INVARIANTS
  HeapOrdered
