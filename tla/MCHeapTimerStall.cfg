CONSTANTS
  Id = {f1, f2}
  Timeout = {4}
  Grain = 2
  Delay = {0, 4}
  Back = FALSE
  MaxClock = 6
SPECIFICATION Spec
PROPERTIES
  NeverOversleeps
