CONSTANTS
  Worker = {w1, w2}
  Task = {t1, t2}
  Idle = Idle
SPECIFICATION Spec
PROPERTIES
  NoTakeAfterClose
CHECK_DEADLOCK FALSE
