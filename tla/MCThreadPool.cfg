CONSTANTS
  Worker = {w1, w2, w3}
  Task = {t1, t2, t3, t4}
  Idle = Idle
SPECIFICATION Spec
INVARIANTS
  ExactlyOnce
  WorkConserving
  ExitOnlyDrained
PROPERTIES
  EveryTaskRuns
  PoolStops
  ImplementsTaskPool
CHECK_DEADLOCK FALSE
