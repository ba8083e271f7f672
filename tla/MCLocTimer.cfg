CONSTANTS
  Timers = {t1, t2}
  Containers = {sw}
  Timeouts = {1, 2}
  MaxStarts = 3
  MaxTime = 3
SPECIFICATION Spec
INVARIANTS ArmedForSoonest DeletedIsForgotten
PROPERTIES EveryTimerEnds
CHECK_DEADLOCK FALSE
