CONSTANTS
  Timers = {t1, t2}
  Containers = {sw}
  Timeouts = {1, 2}
  MaxStarts = 3
  MaxTime = 3
SPECIFICATION Spec
INVARIANT NeverEarly
CHECK_DEADLOCK FALSE
