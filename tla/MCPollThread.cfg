CONSTANTS
  Streams = {s1, s2}
  Clients = {c1, c2}
  MaxPipe = 1
SPECIFICATION PollFairSpec
INVARIANTS PollTypeOK SyncDelIsQuiet EveryWaiterHasASignal PollSetIsCurrent
PROPERTIES CallsReturn
CHECK_DEADLOCK FALSE
