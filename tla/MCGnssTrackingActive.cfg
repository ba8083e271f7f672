CONSTANTS
  Clients = {"c1", "c2"}
  Sessions = {1, 2}
  ClientOf <- MCClientOf
  Options <- MCOptions
  MaxCommands = 3
  MaxFaults = 1
SPECIFICATION Spec
INVARIANT ActiveIsSmallest
CHECK_DEADLOCK FALSE
