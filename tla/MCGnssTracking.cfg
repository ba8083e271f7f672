CONSTANTS
  Clients = {"c1", "c2"}
  Sessions = {1, 2}
  ClientOf <- MCClientOf
  Options <- MCOptions
  MaxCommands = 4
  MaxFaults = 1
SPECIFICATION Spec
INVARIANTS TypeOK AnsweredOnce EngineServesSessions TrackedOneWay
CHECK_DEADLOCK FALSE
