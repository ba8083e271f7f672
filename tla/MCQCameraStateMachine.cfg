SPECIFICATION FairSpec
CONSTANTS
  Configs <- MCConfigs
  MaxOps = 4
INVARIANTS
  TypeOK
  NobodyForgotten
  NoStrayAnswer
  CaptureHasState
  WantedMessages
PROPERTIES
  CallsReturn
CHECK_DEADLOCK FALSE
