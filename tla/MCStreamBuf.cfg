CONSTANTS
  Bufs = {b1, b2}
  InitialRegs = {b1}
  HasCb = TRUE
  Bundled = TRUE
  MayLink = TRUE
  QbufFails = TRUE
  CacheFails = TRUE
  Quiet = TRUE
SPECIFICATION FairSpec
INVARIANTS TypeOK RefcntIsOwed PolledWhileQueued
PROPERTIES DriverIsFed
