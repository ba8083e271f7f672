CONSTANTS
  MaxFrame = 2
  Streams = {"yuv", "jpeg"}
  Blob = "jpeg"
  Requests <- MCRequests
  MaxUpsets = 1
  MinInFlight = 2
  MaxInFlight = 3
SPECIFICATION Spec
INVARIANTS CachedResultIsSent
CHECK_DEADLOCK FALSE
