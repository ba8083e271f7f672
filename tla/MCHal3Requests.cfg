CONSTANTS
  MaxFrame = 3
  Streams = {"yuv", "jpeg"}
  Blob = "jpeg"
  Requests <- MCRequests
  MaxUpsets = 1
  MinInFlight = 2
  MaxInFlight = 3
SPECIFICATION Spec
INVARIANTS TypeOK BooksAgree NoIdleWait FlushAnswersPending
PROPERTIES KeepsContract
CHECK_DEADLOCK FALSE
