SPECIFICATION Spec
CONSTANTS
  Streams = {"meta", "snap"}
  Meta = "meta"
  Attrs <- MCAttrs
  Metadata <- MCMetadata
  Requests <- MCRequests
  Own = {"snap"}
  FutureWait = 3
  MaxFrame = 4
  MaxEvents = 3
CHECK_DEADLOCK FALSE
INVARIANTS TypeOK MatchedFirst RoomIsMade BuffersAccounted
PROPERTY SentInOrder
