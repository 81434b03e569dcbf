SPECIFICATION FairSpec
CONSTANTS
  LARGEST = 3
  READ_SIZE = 4
  BUFFER_SIZE = 6
  Requests <- SomeRequests
  MaxSent = 3
INVARIANTS FramingInv RoomForNextRead HandledAsSent WholeUntilDropped PacedIsAwaited
PROPERTIES RequestsInOrder RequestsArrive PacedCloseIsNoticed
CHECK_DEADLOCK FALSE
