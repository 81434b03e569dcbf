SPECIFICATION Spec
CONSTANTS
  LARGEST = 3
  READ_SIZE = 4
  BUFFER_SIZE = 6
  Requests <- SizedRequests
  MaxSent = 2
PROPERTIES CompleteMessageIsHandled
CHECK_DEADLOCK FALSE
