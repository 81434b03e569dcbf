SPECIFICATION Spec
CONSTANTS
  Bytes = {1, 2, 3, 4, 5, 6}
  Answers <- SomeAnswers
  BUFFER_SIZE = 3
  SOCKET = 2
  MaxSaid = 7
INVARIANT WrittenIsBeginningOfSaid
CHECK_DEADLOCK FALSE
