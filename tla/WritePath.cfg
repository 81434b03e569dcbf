SPECIFICATION FairSpec
CONSTANTS
  Bytes = {1, 2, 3, 4, 5, 6}
  Answers <- SomeAnswers
  BUFFER_SIZE = 3
  SOCKET = 2
  MaxSaid = 7
INVARIANTS WriteInv TornOnlyAtTheEnd
PROPERTIES AnswersInOrder AnswersArrive
CHECK_DEADLOCK FALSE
