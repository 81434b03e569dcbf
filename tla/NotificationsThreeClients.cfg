SPECIFICATION NSpec
CONSTANTS
  NULL = NULL
  Conns = {c1, c2, c3}
  Streams = {s1}
  Calls = {k1}
  MAX_INPUT = 2
  MAX_OUTPUT = 2
  MAX_CONNECTION_CALLS = 2
  STREAM_MAX_RECIPIENTS = 3
  MAX_CALL_PARTICIPANTS = 2
  MAX_CALL_STREAMS = 2
SYMMETRY Symmetry
INVARIANTS IInv NothingLeftBehind ViewerAndServerAgree OwnerKnowsOfViewers
  ParticipantKnowsStreams PacketReachesViewers
PROPERTIES DeletionIsTold
