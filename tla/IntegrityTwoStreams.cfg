SPECIFICATION IntegritySpec
CONSTANTS
  NULL = NULL
  Conns = {c1, c2}
  Streams = {s1, s2}
  Calls = {k1}
  MAX_INPUT = 2
  MAX_OUTPUT = 2
  MAX_CONNECTION_CALLS = 2
  STREAM_MAX_RECIPIENTS = 1
  MAX_CALL_PARTICIPANTS = 2
  MAX_CALL_STREAMS = 2
VIEW ButForReply
SYMMETRY Symmetry
INVARIANTS WatchingMutual OwnershipMutual CleanIsDefined CleanPasses
PROPERTIES SessionsKept CleanStreamsStay OnlySecondsSpoil
