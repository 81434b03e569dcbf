SPECIFICATION Spec
CONSTANTS
  NULL = NULL
  Conns = {c1, c2}
  Streams = {s1, s2}
  Calls = {k1}
  MAX_INPUT = 2
  MAX_OUTPUT = 2
  MAX_CONNECTION_CALLS = 2
  STREAM_MAX_RECIPIENTS = 2
  MAX_CALL_PARTICIPANTS = 2
  MAX_CALL_STREAMS = 2
PROPERTIES CloseDeletesOnlyOwnStreams
