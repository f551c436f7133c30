CONSTANTS
  Streams <- MCStreams
  BUFFER_SIZE = 12
SPECIFICATION Spec
INVARIANTS RequestLineIsPattern AnswerIsVerdict
CHECK_DEADLOCK FALSE
