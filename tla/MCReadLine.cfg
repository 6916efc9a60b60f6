CONSTANTS
  MaxLen = 6
  Streams <- MCStreams
SPECIFICATION Spec
INVARIANTS TypeOK LinesMatch BodyUntouched
PROPERTIES HeadCompletes
CHECK_DEADLOCK FALSE
