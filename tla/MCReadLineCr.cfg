CONSTANTS
  MaxLen = 5
  Streams <- MCLoneCr
SPECIFICATION Spec
PROPERTIES LoneCrEndsLine
CHECK_DEADLOCK FALSE
