CONSTANTS
  Count = 3
  N = 3
  None = None
SPECIFICATION Spec
PROPERTIES MainReturns
CHECK_DEADLOCK FALSE
