CONSTANTS
  c1 = c1
  c2 = c2
  Clients = {c1, c2}
  Window <- OneAndTwo
  Requests = 3
  MaxFds = 2
  None = None
SPECIFICATION Spec
INVARIANTS AnswersMatch
PROPERTIES Answered CalcSpec
CHECK_DEADLOCK FALSE
