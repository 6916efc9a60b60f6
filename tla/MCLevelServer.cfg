CONSTANTS
  Clients = {c1, c2, c3}
  NUM = 3
  nfds = 2
  Limits = {1, 2}
  MaxEvents = 2
  MaxWrites = 1
  None = None
SPECIFICATION Spec
INVARIANTS TypeOK NeverBlocks NoneForgotten
PROPERTIES AllRead
CHECK_DEADLOCK FALSE
