CONSTANTS
  Clients <- MCClients
  Entries <- MCEntries
  Missing = Missing
  MaxChanges = 1
  MaxOutput = 3
  SendBuf = 2
  MaxInt = 4
  MaxOff = 14
  SendMax = 3
  SizeT = 8
  None = None
SPECIFICATION MCSpec
INVARIANTS TypeOK WholeRequest BodyAsAnnounced StatusIsTrue SendStaysInBody
PROPERTIES Completes
CHECK_DEADLOCK FALSE
