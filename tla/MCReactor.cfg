CONSTANTS
  c1 = c1
  c2 = c2
  Clients = {c1, c2}
  Script <- TwoAndOne
  Chunk = 2
  Zeros <- Text
  TxCap = 1
  RecvMax = 2
  MaxConns = 2
  MaxEvents = 2
  None = None
SPECIFICATION Spec
INVARIANTS TypeOK AnswersInOrder NothingMisread NoLostEdge EventForOwner
PROPERTIES Served CalcSpec
CHECK_DEADLOCK FALSE
