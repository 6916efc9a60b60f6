CONSTANTS
  Producers = {p1, p2}
  Consumers = {c1, c2, c3}
  Values = {v1, v2}
  Cap = 2
  None = None
SPECIFICATION Spec
INVARIANTS TypeOK NoTornTask
PROPERTIES BBSpec
