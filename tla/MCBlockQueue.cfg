CONSTANTS
  Producers = {p1, p2, p3}
  Consumers = {c1, c2}
  Values = {v1, v2}
  Cap = 2
  None = None
SPECIFICATION Spec
PROPERTIES BBSpec
