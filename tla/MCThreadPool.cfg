CONSTANTS
  Producers = {p1, p2}
  Workers = {w1, w2}
  Tasks = {t1, t2, t3}
  Stuck = {t3}
  None = None
SPECIFICATION Spec
INVARIANTS TypeOK OneInstance PopNonEmpty NoLostWakeup EachTaskOnce
PROPERTIES Served TQSpec
CHECK_DEADLOCK FALSE
