SPECIFICATION Spec
CONSTANTS
  Workers = {w1, w2}
  Tasks = {t1}
  Nobody = nobody
  TTLs = {1, 3}
  MaxClock = 6
INVARIANTS
  Exclusive
PROPERTIES
  NotTakenOver
CHECK_DEADLOCK FALSE
