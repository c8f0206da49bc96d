CONSTANTS
  a = a
  b = b
  c = c
  t1 = t1
  t2 = t2
  Paths = {a, b, c}
  Protected = {c}
  Python = {a, c}
  Shadow <- MCShadow
  Tests = {t1, t2}
  Key <- MCKey
  MaxPatches = 2
  MaxAttempts = 1
  Threshold = 1
  Timeout = 1
  MaxWrites = 3
SPECIFICATION Spec
INVARIANTS
  ValidatedSound
  EvidenceComplete
  Recoverable
PROPERTY
  TaskEnds
CHECK_DEADLOCK FALSE
