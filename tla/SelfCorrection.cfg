SPECIFICATION Spec
CONSTANTS
  n1 = n1
  n2 = n2
  n3 = n3
  Nodes = {n1, n2, n3}
  MaxRetries = 2
  MaxCount = 6
INVARIANTS
  WorkBounded
PROPERTIES
  SettlesUnlessRelapsing
CHECK_DEADLOCK FALSE
