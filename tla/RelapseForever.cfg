SPECIFICATION Spec
CONSTANTS
  n1 = n1
  Nodes = {n1}
  MaxRetries = 2
  MaxCount = 6
PROPERTIES
  EveryNodeSettles
CHECK_DEADLOCK FALSE
