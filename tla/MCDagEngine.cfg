SPECIFICATION Spec
CONSTANTS
  a = a
  b = b
  c = c
  e = e
  x = x
  y = y
  z = z
  d1 = d1
  d2 = d2
  Nodes <- MCNodes
  Deps <- MCDeps
  Dags <- MCDags
  DagOf <- MCDagOf
  Handled <- MCHandled
  MaxRetries = 1
  MaxConcurrency = 2
  MaxReruns = 1
INVARIANTS
  DependencyOrder
  CheckpointConsistent
  VerdictSound
  SkipsFollowFailures
  RetryBudget
PROPERTIES
  ExecutionEnds
  ImplementsContract
CHECK_DEADLOCK FALSE
