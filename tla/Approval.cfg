SPECIFICATION Spec
CONSTANTS
  p1 = p1
  p2 = p2
  p3 = p3
  a1 = a1
  nobody = nobody
  Callers = {p1, p2, p3}
  Approvals = {a1}
  NoCaller = nobody
  MaxFailures = 1
  MaxCrashes = 1
SYMMETRY Symmetry
INVARIANTS
  OneWinner
  ConsumedOnce
  RunsOnlyApproved
  TaskRunsOnlyClaimed
PROPERTIES
  DecisionIsFinal
CHECK_DEADLOCK FALSE
