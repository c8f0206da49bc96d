SPECIFICATION Spec
CONSTANTS
  kernel = kernel
  resources = resources
  main = main
  other = other
  Callers = {kernel, resources}
  Processes = {main, other}
  Deployments <- MCDeployments
  Costs = {2}
  Rationales = {1}
  MaxSessionBudget = 3
  MaxBlocks = 3
  MaxRotations = 1
  MaxCrashes = 1
INVARIANTS
  BudgetChained
  WithinBudget
  LedgerChained
  
  
  OverspendBounded
  BrokenChainStops
PROPERTIES
  CallsReturn
CHECK_DEADLOCK FALSE
