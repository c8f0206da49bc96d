SPECIFICATION Spec
CONSTANTS
  a = a
  b = b
  c = c
  Missions = {a, b, c}
  WorkerCount = 2
  Terms <- MCTerms
  Approval = {c}
  Keys <- MCKeys
  Costs <- MCCosts
  Budget = 1
  MaxRecoveries = 1
  MaxReplans = 1
  MaxCalls = 3
  MaxTime = 1
INVARIANTS
  Exclusive
  BudgetRespected
  SearchExact
