SPECIFICATION RSpec
CONSTANTS
  a = a
  b = b
  c = c
  m1 = m1
  Nodes <- ChainNodes
  Deps <- ChainDeps
  Dags <- MCDags
  DagOf <- ChainDagOf
  Handled = {a, b}
  External = {b}
  Background = {m1}
  MidWave = TRUE
  DbMayFail = TRUE
  Commands = {"CANCELLED", "PAUSED", "RUNNING"}
  MaxRetries = 2
  MaxConcurrency = 2
  MaxReruns = 0
  MaxCrashes = 2
  MaxRepairing = 1
INVARIANTS
  CaughtIsReconciled
PROPERTIES
  DurableWorkKept
  DurableProgress
  CancelSticks
  
CHECK_DEADLOCK FALSE
