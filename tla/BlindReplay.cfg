SPECIFICATION RSpec
CONSTANTS
  a = a
  b = b
  c = c
  m1 = m1
  Nodes <- ForkNodes
  Deps <- ForkDeps
  Dags <- MCDags
  DagOf <- ForkDagOf
  Handled = {a, b, c}
  External = {b}
  Background = {}
  MidWave = FALSE
  DbMayFail = FALSE
  Commands = {}
  MaxRetries = 1
  MaxConcurrency = 2
  MaxReruns = 0
  MaxCrashes = 2
  MaxRepairing = 0
INVARIANTS
  NoBlindReplay
CHECK_DEADLOCK FALSE
