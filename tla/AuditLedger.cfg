SPECIFICATION AuditSpec
CONSTANTS
  w1 = w1
  w2 = w2
  w3 = w3
  shared = shared
  other = other
  Writers <- MCWriters
  InstanceOf <- TwoLedgers
  MaxEvents = 6
INVARIANTS
  OwnRowsChained
CHECK_DEADLOCK FALSE
