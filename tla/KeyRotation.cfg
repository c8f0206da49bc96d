SPECIFICATION Spec
CONSTANTS
  c1 = c1
  c2 = c2
  Calls <- MCCalls
  N = 3
  Ttl = 2
INVARIANTS
  RoundRobin
PROPERTIES
  QuietKeyStaysBlocked
  CallsEnd
