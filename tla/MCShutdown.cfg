CONSTANTS
  c1 = c1
  c2 = c2
  c3 = c3
  a1 = a1
  a2 = a2
  Callers = {c1}
  Adapters = {a1, a2}
  Fragile = {}
  StateFails = FALSE
  MaxShutdowns = 1
SPECIFICATION Spec
INVARIANTS
  StaysDown
CHECK_DEADLOCK FALSE
