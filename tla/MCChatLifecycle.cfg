CONSTANTS
  c1 = c1
  c2 = c2
  c3 = c3
  a1 = a1
  a2 = a2
  Callers = {c1, c2, c3}
  Adapters = {a1, a2}
  Fragile = {a1}
  StateFails = TRUE
  MaxShutdowns = 1
SPECIFICATION FairSpec
INVARIANTS
  TypeOK
  OneInitialization
PROPERTIES
  ReadyWhenHandled
  ShutdownReachesAll
  CallsEnd
CHECK_DEADLOCK FALSE
