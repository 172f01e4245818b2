CONSTANTS
  t1 = t1
  t2 = t2
  h1 = h1
  h2 = h2
  h3 = h3
  v1 = v1
  v2 = v2
  never = never
  none = none
  Threads = {t1, t2}
  Handles = {h1, h2, h3}
  Values = {v1, v2}
  TTLs = {1, 2, 3}
  Never = never
  MaxSizes = {1, 2}
  None = none
  MaxTime = 5
  Cap = 4
SPECIFICATION MCSpec
INVARIANTS
  TypeOK
PROPERTIES
  KeepsContract
CHECK_DEADLOCK FALSE
