CONSTANTS
  p1 = p1
  p2 = p2
  Processes = {p1, p2}
  t1 = t1
  t2 = t2
  h1 = h1
  h2 = h2
  h3 = h3
  v1 = v1
  v2 = v2
  never = never
  none = none
  Threads = {t1, t2}
  Handles = {h1, h2, h3}
  Values = {v1, v2}
  TTLs = {1, 2}
  Never = never
  MaxSizes = {1, 2}
  None = none
  MaxLength = 2
  Floor = 2
  MaxTime = 3
  Cap = 4
  MaxRows = 4
SPECIFICATION StoresSpec
INVARIANTS
  StoresTypeOK
  PgListSettles
  PgHandedOutOnce
PROPERTIES
  StoresKeepContract
  PgQueueKeeps
CHECK_DEADLOCK FALSE
