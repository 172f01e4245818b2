CONSTANTS
  d1 = d1
  d2 = d2
  d3 = d3
  m1 = m1
  m2 = m2
  t1 = t1
  c1 = c1
  p1 = p1
  p2 = p2
  Deliveries = {d1, d2, d3}
  Messages = {m1, m2}
  Threads = {t1}
  Channels = {c1}
  Processes = {p1, p2}
  MessageOf <- MCMessageOf
  ProcessOf <- LiveProcessOf
  ThreadOf <- MCThreadOf
  ChannelOf <- MCChannelOf
  ScopeOf <- LiveScopeOf
  FromSelf = {}
  Mentions = {m1}
  DirectThreads = {}
  StrategyOf <- LiveStrategyOf
  Resolutions = {"drop", "force"}
  PersistHistory = FALSE
  HandlersOf <- LiveHandlersOf
  LockTTL = 1
  DedupeTTL = 1
SPECIFICATION FairSpec
PROPERTIES
  LocksAreFreed
  DeliveriesEnd
CHECK_DEADLOCK FALSE
