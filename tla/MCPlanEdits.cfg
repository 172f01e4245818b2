CONSTANTS
  c1 = c1
  c2 = c2
  c3 = c3
  Callers = {c1, c2, c3}
  MaxPosts = 1
  Updates = {"in_progress"}
  Native = TRUE
SPECIFICATION FairSpec
INVARIANTS
  TypeOK
  OneInProgress
  SettledShowsAll
PROPERTIES
  OneEditAtATime
  CallersReturn
CHECK_DEADLOCK FALSE
