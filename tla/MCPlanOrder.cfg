CONSTANTS
  c1 = c1
  c2 = c2
  c3 = c3
  Callers = {c1, c2, c3}
  MaxPosts = 1
  Updates = {}
  Native = FALSE
SPECIFICATION Spec
PROPERTIES
  EditsInOrder
CHECK_DEADLOCK FALSE
