SPECIFICATION FairSpec
CONSTANTS
  Putters = {p1, p2}
  Getters = {g1}
  Closers = {x1}
  Items = {i1, i2, i3}
  MaxSize = 1
  None = None
PROPERTIES
  PutGoesOn
CHECK_DEADLOCK FALSE
