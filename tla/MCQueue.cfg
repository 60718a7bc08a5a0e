SPECIFICATION FairSpec
CONSTANTS
  Putters = {p1}
  Getters = {g1, g2}
  Closers = {x1}
  Items = {i1, i2, i3}
  MaxSize = 2
  None = None
INVARIANTS
  CloseFreesGetters
  WakeupsSuffice
PROPERTIES
  FifoSpec
  CallsEnd
CHECK_DEADLOCK FALSE
