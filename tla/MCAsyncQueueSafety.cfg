SPECIFICATION Spec
CONSTANTS
  Putters = {p1, p2, p3}
  Getters = {g1, g2}
  Closers = {x1}
  Items = {i1, i2, i3, i4}
  MaxSize = 2
  None = None
SYMMETRY Symmetry
INVARIANTS
  WakeupsSuffice
  OnlyLeftAsleep
PROPERTIES
  FifoSpec
CHECK_DEADLOCK FALSE
