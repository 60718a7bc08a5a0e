SPECIFICATION Spec
CONSTANTS
  Items = {e1, e2, e3}
  None = None
  Pong = Pong
  MaxPings = 1
  ClientLeaves = TRUE
SYMMETRY Symmetry
INVARIANTS
  WriteExclusion
  FaultNeedsDeparture
  LockCycleOnPending
CHECK_DEADLOCK FALSE
