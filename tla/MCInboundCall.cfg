SPECIFICATION FairSpec
CONSTANTS
  Calls = {c1, c2, c3}
  None = None
  Throws = {c3}
INVARIANTS
  StartedFinishesOnce
  CancelledHasNoEffect
PROPERTIES
  CallEnds
CHECK_DEADLOCK FALSE
