SPECIFICATION FairSpec
CONSTANTS
  Tasks = {t1, loop}
  Loop = loop
  Objects = {o1, o2}
  Ax = Ax
  Clsids = {Ax}
  ClassOf <- MCClassOf
  None = None
  MaxControls = 2
  MaxEvents = 1
  MaxFailures = 1
INVARIANTS
  RaisingControlLives
  ControlHasOwner
  DeadIdIsTemporary
  EventFindsItsObject
PROPERTIES
  CallReturns
CHECK_DEADLOCK FALSE
