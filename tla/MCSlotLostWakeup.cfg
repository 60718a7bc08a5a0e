SPECIFICATION FairSpec
CONSTANTS
  Events = {e1}
  Calls = {c1}
  Peers = {p1}
  Default = Default
  Foreign = Foreign
  None = None
  Detached = {}
PROPERTIES
  FiringCallReturns
CHECK_DEADLOCK FALSE
