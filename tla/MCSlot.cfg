SPECIFICATION FairSpec
CONSTANTS
  Events = {e1, e2}
  Calls = {c1, c2}
  Peers = {p1, p2}
  Default = Default
  Foreign = Foreign
  None = None
  Detached = {p2}
INVARIANTS
  NoOrphanedCall
PROPERTIES
  PromiseSpec
  SlotReturnsOrIsStuck
  CallAnsweredOrStuck
CHECK_DEADLOCK FALSE
