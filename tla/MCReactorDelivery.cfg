SPECIFICATION FairSpec
CONSTANTS
  Items = {e1, e2, e3}
  None = None
  Pong = Pong
  MaxPings = 0
  ClientLeaves = TRUE
PROPERTIES
  DeliverySpec
  EventSettles
CHECK_DEADLOCK FALSE
