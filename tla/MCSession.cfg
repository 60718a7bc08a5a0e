SPECIFICATION SessionFairSpec
CONSTANTS
  MaxEvents = 3
  Callers = {c1, c2}
  Nobody = Nobody
  MaxLaunches = 2
  MaxCloses = 2
INVARIANTS
  PongMeansExit
  EventsInOrder
  OneClient
  ClosedQuietly
PROPERTIES
  CloseEndsServer
CHECK_DEADLOCK FALSE
