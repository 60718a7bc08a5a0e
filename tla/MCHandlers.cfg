SPECIFICATION FairSpec
CONSTANTS
  Threads = {t1, t2}
  Loop = Loop
  Handlers = {h1, h2}
  None = None
  MaxEvents = 2
  MaxFailures = 2
  MaxHandlers = 3
INVARIANTS
  ServerKnowsHandlers
  CountFollowsList
PROPERTIES
  DueHandlersRun
  
  
CHECK_DEADLOCK FALSE
