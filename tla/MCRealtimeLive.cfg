\* What is shown follows the connections.
SPECIFICATION FairSpec
CONSTANTS
  Tabs = {t1, t2}
  Cap = 1
  MaxConns = 2
  MaxFrames = 1
  MaxEvents = 3
  Reopening = TRUE
  LateBatches = TRUE
PROPERTIES
  GhostsVanish
CHECK_DEADLOCK FALSE
