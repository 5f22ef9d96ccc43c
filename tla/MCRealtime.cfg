\* Connections that overtake each other while sockets close.
SPECIFICATION Spec
CONSTANTS
  Tabs = {t1, t2}
  Cap = 2
  MaxConns = 3
  MaxFrames = 0
  MaxEvents = 5
  Reopening = FALSE
  LateBatches = TRUE
INVARIANTS
  NoLeak
  NothingLost
  LiveIsShown
  ReportedTabsForgotten
SYMMETRY Symmetry
CHECK_DEADLOCK FALSE
