\* First runs, stored and legacy sessions, with a crash, a failing storage
\* command and input while the session is being loaded.
SPECIFICATION Spec
CONSTANTS
  plain = plain
  edited = edited
  node = node
  unlinked = unlinked
  MaxTabs = 3
  MaxPanels = 3
  MaxSends = 0
  Configs <- TheConfigs
  Pristine = plain
  Nodes <- NoNodes
  NoNode = unlinked
  Sample = edited
  Sessions <- AllSessions
  ClosedMax = 1
  HistoryLimit = 0
  MaxName = 1
  MaxEvents = 2
  MaxFaults = 1
  MaxCrashes = 1
  EarlyInput = TRUE
INVARIANTS
  TypeOK
  PanelsSound
CHECK_DEADLOCK FALSE
