\* Sends whose answers come back in any order, on a tab linked to a node, with
\* one failing storage command.
SPECIFICATION SessionSpec
CONSTANTS
  plain = plain
  edited = edited
  node = node
  unlinked = unlinked
  MaxTabs = 2
  MaxPanels = 1
  MaxSends = 2
  Configs <- TheConfigs
  Pristine = plain
  Nodes <- OneNode
  NoNode = unlinked
  Sample = edited
  Sessions <- LinkedTab
  ClosedMax = 1
  HistoryLimit = 2
  MaxName = 0
  MaxEvents = 4
  MaxFaults = 1
  MaxCrashes = 0
  EarlyInput = FALSE
INVARIANTS
  HistoryNewestFirst
  SendingHasOwner
  StaleTabIsTracked
PROPERTIES
  AnswersOnlyWhileSending
  ReopenRestores
CHECK_DEADLOCK FALSE
