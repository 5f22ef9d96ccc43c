\* The user quits, or does not, and the worker answers.
SPECIFICATION FairProcessSpec
CONSTANTS
  plain = plain
  edited = edited
  node = node
  unlinked = unlinked
  MaxTabs = 3
  MaxPanels = 3
  MaxSends = 1
  Configs <- TheConfigs
  Pristine = plain
  Nodes <- NoNodes
  NoNode = unlinked
  Sample = edited
  Sessions <- OneTab
  ClosedMax = 1
  HistoryLimit = 1
  MaxName = 0
  MaxEvents = 3
  MaxFaults = 0
  MaxCrashes = 0
  EarlyInput = FALSE
INVARIANTS
  ExitSavesEdits
PROPERTIES
  EditsReachDisk
CHECK_DEADLOCK FALSE
