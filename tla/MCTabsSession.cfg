\* One session that restores two panels, everything the user can do to tabs.
SPECIFICATION SessionHistorySpec
CONSTANTS
  plain = plain
  edited = edited
  node = node
  unlinked = unlinked
  MaxTabs = 4
  MaxPanels = 3
  MaxSends = 1
  Configs <- TheConfigs
  Pristine = plain
  Nodes <- NoNodes
  NoNode = unlinked
  Sample = edited
  Sessions <- PlainSession
  ClosedMax = 2
  HistoryLimit = 1
  MaxName = 1
  MaxEvents = 3
  MaxFaults = 0
  MaxCrashes = 0
  EarlyInput = FALSE
INVARIANTS
  ActiveTabShown
  OpenOrClosedOnce
  DiskMatchesWhenQuiet
  SettledTabsSurvive
CHECK_DEADLOCK FALSE
