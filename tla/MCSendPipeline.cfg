\* Two runs on one tab or on two, each cancelled, superseded or closed at any stage.
SPECIFICATION FairSpec
CONSTANTS
  Tab = {t1, t2}
  Run = {1, 2}
  NoRun = 0
  NoTab = noTab
  MaxFaults = 1
INVARIANTS
  TypeOK
  OnlyStoppedRunsGiveUp
  RequestUsesSavedPatch
PROPERTIES
  Implements
  SendsEnd
CHECK_DEADLOCK FALSE
