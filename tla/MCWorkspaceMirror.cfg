\* Two edits; the import at the start and two operations or reloads, which may
\* overlap; two faults.
SPECIFICATION FairSpec
CONSTANTS
  NoForest = none
  MaxEdits = 2
  MaxOps = 2
  MaxFaults = 2
INVARIANTS
  GitOwnsTheTree
  MirrorsItsOwnTree
  GitSeesFlushedEdits
  LocalOnlySurvives
PROPERTY MirroringComesBack
CHECK_DEADLOCK FALSE
