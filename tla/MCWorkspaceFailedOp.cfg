\* An operation fails while the user edits.
SPECIFICATION Spec
CONSTANTS
  NoForest = none
  MaxEdits = 2
  MaxOps = 2
  MaxFaults = 1
INVARIANT GitSeesEveryEdit
CHECK_DEADLOCK FALSE
