\* Two calls in the slots, two in the queue.
SPECIFICATION FairSpec
CONSTANTS
  Call = {c1, c2, c3, c4}
INVARIANTS
  ControlsOutliveTheirUsers
  NobodyWaitsForAFreeSlot
  StatusTellsWhy
  CloseDrains
PROPERTIES
  EveryCallReturns
CHECK_DEADLOCK FALSE
