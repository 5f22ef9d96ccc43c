\* Three calls, a watch and close in any order, a worker that may die.
SPECIFICATION FairSpec
CONSTANTS
  Call = {a, b, c}
  Watch = {v}
  NoId = none
  MaxDeaths = 1
  MaxEvents = 1
INVARIANTS
  FirstComeFirstServed
  NobodyLeftBehind
PROPERTIES
  DisposedMeansQuiet
  EveryCallAnswered
CHECK_DEADLOCK FALSE
