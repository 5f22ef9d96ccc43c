\* Two variables, edits and patches in any order.
SPECIFICATION FairSpec
CONSTANTS
  Key = {k1, k2}
  Value = {a, b}
  Unset = unset
  NoEnv = noEnv
  MaxEdits = 2
  MaxPatches = 2
INVARIANTS
  IndependentKeysSurvive
  NeverRecreated
PROPERTIES
  EditorCatchesUp
CHECK_DEADLOCK FALSE
