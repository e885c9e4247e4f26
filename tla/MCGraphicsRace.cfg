SPECIFICATION Spec
CONSTANTS
  v1 = v1
  v2 = v2
  Levels <- MCTwoLevels
  NoLevel = NoLevel
  MaxLevels = 2
  MaxWanted = 1
  Patience = 0
CHECK_DEADLOCK FALSE
INVARIANTS
  MapsGuarded
