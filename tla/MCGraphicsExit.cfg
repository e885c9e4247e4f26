SPECIFICATION Spec
CONSTANTS
  v1 = v1
  v2 = v2
  Levels <- MCTwoLevels
  NoLevel = NoLevel
  MaxLevels = 2
  MaxWanted = 0
  Patience = 0
CHECK_DEADLOCK FALSE
PROPERTIES
  ExitEnds
