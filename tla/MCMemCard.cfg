SPECIFICATION Spec
CONSTANTS
  f1 = f1
  f2 = f2
  Files <- MCTwoFiles
  Leftovers <- MCKilled
  MaxSaves = 5
  MaxCrashes = 2
  MaxErrors = 1
  CountLimit = 4
INVARIANTS
  PreviewMatchesLoad
  NewestLoaded
PROPERTY RequestEnds
