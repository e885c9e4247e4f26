SPECIFICATION Spec
CONSTANTS
  f1 = f1
  f2 = f2
  Files <- MCTwoFiles
  Leftovers <- MCCrashed
  MaxSaves = 5
  MaxCrashes = 2
  MaxErrors = 1
  CountLimit = 4
INVARIANT SomeSaveSurvives
PROPERTY ImplementsStore
