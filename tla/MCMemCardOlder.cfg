SPECIFICATION Spec
CONSTANTS
  f1 = f1
  f2 = f2
  Files <- MCOneFile
  Leftovers <- MCKilled
  MaxSaves = 5
  MaxCrashes = 1
  MaxErrors = 0
  CountLimit = 8
INVARIANT LoadedNotOlder
