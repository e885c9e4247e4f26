CONSTANTS
  a = a
  b = b
  lost = lost
  NoLevel = NoLevel
  NoSlot = NoSlot
  Levels = {a, b}
  Missing = {lost}
  NumObjs <- NumObjsValue
  Work <- WorkValue
  Tex <- TexValue
  LoginWork = 1
  Wanted <- Pairs
  Shown = {a, b}
  OneAtATime = TRUE
SPECIFICATION Spec
INVARIANT
  InactiveIsEmpty
