SPECIFICATION Spec
CONSTANTS
  s1 = s1
  s2 = s2
  s3 = s3
  v1 = v1
  v3 = v3
  bad = bad
  Singles = {s1, s2, s3}
  DGO = dgo
  VAG = vag_cmd
  LOADER = loader
  NoCmd = nocmd
  NoVag = novag
  Vags = {v1, v3, bad}
  BadVags = {bad}
  Pages <- MCPages
  StackLength = 2
  VagMask = 32
  VagCmds = 64
  MaxLoads = 3
  Orders <- MCOrders
  MaxVag = 2
  MaxMail = 1
INVARIANTS
  BuffersConserved
  PoolNeverEmpty
  PagesInOrder
  StreamConsistent
  StreamNotOverread
  VagPoolConserved
  IInv
PROPERTIES
  LoadsReturn
