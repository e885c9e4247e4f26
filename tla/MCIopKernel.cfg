SPECIFICATION Spec
CONSTANTS
  str = str
  server = server
  FileServers = {str, server}
  Loader = loader
  ISO = iso
  Nobody = nobody
  Rank <- MCRank
  MaxLoads = 2
  MaxReads = 2
  MaxDelays = 1
  MaxCalls = 2
INVARIANTS
  CommandsOutlived
  NoStaleDelay
  SleepersWillBeWoken
  IInv
PROPERTIES
  ImplementsChannel
