CONSTANTS
  f1 = f1
  f4 = f4
  NoFile = NoFile
  Disc = {f1, f4}
  NotFound = {lost}
  Heaps = {h1, h2}
  Size <- SizeValue
  HeaderSize = 2
  PageSize = 5
SPECIFICATION Spec
INVARIANTS
  IInv
  LinksIntactObject
  LastObjectAtHeapTop
  ChannelQuietBetweenCalls
PROPERTIES
  NoLateWrites
  ImplementsPipeline
  EveryCallAnswered
