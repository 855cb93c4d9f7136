CONSTANTS
  HeaderSize = 1
  MinCapacity = 2
  PageSize = 4
  RegionMinSize = 8
  WordMod = 64
  AddrLimit = 32
  HEAP_START = 8
  InitialSizes <- MCInitialSizes
  Queries <- MCQueries
  ForeignPages <- MCForeign
SPECIFICATION Spec
PROPERTIES GrowthSparesForeign
CHECK_DEADLOCK FALSE
