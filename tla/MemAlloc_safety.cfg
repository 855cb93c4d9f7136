CONSTANTS
  HeaderSize = 1
  MinCapacity = 2
  PageSize = 4
  RegionMinSize = 8
  WordMod = 64
  AddrLimit = 28
  HEAP_START = 8
  InitialSizes <- MCInitialSizes
  Queries <- MCQueries
  ForeignPages <- MCForeign
SPECIFICATION Spec
INVARIANTS TypeOK NoOverlap Coverage NoTinyBlock ListIntegrity ScannedBlocksUnfit GrowthServes
PROPERTIES TakenStable ImplementsContract CallReturns
CHECK_DEADLOCK FALSE
