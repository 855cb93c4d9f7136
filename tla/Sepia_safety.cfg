CONSTANTS
  WordMod = 128
  FieldMod = 16
  MinStart = 4
  TestsNum = 2
  Argvs <- MCArgvs
  Inputs <- MCInputs
  Junk <- MCJunk
  Durations = {3, 5}
SPECIFICATION Spec
INVARIANTS TypeOK EveryPixelFiltered SseLikeC OutputIsPicture ImagesFreed StatsOfRuns
CHECK_DEADLOCK FALSE
