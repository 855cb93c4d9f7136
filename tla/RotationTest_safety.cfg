CONSTANTS
  WordMod = 128
  FieldMod = 128
  CMP_BUFFER_SIZE = 4
  Inputs <- MCInputs
  Expected <- MCExpected
SPECIFICATION TestSpec
INVARIANTS TestTypeOK ExitZeroRotates RowsInBounds HandedOverIsFreed VerdictExact TestDecides
CHECK_DEADLOCK FALSE
