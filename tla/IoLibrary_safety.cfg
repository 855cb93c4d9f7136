CONSTANTS
  RegMod = 512
  Texts <- MCTexts
  BufferSizes = {0, 2, 4}
SPECIFICATION Spec
INVARIANTS TypeOK ParsesPrefix RoundTrip Canonical CopiesWhole
CHECK_DEADLOCK FALSE
