CONSTANTS
  RegMod = 256
  BUFF_SIZE = 3
  Words <- MCWords
  NoKey <- MCNoKey
  BuffErr <- MCBuffErr
  Streams <- MCStreams
SPECIFICATION Spec
INVARIANTS StaysInBuffer
CHECK_DEADLOCK FALSE
