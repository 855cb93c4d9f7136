CONSTANTS
  RegMod = 256
  BUFF_SIZE = 3
  Words <- MCWords
  NoKey <- MCNoKey
  BuffErr <- MCBuffErr
  Streams <- MCStreams
SPECIFICATION Spec
INVARIANTS TypeOK LookupCorrect WordsIntact
PROPERTIES Answers
CHECK_DEADLOCK FALSE
