SPECIFICATION Spec
CONSTANTS
  t1 = t1
  t2 = t2
  c1 = c1
  c2 = c2
  c3 = c3
  Threads = {t1, t2}
  Chunks = {c1, c2, c3}
  NIL = NIL
  JUNK = JUNK
  NFASTBINS = 2
  fastbin_index <- SizeClasses
  MaxFasts = {1, 2}
  TcacheCount = 1
  SystemMem = 4
  TopSize = 3
INVARIANT ChunksAccounted
INVARIANT NoFalseAbort
PROPERTY MutexReleased
