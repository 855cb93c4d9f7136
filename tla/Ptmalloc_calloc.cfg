SPECIFICATION Spec
CONSTANTS
  SIZE_SZ = 8
  MALLOC_ALIGNMENT = 16
  PTRDIFF_MAX = 1073741824
  Pagesize = 4096
  BrkStart = 8200
  HeapEnd = 262144
  MmapStart = 1228800
  MmapEnd = 2428928
  MMAP_AS_MORECORE_SIZE = 1048576
  DEFAULT_MMAP_THRESHOLD = 131072
  DEFAULT_MMAP_THRESHOLD_MAX = 33554432
  DEFAULT_TRIM_THRESHOLD = 131072
  DEFAULT_TOP_PAD = 0
  FASTBIN_CONSOLIDATION_THRESHOLD = 65536
  DEFAULT_MMAP_MAX = 65536
  HEAP_MAX_SIZE = 67108864
  TcacheStruct = 640
  TcacheBins = 64
  TcacheCount = 1
  TcacheUnsortedLimit = 1
  MAX_ITERS = 2
  Programs <- CallocPrograms
INVARIANT CallocClears
