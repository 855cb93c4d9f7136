---------------------------- MODULE MallocSizes ----------------------------
(***************************************************************************)
(* The arithmetic of docs/malloc-impl.c: how a request becomes the size of *)
(* a chunk, and which fast bin, thread cache bin or bin a size belongs to. *)
(* Shifts are divisions, masks are remainders.                             *)
(***************************************************************************)
EXTENDS Integers

CONSTANTS
  SIZE_SZ,           \* bytes of a size_t
  MALLOC_ALIGNMENT,  \* of every chunk and its size
  PTRDIFF_MAX        \* no request is larger

ASSUME SizesAssumption ==
  /\ SIZE_SZ \in {4, 8}
  /\ MALLOC_ALIGNMENT \in {8, 16}
  /\ MALLOC_ALIGNMENT >= 2 * SIZE_SZ
  /\ PTRDIFF_MAX \in Nat

MALLOC_ALIGN_MASK == MALLOC_ALIGNMENT - 1
CHUNK_HDR_SZ == 2 * SIZE_SZ

ALIGN_DOWN(x, n) == x - (x % n)
ALIGN_UP(x, n) == ALIGN_DOWN(x + n - 1, n)
aligned_OK(x) == x % MALLOC_ALIGNMENT = 0

\* prev_size, size, fd and bk
MIN_CHUNK_SIZE == 4 * SIZE_SZ
MINSIZE == ALIGN_UP(MIN_CHUNK_SIZE, MALLOC_ALIGNMENT)

request2size(req) ==
  IF req + SIZE_SZ + MALLOC_ALIGN_MASK < MINSIZE
  THEN MINSIZE
  ELSE ALIGN_DOWN(req + SIZE_SZ + MALLOC_ALIGN_MASK, MALLOC_ALIGNMENT)

\* The requests for which checked_request2size returns true.
Acceptable(req) == req <= PTRDIFF_MAX

chunk2mem(p) == p + CHUNK_HDR_SZ

----------------------------------------------------------------------------
(* The thread cache. *)

csize2tidx(size) == (size - MINSIZE + MALLOC_ALIGNMENT - 1) \div MALLOC_ALIGNMENT
usize2tidx(req) == csize2tidx(request2size(req))
tidx2usize(idx) == idx * MALLOC_ALIGNMENT + MINSIZE - SIZE_SZ

----------------------------------------------------------------------------
(* The fast bins. *)

MAX_FAST_SIZE == (80 * SIZE_SZ) \div 4
DEFAULT_MXFAST == (64 * SIZE_SZ) \div 4
fastbin_index(size) == size \div (IF SIZE_SZ = 8 THEN 16 ELSE 8) - 2
NFASTBINS == fastbin_index(request2size(MAX_FAST_SIZE)) + 1

\* What set_max_fast(s) makes global_max_fast.
max_fast_of(s) ==
  IF s <= MALLOC_ALIGN_MASK - SIZE_SZ
  THEN MIN_CHUNK_SIZE \div 2
  ELSE ALIGN_DOWN(s + SIZE_SZ, MALLOC_ALIGNMENT)

----------------------------------------------------------------------------
(* The bins. *)

NBINS == 128
NSMALLBINS == 64
SMALLBIN_CORRECTION == IF MALLOC_ALIGNMENT > CHUNK_HDR_SZ THEN 1 ELSE 0
MIN_LARGE_SIZE == (NSMALLBINS - SMALLBIN_CORRECTION) * MALLOC_ALIGNMENT

in_smallbin_range(size) == size < MIN_LARGE_SIZE
smallbin_index(size) == size \div MALLOC_ALIGNMENT + SMALLBIN_CORRECTION

\* largebin_index_32, _32_big and _64 share all but the first step, which
\* covers the quotients up to last and starts at base.
largebin_index_from(size, last, base) ==
  IF size \div 64 <= last          THEN base + size \div 64
  ELSE IF size \div 512 <= 20      THEN 91 + size \div 512
  ELSE IF size \div 4096 <= 10     THEN 110 + size \div 4096
  ELSE IF size \div 32768 <= 4     THEN 119 + size \div 32768
  ELSE IF size \div 262144 <= 2    THEN 124 + size \div 262144
  ELSE 126

largebin_index(size) ==
  IF SIZE_SZ = 8 THEN largebin_index_from(size, 48, 48)
  ELSE IF MALLOC_ALIGNMENT = 16 THEN largebin_index_from(size, 45, 49)
  ELSE largebin_index_from(size, 38, 56)

bin_index(size) ==
  IF in_smallbin_range(size) THEN smallbin_index(size) ELSE largebin_index(size)
=============================================================================
