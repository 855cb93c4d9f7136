------------------------------ MODULE MemAlloc ------------------------------
(***************************************************************************)
(* The heap allocator of assignment-memory-allocator (src/mem.c).          *)
(*                                                                         *)
(* The heap is a linked list of block headers laid out in regions obtained *)
(* from mmap.  Each loop iteration of find_good_or_last and of _free is a  *)
(* step of its own, because the states between two iterations are the ones *)
(* in which the list could be torn.  Byte contents are not modelled: an    *)
(* address is a natural number, and the memory is the set of headers that  *)
(* are linked into the list.                                               *)
(***************************************************************************)
EXTENDS HeapList

CONSTANTS
  HEAP_START,     \* where heap_init asks for the first region
  InitialSizes,   \* arguments heap_init may be called with
  Queries,        \* arguments _malloc may be called with
  ForeignPages    \* pages (first address) the rest of the process may map

\* No call of _malloc is running.
NoRequest == -1

ASSUME ArgsAssumption ==
  /\ HEAP_START \in 1 .. AddrLimit - 1
  /\ InitialSizes \subseteq Words
  /\ Queries \subseteq Words
  /\ ForeignPages \subseteq Nat

\* What makes the page arithmetic of the real machine: no proof needs it, the
\* runs do, as mmap refuses an unaligned fixed address.
ASSUME PagesAssumption ==
  /\ RegionMinSize % PageSize = 0
  /\ WordMod % PageSize = 0
  /\ AddrLimit % PageSize = 0
  /\ HEAP_START % PageSize = 0
  /\ \A p \in ForeignPages : p % PageSize = 0

VARIABLES
  heap,     \* what heap_init returned
  hdr,      \* linked header address -> its fields
  mapped,   \* addresses of the regions the heap obtained from mmap
  foreign,  \* addresses other parts of the process have mapped
  lent,     \* blocks (by header) that were returned by _malloc and are linked
  pc,       \* where the program is
  cur,      \* `current` of find_good_or_last, `header` of _free
  query,    \* the argument of the running _malloc
  retry,    \* TRUE in the second try_memalloc_existing of memalloc
  region,   \* the address alloc_region returned in the running _malloc
  result    \* what the last _malloc returned, until the next call

vars == <<heap, hdr, mapped, foreign, lent, pc, cur, query, retry, region, result>>

-----------------------------------------------------------------------------
(* The operating system.                                                   *)

Bytes(a, size) == a .. a + size - 1

\* mmap with MAP_FIXED: it takes whatever is mapped there away.
FixedFits(addr, size) ==
  addr % PageSize = 0 /\ addr # NULL /\ addr + size <= AddrLimit

\* mmap with a hint only: an aligned range nobody uses.
UnusedRanges(size) ==
  {a \in 1 .. AddrLimit - 1 :
     /\ a % PageSize = 0
     /\ a + size <= AddrLimit
     /\ Bytes(a, size) \intersect (mapped \union foreign) = {}}

\* The addresses alloc_region may return when asked for a region of `size`
\* bytes at `addr`; both calls of mmap may fail.
Placements(addr, size) ==
  (IF FixedFits(addr, size) THEN {addr} ELSE {}) \union UnusedRanges(size) \union {NULL}

-----------------------------------------------------------------------------
Init ==
  /\ heap = NULL
  /\ hdr = [a \in {} |-> 0]
  /\ mapped = {}
  /\ foreign = {}
  /\ lent = {}
  /\ pc = "start"
  /\ cur = NULL
  /\ query = 0
  /\ retry = FALSE
  /\ region = NULL
  /\ result = NULL

\* Some other part of the process maps a page (test5 of test.c does).
ForeignMmap(p) ==
  /\ pc \in {"start", "idle"}
  /\ Bytes(p, PageSize) \intersect (mapped \union foreign) = {}
  /\ foreign' = foreign \union Bytes(p, PageSize)
  /\ UNCHANGED <<heap, hdr, mapped, lent, pc, cur, query, retry, region, result>>

HeapInit(initial) ==
  LET size == RegionActualSize(SizeFromCapacity(initial)) IN
  /\ pc = "start"
  /\ \E r \in Placements(HEAP_START, size) :
       /\ heap' = r
       /\ IF r = NULL
          THEN UNCHANGED <<hdr, mapped, foreign>>
          ELSE /\ hdr' = BlockInit(hdr, r, size, NULL)
               /\ mapped' = Bytes(r, size)
               /\ foreign' = foreign \ Bytes(r, size)
  /\ pc' = "idle"
  /\ UNCHANGED <<lent, cur, query, retry, region, result>>

\* _malloc enters memalloc with the constant HEAP_START, wherever heap_init
\* put the first region: without a header there the program is lost.
Malloc(q) ==
  /\ pc = "idle"
  /\ IF HEAP_START \in DOMAIN hdr
     THEN pc' = "scan" /\ cur' = HEAP_START /\ query' = q
     ELSE pc' = "fault" /\ UNCHANGED <<cur, query>>
  /\ result' = NULL
  /\ UNCHANGED <<heap, hdr, mapped, foreign, lent, retry, region>>

\* while (try_merge_with_next(current));
ScanMerge ==
  /\ pc = "scan"
  /\ Mergeable(hdr, cur)
  /\ hdr' = MergedWithNext(hdr, cur)
  /\ lent' = lent \ {hdr[cur].next}
  /\ UNCHANGED <<heap, mapped, foreign, pc, cur, query, retry, region, result>>

Return(r) ==
  /\ pc' = "idle"
  /\ cur' = NULL
  /\ query' = 0
  /\ retry' = FALSE
  /\ region' = NULL
  /\ result' = r

\* A good block: split it, take it, return it.
ScanTake ==
  /\ pc = "scan"
  /\ ~Mergeable(hdr, cur)
  /\ GoodBlock(hdr, cur, Wanted(query))
  /\ hdr' = [SplitIfTooBig(hdr, cur, Wanted(query)) EXCEPT ![cur].is_free = FALSE]
  /\ lent' = lent \union {cur}
  /\ Return(cur + HeaderSize)
  /\ UNCHANGED <<heap, mapped, foreign>>

\* Mistake: `if` instead of `while` around try_merge_with_next, and the scan
\* moves on from a block that could still grow.
ScanAdvance_MergeOnce ==
  /\ pc = "scan"
  /\ ~GoodBlock(hdr, cur, Wanted(query))
  /\ hdr[cur].next # NULL
  /\ cur' = hdr[cur].next
  /\ UNCHANGED <<heap, hdr, mapped, foreign, lent, pc, query, retry, region, result>>

ScanAdvance ==
  /\ pc = "scan"
  /\ ~Mergeable(hdr, cur)
  /\ ~GoodBlock(hdr, cur, Wanted(query))
  /\ hdr[cur].next # NULL
  /\ cur' = hdr[cur].next
  /\ UNCHANGED <<heap, hdr, mapped, foreign, lent, pc, query, retry, region, result>>

\* The end of the list: grow the heap the first time, give up the second.
AtEnd ==
  /\ pc = "scan"
  /\ ~GoodBlock(hdr, cur, Wanted(query))
  /\ hdr[cur].next = NULL

\* Mistake: the heap is grown until the request fits.
ScanEnd_RetryAgain ==
  /\ AtEnd
  /\ pc' = "grow"
  /\ UNCHANGED <<heap, hdr, mapped, foreign, lent, cur, query, retry, region, result>>

ScanEnd ==
  /\ AtEnd
  /\ ~retry
  /\ pc' = "grow"
  /\ UNCHANGED <<heap, hdr, mapped, foreign, lent, cur, query, retry, region, result>>

ScanFail ==
  /\ AtEnd
  /\ retry
  /\ Return(NULL)
  /\ UNCHANGED <<heap, hdr, mapped, foreign, lent>>

\* Mistake: the region has room for the bytes asked for but not for the header.
GrowSize_NoHeader(q) == RegionActualSize(Wanted(q))

\* The size alloc_region maps for grow_heap: the header is added twice.
GrowSize(q) ==
  RegionActualSize(SizeFromCapacity((Wanted(q) + HeaderSize) % WordMod))

\* The list once the region at r is linked behind `last` and, if possible,
\* merged with it.
Grown(h, last, r, size) ==
  TryMergeWithNext(BlockInit([h EXCEPT ![last].next = r], r, size, NULL), last)

\* grow_heap and the return to try_memalloc_existing(query, heap_start).  A
\* fixed mapping over the heap's own regions wipes headers: the model stops
\* in "corrupt", as what the program does next depends on the zeroed bytes.
Grow ==
  LET size == GrowSize(query) IN
  /\ pc = "grow"
  /\ \E r \in Placements(BlockAfter(hdr, cur), size) :
       /\ region' = r
       /\ IF r # NULL /\ Bytes(r, size) \intersect mapped # {}
          THEN pc' = "corrupt" /\ UNCHANGED <<hdr, mapped, foreign, cur, retry>>
          ELSE /\ pc' = "scan"
               /\ cur' = HEAP_START
               /\ retry' = TRUE
               /\ IF r = NULL
                  THEN UNCHANGED <<hdr, mapped, foreign>>
                  ELSE /\ hdr' = Grown(hdr, cur, r, size)
                       /\ mapped' = mapped \union Bytes(r, size)
                       /\ foreign' = foreign \ Bytes(r, size)
  /\ UNCHANGED <<heap, lent, query, result>>

\* _free of a block the client was given; test.c frees some blocks again
\* after they became free, which is accepted as long as they are linked.
\* _free(NULL) returns at once and is a stuttering step.
Free(a) ==
  /\ pc = "idle"
  /\ hdr' = [hdr EXCEPT ![a].is_free = TRUE]
  /\ cur' = a
  /\ pc' = "free"
  /\ result' = NULL
  /\ UNCHANGED <<heap, mapped, foreign, lent, query, retry, region>>

\* Mistake: the loop does not look for the end of the list.
FreeStep_NoEnd ==
  /\ pc = "free"
  /\ hdr' = TryMergeWithNext(hdr, cur)
  /\ lent' = IF Mergeable(hdr, cur) THEN lent \ {hdr[cur].next} ELSE lent
  /\ cur' = hdr'[cur].next
  /\ UNCHANGED <<heap, mapped, foreign, pc, query, retry, region, result>>

\* One iteration of the loop of _free: one try_merge_with_next, then next.
FreeStep ==
  /\ pc = "free"
  /\ hdr' = TryMergeWithNext(hdr, cur)
  /\ lent' = IF Mergeable(hdr, cur) THEN lent \ {hdr[cur].next} ELSE lent
  /\ cur' = hdr'[cur].next
  /\ pc' = IF hdr'[cur].next = NULL THEN "idle" ELSE "free"
  /\ UNCHANGED <<heap, mapped, foreign, query, retry, region, result>>

Calls ==
  \/ \E p \in ForeignPages : ForeignMmap(p)
  \/ \E i \in InitialSizes : HeapInit(i)
  \/ \E q \in Queries : Malloc(q)
  \/ \E a \in lent : Free(a)

Steps == ScanMerge \/ ScanTake \/ ScanAdvance \/ ScanEnd \/ ScanFail \/ Grow \/ FreeStep

Next == Calls \/ Steps

\* A call, once entered, runs on: it is sequential code that never blocks.
Fairness == WF_vars(Steps)

Spec == Init /\ [][Next]_vars /\ Fairness

-----------------------------------------------------------------------------
(* What the allocator must keep to.                                        *)

Blocks == DOMAIN hdr

Extent(a) == Bytes(a, HeaderSize + hdr[a].capacity)

TypeOK ==
  /\ heap \in Nat
  /\ DOMAIN hdr \subseteq Nat
  /\ hdr \in [DOMAIN hdr -> Header]
  /\ mapped \subseteq Nat
  /\ foreign \subseteq Nat
  /\ lent \subseteq DOMAIN hdr
  /\ pc \in {"start", "idle", "scan", "grow", "free", "fault", "corrupt"}
  /\ cur \in Nat
  /\ pc \in {"scan", "grow", "free"} => cur \in DOMAIN hdr
  /\ query \in Words
  /\ retry \in BOOLEAN
  /\ region \in Nat
  /\ result \in Nat

\* Safety of memory: no two blocks of the heap overlap, headers included, so a
\* client that stays inside its block never touches another block or a header.
\* It rests on split_if_too_big, try_merge_with_next and grow_heap together.
NoOverlap ==
  \A a, b \in Blocks :
    a # b => \/ a + HeaderSize + hdr[a].capacity <= b
             \/ b + HeaderSize + hdr[b].capacity <= a

\* "Blocks fill the whole region": every byte obtained from mmap belongs to a
\* block (nothing leaks when blocks are split and merged) and no block reaches
\* outside the memory obtained from mmap, nor into memory of somebody else.
Coverage ==
  /\ mapped = UNION {Extent(a) : a \in Blocks}
  /\ mapped \intersect foreign = {}

\* No block is ever too small to be useful: splitting never leaves a remainder
\* below BLOCK_MIN_CAPACITY, and small requests are rounded up to it.
NoTinyBlock == \A a \in Blocks : hdr[a].capacity >= MinCapacity

\* The heap is given by its first header: following next from there meets every
\* block once and ends, whatever was split, merged or appended before.
ListIntegrity == OneList(hdr, heap)

\* First fit after merging: the search has left no block behind that would have
\* served the request, alone or together with the free block next to it.  In
\* "grow" this says that the heap grows only when it has to.
ScannedBlocksUnfit ==
  pc \in {"scan", "grow"} =>
    \A a \in Before(hdr, cur) : ~GoodBlock(hdr, a, Wanted(query)) /\ ~Mergeable(hdr, a)

\* The sums of grow_heap and alloc_region leave the range of size_t.
Wraps(q) == Wanted(q) + 2 * HeaderSize + PageSize > WordMod

\* A heap that has grown serves the request that made it grow: the second
\* search reaches the end only if mmap refused, or if the size wrapped around.
\* Otherwise a failing _malloc would leave the heap larger for nothing.
GrowthServes ==
  (retry /\ AtEnd) => (region = NULL \/ Wraps(query))

\* A block in use stays where it is, as large as it is, until it is freed,
\* whatever other calls split, merge or append in the meantime.
TakenStable ==
  [][\A a \in Blocks :
       ~hdr[a].is_free =>
         /\ a \in Blocks'
         /\ hdr'[a].capacity = hdr[a].capacity
         /\ hdr'[a].is_free => pc' = "free" /\ cur' = a]_vars

\* Every call returns: the list has no cycle and the retry happens once.
CallReturns == pc \in {"scan", "grow", "free"} ~> pc \in {"idle", "corrupt"}

\* What the README says of growth: try right after the last block and, if that
\* does not work, let mmap choose; memory of others is then never replaced
\* (the tests ask for growth around a foreign mapping).
GrowthSparesForeign == [][pc = "grow" => foreign \subseteq foreign']_vars

\* The heap is given by the header of its first block: wherever heap_init put
\* it, _malloc works on it.
MallocFindsHeap == heap # NULL => pc # "fault"

-----------------------------------------------------------------------------
(* The allocator implements its contract, MemAllocAbs.                     *)

TakenBlocks == {a \in Blocks : ~hdr[a].is_free}

Live == [a \in TakenBlocks |-> hdr[a].capacity]

Request == IF pc \in {"scan", "grow"} THEN query ELSE NoRequest

Lost == pc \in {"fault", "corrupt"}

Contract == INSTANCE MemAllocAbs WITH
  live <- Live, request <- Request, lost <- Lost, Addresses <- 1 .. AddrLimit - 1

\* What a client may rely on: until the program is lost, malloc returns a block
\* of its own that is large enough and not much larger, or NULL; free takes
\* exactly the block it was given.
ImplementsContract == Contract!Spec
=============================================================================
