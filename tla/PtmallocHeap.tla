---------------------------- MODULE PtmallocHeap ----------------------------
(***************************************************************************)
(* What the operations of Ptmalloc keep, for every word size, every        *)
(* request and every answer of the system.  The invariant of the arena is  *)
(* HeapOK: the chunks tile the memory that the system gave, the neighbours *)
(* of a free chunk are in use and know it, and each free chunk is once in  *)
(* the bin of its size.  One lemma per operation of the arena says that it *)
(* keeps it: lists, bins, fast bins and the tcache, merging (the           *)
(* recursions of malloc_consolidate and of the exit of a thread by         *)
(* induction over their lists), free, systrim, splitting, growing top, and *)
(* mappings.                                                               *)
(***************************************************************************)
EXTENDS Ptmalloc, SequenceTheorems, WellFoundedInduction, TLAPS

-----------------------------------------------------------------------------
(* The arithmetic of sizes.                                                *)

\* The sizes chunks have.
ChunkSizes == {s \in Nat : s >= MINSIZE /\ aligned_OK(s)}

\* There are three builds, and these are their smallest chunks.
LEMMA Builds ==
  \/ SIZE_SZ = 4 /\ MALLOC_ALIGNMENT = 8 /\ MINSIZE = 16
  \/ SIZE_SZ = 4 /\ MALLOC_ALIGNMENT = 16 /\ MINSIZE = 16
  \/ SIZE_SZ = 8 /\ MALLOC_ALIGNMENT = 16 /\ MINSIZE = 32
BY SizesAssumption DEF MINSIZE, MIN_CHUNK_SIZE, ALIGN_UP, ALIGN_DOWN

\* ALIGN_DOWN rounds down to a multiple.
LEMMA Aligned ==
  ASSUME NEW x \in Nat
  PROVE  /\ ALIGN_DOWN(x, MALLOC_ALIGNMENT) \in Nat
         /\ aligned_OK(ALIGN_DOWN(x, MALLOC_ALIGNMENT))
         /\ ALIGN_DOWN(x, MALLOC_ALIGNMENT) <= x
         /\ x < ALIGN_DOWN(x, MALLOC_ALIGNMENT) + MALLOC_ALIGNMENT
<1>1. CASE MALLOC_ALIGNMENT = 8 BY <1>1 DEF ALIGN_DOWN, aligned_OK
<1>2. CASE MALLOC_ALIGNMENT = 16 BY <1>2 DEF ALIGN_DOWN, aligned_OK
<1> QED BY <1>1, <1>2, SizesAssumption

\* MINSIZE is a multiple too: rounding down does not go below it.
LEMMA NotBelow ==
  ASSUME NEW d \in Nat, aligned_OK(d), NEW x \in Nat, x >= MINSIZE, x < d + MALLOC_ALIGNMENT
  PROVE  d >= MINSIZE
<1>1. CASE MALLOC_ALIGNMENT = 8
  <2>1. MINSIZE = 16 BY <1>1, Builds
  <2> QED BY <1>1, <2>1 DEF aligned_OK
<1>2. CASE MALLOC_ALIGNMENT = 16
  <2>1. MINSIZE \in {16, 32} BY <1>2, Builds
  <2> QED BY <1>2, <2>1 DEF aligned_OK
<1> QED BY <1>1, <1>2, SizesAssumption

\* request2size: the chunk is of a proper size, has room for the request beside
\* its size field (the next prev_size is lent), and is no larger than need be.
THEOREM RequestServed ==
  ASSUME NEW req \in Nat
  PROVE  /\ request2size(req) \in ChunkSizes
         /\ request2size(req) >= req + SIZE_SZ
         /\ request2size(req) = MINSIZE \/ request2size(req) < req + SIZE_SZ + MALLOC_ALIGNMENT
<1> DEFINE x == req + SIZE_SZ + MALLOC_ALIGN_MASK
           down == ALIGN_DOWN(x, MALLOC_ALIGNMENT)
<1>1. x \in Nat /\ x = req + SIZE_SZ + MALLOC_ALIGNMENT - 1 BY Builds DEF MALLOC_ALIGN_MASK
<1>2. /\ down \in Nat /\ aligned_OK(down) /\ down <= x /\ x < down + MALLOC_ALIGNMENT
  BY <1>1, Aligned
<1>3. MINSIZE \in ChunkSizes BY Builds DEF ChunkSizes, aligned_OK
<1>4. CASE x < MINSIZE
  <2>1. request2size(req) = MINSIZE BY <1>4 DEF request2size
  <2> QED BY <1>1, <1>3, <1>4, <2>1, Builds
<1>5. CASE x >= MINSIZE
  <2>1. request2size(req) = down BY <1>1, <1>5, Builds DEF request2size
  <2>2. down >= MINSIZE BY <1>1, <1>2, <1>5, NotBelow
  <2>3. down >= req + SIZE_SZ /\ down < req + SIZE_SZ + MALLOC_ALIGNMENT BY <1>1, <1>2, Builds
  <2> QED BY <1>2, <2>1, <2>2, <2>3 DEF ChunkSizes
<1> QED BY <1>1, <1>4, <1>5, Builds

\* csize2tidx: all chunks of one list of the thread cache have the same size, so
\* tcache_get may return any of them for a request that maps to the list.
THEOREM CachedChunksFit ==
  ASSUME NEW s \in ChunkSizes, NEW t \in ChunkSizes, csize2tidx(s) = csize2tidx(t)
  PROVE  s = t
BY Builds DEF ChunkSizes, csize2tidx, aligned_OK

\* tidx2usize(i) is a request that list i serves.
THEOREM CacheIndexInverse ==
  ASSUME NEW i \in Nat
  PROVE  usize2tidx(tidx2usize(i)) = i
<1>1. CASE SIZE_SZ = 4 /\ MALLOC_ALIGNMENT = 8 /\ MINSIZE = 16
  BY <1>1 DEF usize2tidx, tidx2usize, csize2tidx, request2size, ALIGN_DOWN, MALLOC_ALIGN_MASK
<1>2. CASE SIZE_SZ = 4 /\ MALLOC_ALIGNMENT = 16 /\ MINSIZE = 16
  BY <1>2 DEF usize2tidx, tidx2usize, csize2tidx, request2size, ALIGN_DOWN, MALLOC_ALIGN_MASK
<1>3. CASE SIZE_SZ = 8 /\ MALLOC_ALIGNMENT = 16 /\ MINSIZE = 32
  BY <1>3 DEF usize2tidx, tidx2usize, csize2tidx, request2size, ALIGN_DOWN, MALLOC_ALIGN_MASK
<1> QED BY <1>1, <1>2, <1>3, Builds

\* fastbin_index: whatever M_MXFAST mallopt accepts, a chunk that is not larger
\* than max_fast has a fast bin.
THEOREM FastBinExists ==
  ASSUME NEW value \in 0 .. MAX_FAST_SIZE, NEW s \in ChunkSizes, s <= max_fast_of(value)
  PROVE  fastbin_index(s) \in 0 .. NFASTBINS - 1
<1>1. CASE SIZE_SZ = 4 /\ MALLOC_ALIGNMENT = 8 /\ MINSIZE = 16
  BY <1>1 DEF ChunkSizes, fastbin_index, NFASTBINS, MAX_FAST_SIZE, max_fast_of, MIN_CHUNK_SIZE,
              request2size, ALIGN_DOWN, MALLOC_ALIGN_MASK, aligned_OK
<1>2. CASE SIZE_SZ = 4 /\ MALLOC_ALIGNMENT = 16 /\ MINSIZE = 16
  BY <1>2 DEF ChunkSizes, fastbin_index, NFASTBINS, MAX_FAST_SIZE, max_fast_of, MIN_CHUNK_SIZE,
              request2size, ALIGN_DOWN, MALLOC_ALIGN_MASK, aligned_OK
<1>3. CASE SIZE_SZ = 8 /\ MALLOC_ALIGNMENT = 16 /\ MINSIZE = 32
  BY <1>3 DEF ChunkSizes, fastbin_index, NFASTBINS, MAX_FAST_SIZE, max_fast_of, MIN_CHUNK_SIZE,
              request2size, ALIGN_DOWN, MALLOC_ALIGN_MASK, aligned_OK
<1> QED BY <1>1, <1>2, <1>3, Builds

\* The small bins are 2 to 63, and a chunk of another size is in another one.
LEMMA SmallIndex ==
  ASSUME NEW s \in ChunkSizes, in_smallbin_range(s)
  PROVE  /\ smallbin_index(s) \in 2 .. 63
         /\ smallbin_index(s) = s \div MALLOC_ALIGNMENT + SMALLBIN_CORRECTION
<1>1. CASE SIZE_SZ = 4 /\ MALLOC_ALIGNMENT = 8 /\ MINSIZE = 16
  BY <1>1 DEF ChunkSizes, in_smallbin_range, smallbin_index, MIN_LARGE_SIZE, NSMALLBINS,
              SMALLBIN_CORRECTION, CHUNK_HDR_SZ
<1>2. CASE SIZE_SZ = 4 /\ MALLOC_ALIGNMENT = 16 /\ MINSIZE = 16
  BY <1>2 DEF ChunkSizes, in_smallbin_range, smallbin_index, MIN_LARGE_SIZE, NSMALLBINS,
              SMALLBIN_CORRECTION, CHUNK_HDR_SZ
<1>3. CASE SIZE_SZ = 8 /\ MALLOC_ALIGNMENT = 16 /\ MINSIZE = 32
  BY <1>3 DEF ChunkSizes, in_smallbin_range, smallbin_index, MIN_LARGE_SIZE, NSMALLBINS,
              SMALLBIN_CORRECTION, CHUNK_HDR_SZ
<1> QED BY <1>1, <1>2, <1>3, Builds

\* A large index grows with the size, is at most 126, and at least 64 from the
\* smallest large size on.
LEMMA LargeStep ==
  ASSUME NEW last \in {38, 45, 48}, NEW base \in {48, 49, 56},
         \/ last = 48 /\ base = 48
         \/ last = 45 /\ base = 49
         \/ last = 38 /\ base = 56,
         NEW s \in Nat, NEW t \in Nat, s <= t
  PROVE  /\ largebin_index_from(s, last, base) <= largebin_index_from(t, last, base)
         /\ largebin_index_from(s, last, base) <= 126
         /\ s \div 64 >= 64 - base => largebin_index_from(s, last, base) >= 64
BY DEF largebin_index_from

\* The large bins are 64 to 126, in the order of sizes.
LEMMA LargeIndex ==
  ASSUME NEW s \in Nat, NEW t \in Nat, s <= t, ~in_smallbin_range(s)
  PROVE  largebin_index(s) \in 64 .. 126 /\ largebin_index(s) <= largebin_index(t)
<1> USE DEF in_smallbin_range, MIN_LARGE_SIZE, NSMALLBINS, SMALLBIN_CORRECTION, CHUNK_HDR_SZ, largebin_index
<1>1. CASE SIZE_SZ = 4 /\ MALLOC_ALIGNMENT = 8 /\ MINSIZE = 16
  <2>1. s >= 512 BY <1>1
  <2> QED BY <1>1, <2>1, LargeStep DEF largebin_index_from
<1>2. CASE SIZE_SZ = 4 /\ MALLOC_ALIGNMENT = 16 /\ MINSIZE = 16
  <2>1. s >= 1008 BY <1>2
  <2> QED BY <1>2, <2>1, LargeStep DEF largebin_index_from
<1>3. CASE SIZE_SZ = 8 /\ MALLOC_ALIGNMENT = 16 /\ MINSIZE = 32
  <2>1. s >= 1024 BY <1>3
  <2> QED BY <1>3, <2>1, LargeStep DEF largebin_index_from
<1> QED BY <1>1, <1>2, <1>3, Builds

\* bin_index: every chunk size has a bin, neither the unsorted one nor one past
\* the bin map.
THEOREM BinExists ==
  ASSUME NEW s \in ChunkSizes
  PROVE  bin_index(s) \in 2 .. NBINS - 2
<1>1. CASE in_smallbin_range(s) BY <1>1, SmallIndex DEF bin_index, NBINS
<1>2. CASE ~in_smallbin_range(s) BY <1>2, LargeIndex DEF bin_index, NBINS, ChunkSizes
<1> QED BY <1>1, <1>2

\* Larger chunks are not in smaller bins.
LEMMA BinsOrdered ==
  ASSUME NEW s \in ChunkSizes, NEW t \in ChunkSizes, s <= t
  PROVE  bin_index(s) <= bin_index(t)
<1> USE DEF bin_index, ChunkSizes
<1>1. CASE in_smallbin_range(t)
  <2>1. in_smallbin_range(s) BY <1>1, Builds DEF in_smallbin_range, MIN_LARGE_SIZE, NSMALLBINS, SMALLBIN_CORRECTION
  <2>2. s \div MALLOC_ALIGNMENT <= t \div MALLOC_ALIGNMENT BY Builds
  <2> QED BY <1>1, <2>1, <2>2, SmallIndex, Builds DEF SMALLBIN_CORRECTION
<1>2. CASE in_smallbin_range(s) /\ ~in_smallbin_range(t)
  <2>1. smallbin_index(s) \in 2 .. 63 BY <1>2, SmallIndex
  <2>2. largebin_index(t) \in 64 .. 126 BY <1>2, LargeIndex
  <2> QED BY <1>2, <2>1, <2>2
<1>3. CASE ~in_smallbin_range(s) /\ ~in_smallbin_range(t) BY <1>3, LargeIndex
<1> QED BY <1>1, <1>2, <1>3

\* _int_malloc takes the last chunk of the next larger bin with any, without a
\* look at sizes: it always fits.
THEOREM LargerBinFits ==
  ASSUME NEW n \in ChunkSizes, NEW s \in ChunkSizes, bin_index(s) > bin_index(n)
  PROVE  s > n
<1>1. bin_index(n) \in Int /\ bin_index(s) \in Int BY BinExists DEF NBINS
<1> QED BY <1>1, BinsOrdered DEF ChunkSizes

\* A small bin has chunks of one size only, so its last one fits a request for
\* that bin exactly.
THEOREM SmallBinFits ==
  ASSUME NEW s \in ChunkSizes, NEW t \in ChunkSizes, in_smallbin_range(s), in_smallbin_range(t),
         bin_index(s) = bin_index(t)
  PROVE  s = t
<1>1. s \div MALLOC_ALIGNMENT = t \div MALLOC_ALIGNMENT
  BY SmallIndex, Builds DEF bin_index, SMALLBIN_CORRECTION, ChunkSizes
<1> QED BY <1>1, Builds DEF ChunkSizes, aligned_OK

-----------------------------------------------------------------------------
(* Alignment.                                                              *)

\* What the alignment, the header and MINSIZE are.
LEMMA Units ==
  /\ MALLOC_ALIGNMENT \in {8, 16}
  /\ CHUNK_HDR_SZ = MALLOC_ALIGNMENT
  /\ 2 * SIZE_SZ = MALLOC_ALIGNMENT
  /\ MINSIZE = 2 * MALLOC_ALIGNMENT
  /\ MINSIZE \in Nat
  /\ aligned_OK(MINSIZE)
  /\ aligned_OK(MALLOC_ALIGNMENT)
  /\ aligned_OK(0)
BY SystemAssumption, Builds DEF CHUNK_HDR_SZ, aligned_OK

\* Sums and differences of multiples are multiples,
LEMMA AlignedSum ==
  ASSUME NEW x \in Int, NEW y \in Int, aligned_OK(x), aligned_OK(y)
  PROVE  aligned_OK(x + y) /\ aligned_OK(x - y)
<1>1. CASE MALLOC_ALIGNMENT = 8 BY <1>1 DEF aligned_OK
<1>2. CASE MALLOC_ALIGNMENT = 16 BY <1>2 DEF aligned_OK
<1> QED BY <1>1, <1>2, Units

\* and different multiples are a unit apart.
LEMMA AlignedGap ==
  ASSUME NEW x \in Int, NEW y \in Int, aligned_OK(x), aligned_OK(y), x < y
  PROVE  x + MALLOC_ALIGNMENT <= y
<1>1. CASE MALLOC_ALIGNMENT = 8 BY <1>1 DEF aligned_OK
<1>2. CASE MALLOC_ALIGNMENT = 16 BY <1>2 DEF aligned_OK
<1> QED BY <1>1, <1>2, Units

-----------------------------------------------------------------------------
(* The layout of memory: hdr maps the addresses of chunks to headers, B is *)
(* the set of the free chunks, W the memory that the system gave.          *)

Start(hdr, p) == IF hdr[p].mmapped THEN p - hdr[p].prev_size ELSE p
End(hdr, p) == p + hdr[p].size

\* The chunks of the heap: neither top nor fenceposts.
Chunks(hdr, top) ==
  {p \in DOMAIN hdr : ~hdr[p].mmapped /\ p # top /\ hdr[p].size >= MINSIZE}

AnyHeader == [size : Nat, prev_inuse : BOOLEAN, prev_size : Nat, mmapped : BOOLEAN]
Hd(size_, inuse_, before, mm) ==
  [size |-> size_, prev_inuse |-> inuse_, prev_size |-> before, mmapped |-> mm]

\* The fields of a header that is written down,
LEMMA HdFields ==
  ASSUME NEW s \in Nat, NEW b \in BOOLEAN, NEW o \in Nat, NEW m \in BOOLEAN
  PROVE  /\ Hd(s, b, o, m) \in AnyHeader
         /\ Hd(s, b, o, m).size = s /\ Hd(s, b, o, m).prev_inuse = b
         /\ Hd(s, b, o, m).prev_size = o /\ Hd(s, b, o, m).mmapped = m
BY DEF Hd, AnyHeader

\* and of any header.
LEMMA HeaderTypes ==
  ASSUME NEW x \in AnyHeader
  PROVE  /\ x.size \in Nat /\ x.prev_inuse \in BOOLEAN
         /\ x.prev_size \in Nat /\ x.mmapped \in BOOLEAN
         /\ x = Hd(x.size, x.prev_inuse, x.prev_size, x.mmapped)
BY DEF Hd, AnyHeader

Typed(hdr, top) ==
  /\ top \in DOMAIN hdr /\ ~hdr[top].mmapped
  /\ IF top = NIL THEN hdr[top].size = 0 ELSE hdr[top].size >= MINSIZE
  /\ \A p \in DOMAIN hdr :
       /\ p \in Nat /\ aligned_OK(p) /\ hdr[p] \in AnyHeader /\ hdr[p].prev_size <= p
       /\ p # top => p > 0 /\ hdr[p].size > 0
       /\ p # top /\ ~hdr[p].mmapped => aligned_OK(hdr[p].size)

Apart(hdr) == \A p, q \in DOMAIN hdr : p < q => End(hdr, p) <= Start(hdr, q)

\* A chunk is followed by top, by a chunk or by a fencepost with one behind it.
Joined(hdr, top) ==
  \A p \in Chunks(hdr, top) :
    /\ End(hdr, p) \in DOMAIN hdr /\ ~hdr[End(hdr, p)].mmapped
    /\ \A e \in DOMAIN hdr : e = End(hdr, p) /\ e # top =>
         End(hdr, e) \in DOMAIN hdr /\ ~hdr[End(hdr, e)].mmapped

\* c: the heap is contiguous, from lo to top.
Inside(hdr, top, W, c, lo) ==
  \A p \in DOMAIN hdr :
    /\ \A x \in Nat : Start(hdr, p) <= x /\ x < End(hdr, p) => x \in W
    /\ c /\ ~hdr[p].mmapped => lo <= p /\ p <= top

Shape(hdr, top, W, c, lo) ==
  /\ Typed(hdr, top)
  /\ Apart(hdr)
  /\ Joined(hdr, top)
  /\ Inside(hdr, top, W, c, lo)

\* The header after a free chunk has its size and a clear bit, and two free
\* chunks are no neighbours.
Tagged(hdr, top, B) ==
  /\ hdr[top].prev_inuse
  /\ B \subseteq Chunks(hdr, top)
  /\ \A p \in Chunks(hdr, top) : hdr[End(hdr, p)].prev_inuse <=> p \notin B
  /\ \A p \in B : hdr[End(hdr, p)].prev_size = hdr[p].size /\ hdr[p].prev_inuse
  /\ \A q \in DOMAIN hdr : ~hdr[q].mmapped /\ ~hdr[q].prev_inuse =>
       q - hdr[q].prev_size \in B /\ End(hdr, q - hdr[q].prev_size) = q

\* What follows a chunk, and that nothing else is followed by the same.
LEMMA Follower ==
  ASSUME NEW hdr, NEW top, NEW W, NEW c, NEW lo, Shape(hdr, top, W, c, lo),
         NEW p \in Chunks(hdr, top), NEW e, e = End(hdr, p)
  PROVE  /\ e \in DOMAIN hdr /\ e \in Nat /\ ~hdr[e].mmapped
         /\ p \in DOMAIN hdr /\ p \in Nat /\ p < e /\ hdr[p].size \in Nat /\ e = p + hdr[p].size
         /\ e # top => /\ End(hdr, e) \in DOMAIN hdr
                       /\ ~hdr[End(hdr, e)].mmapped
                       /\ e < End(hdr, e)
         /\ \A q \in DOMAIN hdr : End(hdr, q) = e /\ hdr[q].size > 0 => q = p
<1>1. p \in DOMAIN hdr /\ p \in Nat /\ p # top /\ hdr[p] \in AnyHeader /\ hdr[p].size >= MINSIZE
      /\ ~hdr[p].mmapped
  BY DEF Chunks, Shape, Typed
<1>2. e \in DOMAIN hdr /\ ~hdr[e].mmapped /\ e \in Nat /\ hdr[e] \in AnyHeader
  BY DEF Shape, Joined, Typed
<1>3. hdr[p].size \in Nat /\ hdr[e].size \in Nat /\ p < e /\ e = p + hdr[p].size
  BY <1>1, <1>2, Units DEF AnyHeader, End
<1>4. ASSUME e # top
      PROVE  End(hdr, e) \in DOMAIN hdr /\ ~hdr[End(hdr, e)].mmapped /\ e < End(hdr, e)
  <2>1. hdr[e].size > 0 BY <1>2, <1>4 DEF Shape, Typed
  <2> QED BY <1>2, <1>3, <1>4, <2>1 DEF Shape, Joined, End
<1>5. ASSUME NEW q \in DOMAIN hdr, End(hdr, q) = e, hdr[q].size > 0
      PROVE  q = p
  <2>1. q \in Nat /\ hdr[q] \in AnyHeader /\ hdr[q].prev_size <= q BY DEF Shape, Typed
  <2>2. q < p => e <= Start(hdr, p) BY <1>1, <1>5 DEF Shape, Apart
  <2>3. p < q => e <= Start(hdr, q) BY <1>1 DEF Shape, Apart
  <2>4. Start(hdr, p) = p /\ Start(hdr, q) <= q
    BY <1>1, <2>1 DEF Start, AnyHeader
  <2>5. q < e BY <1>5, <2>1 DEF End, AnyHeader
  <2>6. Start(hdr, q) \in Int BY <2>1 DEF Start, AnyHeader
  <2> QED BY <1>1, <1>3, <2>1, <2>2, <2>3, <2>4, <2>5, <2>6
<1> QED BY <1>1, <1>2, <1>3, <1>4, <1>5

\* The shape does not depend on the tags.
LEMMA SameShape ==
  ASSUME NEW hdr, NEW top, NEW W, NEW c, NEW lo, Shape(hdr, top, W, c, lo),
         NEW hdr2, DOMAIN hdr2 = DOMAIN hdr,
         \A q \in DOMAIN hdr : /\ hdr2[q] \in AnyHeader
                               /\ hdr2[q].size = hdr[q].size
                               /\ hdr2[q].mmapped = hdr[q].mmapped
                               /\ hdr[q].mmapped => hdr2[q].prev_size = hdr[q].prev_size
                               /\ hdr2[q].prev_size <= q
  PROVE  /\ Shape(hdr2, top, W, c, lo)
         /\ Chunks(hdr2, top) = Chunks(hdr, top)
         /\ \A q \in DOMAIN hdr : End(hdr2, q) = End(hdr, q) /\ Start(hdr2, q) = Start(hdr, q)
<1>1. \A q \in DOMAIN hdr : End(hdr2, q) = End(hdr, q) /\ Start(hdr2, q) = Start(hdr, q)
  BY DEF End, Start
<1>2. Chunks(hdr2, top) = Chunks(hdr, top)
  BY DEF Chunks
<1>3. Typed(hdr2, top)
  BY DEF Shape, Typed
<1>4. Apart(hdr2)
  BY <1>1 DEF Shape, Apart
<1>5. Joined(hdr2, top)
  BY <1>1, <1>2 DEF Shape, Joined, Chunks
<1>6. Inside(hdr2, top, W, c, lo)
  BY <1>1 DEF Shape, Inside
<1> QED BY <1>1, <1>2, <1>3, <1>4, <1>5, <1>6 DEF Shape

\* The mark of chunk p changes: B2 has it or not.
Retags(hdr, top, B, p, e, B2, x, y, hdr2) ==
  /\ p \in Chunks(hdr, top) /\ e = End(hdr, p)
  /\ B2 \ {p} = B \ {p}
  /\ p \in B2 => e # top /\ e \notin B /\ hdr[p].prev_inuse
  /\ x \in Nat /\ x <= e /\ (p \in B2 => x = hdr[p].size)
  /\ y \in Nat /\ y <= p /\ (hdr[p].prev_inuse \/ y = hdr[p].prev_size)
  /\ DOMAIN hdr2 = DOMAIN hdr
  /\ hdr2[p] = Hd(hdr[p].size, hdr[p].prev_inuse, y, FALSE)
  /\ hdr2[e] = Hd(hdr[e].size, p \notin B2, x, FALSE)
  /\ \A q \in DOMAIN hdr : q # p /\ q # e => hdr2[q] = hdr[q]

\* The chunk p is taken or becomes free: the header e after it shows which.
LEMMA Retag ==
  ASSUME NEW hdr, NEW top, NEW W, NEW c, NEW lo, Shape(hdr, top, W, c, lo),
         NEW B, Tagged(hdr, top, B),
         NEW p, NEW e, NEW B2, NEW x, NEW y, NEW hdr2,
         Retags(hdr, top, B, p, e, B2, x, y, hdr2)
  PROVE  /\ Shape(hdr2, top, W, c, lo) /\ Tagged(hdr2, top, B2)
         /\ Chunks(hdr2, top) = Chunks(hdr, top)
<1> SUFFICES ASSUME p \in Chunks(hdr, top) /\ e = End(hdr, p),
                   B2 \ {p} = B \ {p},
                   p \in B2 => e # top /\ e \notin B /\ hdr[p].prev_inuse,
                   x \in Nat /\ x <= e /\ (p \in B2 => x = hdr[p].size),
                   y \in Nat /\ y <= p /\ (hdr[p].prev_inuse \/ y = hdr[p].prev_size),
                   DOMAIN hdr2 = DOMAIN hdr,
                   hdr2[p] = Hd(hdr[p].size, hdr[p].prev_inuse, y, FALSE),
                   hdr2[e] = Hd(hdr[e].size, p \notin B2, x, FALSE),
                   \A q \in DOMAIN hdr : q # p /\ q # e => hdr2[q] = hdr[q]
    PROVE  /\ Shape(hdr2, top, W, c, lo) /\ Tagged(hdr2, top, B2)
           /\ Chunks(hdr2, top) = Chunks(hdr, top)
  BY DEF Retags
<1>1. /\ e \in DOMAIN hdr /\ e \in Nat /\ ~hdr[e].mmapped
      /\ p \in DOMAIN hdr /\ p \in Nat /\ p < e
      /\ \A q \in DOMAIN hdr : End(hdr, q) = e /\ hdr[q].size > 0 => q = p
  BY Follower
<1>2. ~hdr[p].mmapped /\ hdr[p] \in AnyHeader /\ hdr[e] \in AnyHeader
  BY <1>1 DEF Chunks, Shape, Typed
<1>a. /\ hdr[p].size \in Nat /\ hdr[p].prev_inuse \in BOOLEAN /\ hdr[p].mmapped = FALSE
      /\ hdr[e].size \in Nat /\ hdr[e].mmapped = FALSE
  BY <1>1, <1>2 DEF AnyHeader
<1>b. (p \notin B2) \in BOOLEAN
  OBVIOUS
<1>c. /\ hdr2[p] \in AnyHeader /\ hdr2[p].size = hdr[p].size /\ hdr2[p].prev_inuse = hdr[p].prev_inuse
      /\ hdr2[p].prev_size = y /\ hdr2[p].mmapped = FALSE
  <2>1. hdr2[p] = Hd(hdr[p].size, hdr[p].prev_inuse, y, FALSE) /\ y \in Nat
    OBVIOUS
  <2> QED BY ONLY <1>a, <2>1 DEF Hd, AnyHeader
<1>d. /\ hdr2[e] \in AnyHeader /\ hdr2[e].size = hdr[e].size /\ hdr2[e].prev_inuse = (p \notin B2)
      /\ hdr2[e].prev_size = x /\ hdr2[e].mmapped = FALSE
  <2>1. hdr2[e] = Hd(hdr[e].size, p \notin B2, x, FALSE) /\ x \in Nat
    OBVIOUS
  <2> QED BY ONLY <1>a, <1>b, <2>1 DEF Hd, AnyHeader
<1>3. \A q \in DOMAIN hdr : /\ hdr2[q] \in AnyHeader
                            /\ hdr2[q].size = hdr[q].size
                            /\ hdr2[q].mmapped = hdr[q].mmapped
                            /\ hdr[q].mmapped => hdr2[q].prev_size = hdr[q].prev_size
                            /\ hdr2[q].prev_size <= q
  <2>1. \A q \in DOMAIN hdr : hdr[q] \in AnyHeader /\ hdr[q].prev_size <= q
    BY DEF Shape, Typed
  <2> QED BY <1>a, <1>c, <1>d, <2>1
<1>4. /\ Shape(hdr2, top, W, c, lo)
      /\ Chunks(hdr2, top) = Chunks(hdr, top)
      /\ \A q \in DOMAIN hdr : End(hdr2, q) = End(hdr, q) /\ Start(hdr2, q) = Start(hdr, q)
  BY <1>3, SameShape
<1>6. \A q \in DOMAIN hdr : q # e => hdr2[q].prev_inuse = hdr[q].prev_inuse
  BY <1>c, <1>d
<1>7. hdr2[top].prev_inuse
  BY <1>1, <1>c, <1>d, <1>6 DEF Tagged, Shape, Typed
<1>8. B2 \subseteq Chunks(hdr, top)
  BY DEF Tagged
<1>9. ASSUME NEW q \in Chunks(hdr, top)
      PROVE  hdr2[End(hdr2, q)].prev_inuse <=> q \notin B2
  <2>1. q \in DOMAIN hdr /\ End(hdr2, q) = End(hdr, q) /\ End(hdr, q) \in DOMAIN hdr /\ hdr[q].size > 0
    BY <1>4, Follower DEF Chunks, Shape, Typed
  <2>2. CASE q = p BY <1>c, <1>d, <2>1, <2>2
  <2>3. CASE q # p
    <3>1. End(hdr, q) # e BY <1>1, <2>1, <2>3
    <3> QED BY <1>6, <2>1, <2>3, <3>1 DEF Tagged
  <2> QED BY <2>2, <2>3
<1>10. ASSUME NEW q \in B2
       PROVE  hdr2[End(hdr2, q)].prev_size = hdr2[q].size /\ hdr2[q].prev_inuse
  <2>1. q \in Chunks(hdr, top) BY <1>8
  <2>2. /\ q \in DOMAIN hdr /\ End(hdr2, q) = End(hdr, q) /\ End(hdr, q) \in DOMAIN hdr
        /\ hdr[q].size > 0 /\ hdr2[q].size = hdr[q].size
    BY <1>3, <1>4, <2>1, Follower DEF Chunks, Shape, Typed
  <2>3. CASE q = p BY <1>c, <1>d, <2>2, <2>3
  <2>4. CASE q # p
    <3>1. q \in B BY <2>4
    <3>2. End(hdr, q) # e BY <1>1, <2>2, <2>4
    <3>3. hdr[End(hdr, q)].prev_size = hdr[q].size /\ hdr[q].prev_inuse /\ ~hdr[End(hdr, q)].prev_inuse
      BY <2>1, <3>1 DEF Tagged
    <3>4. hdr2[End(hdr, q)].prev_size = hdr[End(hdr, q)].prev_size
      BY <1>c, <1>d, <2>2, <3>2, <3>3
    <3>5. hdr2[q].prev_inuse
      BY <1>c, <1>d, <1>6, <2>2, <2>4, <3>1, <3>3
    <3> QED BY <2>2, <3>3, <3>4, <3>5
  <2> QED BY <2>3, <2>4
<1>11. ASSUME NEW q \in DOMAIN hdr, ~hdr2[q].mmapped, ~hdr2[q].prev_inuse
       PROVE  q - hdr2[q].prev_size \in B2 /\ End(hdr2, q - hdr2[q].prev_size) = q
  <2>1. CASE q = e
    <3>1. p \in B2 /\ hdr2[q].prev_size = hdr[p].size BY <1>c, <1>d, <1>11, <2>1
    <3>2. q - hdr2[q].prev_size = p BY <1>1, <1>2, <2>1, <3>1 DEF End, AnyHeader
    <3> QED BY <1>1, <1>4, <2>1, <3>1, <3>2
  <2>2. CASE q # e
    <3>1. ~hdr[q].prev_inuse /\ ~hdr[q].mmapped /\ hdr2[q].prev_size = hdr[q].prev_size
      BY <1>3, <1>c, <1>d, <1>6, <1>11, <2>2
    <3>2. q - hdr[q].prev_size \in B /\ End(hdr, q - hdr[q].prev_size) = q
      BY <3>1 DEF Tagged
    <3>3. q - hdr[q].prev_size # p BY <2>2, <3>2
    <3>4. q - hdr[q].prev_size \in B2 /\ q - hdr[q].prev_size \in DOMAIN hdr
      BY <1>8, <3>2, <3>3 DEF Chunks
    <3> QED BY <1>4, <3>1, <3>2, <3>4
  <2> QED BY <2>1, <2>2
<1>12. Tagged(hdr2, top, B2)
  BY <1>4, <1>7, <1>8, <1>9, <1>10, <1>11 DEF Tagged
<1> QED BY <1>4, <1>12

\* Chunk p takes in the chunk n after it.
Joins(hdr, top, B, p, n, e, B2, x, y, hdr2) ==
  /\ p \in Chunks(hdr, top) /\ n \in Chunks(hdr, top) /\ n = End(hdr, p) /\ e = End(hdr, n)
  /\ B2 \ {p} = B \ {p, n}
  /\ p \in B2 => e # top /\ e \notin B /\ hdr[p].prev_inuse
  /\ x \in Nat /\ x <= e /\ (p \in B2 => x = e - p)
  /\ y \in Nat /\ y <= p /\ (hdr[p].prev_inuse \/ y = hdr[p].prev_size)
  /\ DOMAIN hdr2 = DOMAIN hdr \ {n}
  /\ hdr2[p] = Hd(e - p, hdr[p].prev_inuse, y, FALSE)
  /\ hdr2[e] = Hd(hdr[e].size, p \notin B2, x, FALSE)
  /\ \A q \in DOMAIN hdr \ {n} : q # p /\ q # e => hdr2[q] = hdr[q]

\* The chunk n behind the chunk p becomes part of it.
LEMMA Join ==
  ASSUME NEW hdr, NEW top, NEW W, NEW c, NEW lo, Shape(hdr, top, W, c, lo),
         NEW B, Tagged(hdr, top, B),
         NEW p, NEW n, NEW e, NEW B2, NEW x, NEW y, NEW hdr2,
         Joins(hdr, top, B, p, n, e, B2, x, y, hdr2)
  PROVE  /\ Shape(hdr2, top, W, c, lo) /\ Tagged(hdr2, top, B2)
         /\ Chunks(hdr2, top) = Chunks(hdr, top) \ {n}
<1> SUFFICES ASSUME p \in Chunks(hdr, top) /\ n \in Chunks(hdr, top) /\ n = End(hdr, p) /\ e = End(hdr, n),
                   B2 \ {p} = B \ {p, n},
                   p \in B2 => e # top /\ e \notin B /\ hdr[p].prev_inuse,
                   x \in Nat /\ x <= e /\ (p \in B2 => x = e - p),
                   y \in Nat /\ y <= p /\ (hdr[p].prev_inuse \/ y = hdr[p].prev_size),
                   DOMAIN hdr2 = DOMAIN hdr \ {n},
                   hdr2[p] = Hd(e - p, hdr[p].prev_inuse, y, FALSE),
                   hdr2[e] = Hd(hdr[e].size, p \notin B2, x, FALSE),
                   \A q \in DOMAIN hdr \ {n} : q # p /\ q # e => hdr2[q] = hdr[q]
    PROVE  /\ Shape(hdr2, top, W, c, lo) /\ Tagged(hdr2, top, B2)
           /\ Chunks(hdr2, top) = Chunks(hdr, top) \ {n}
  BY DEF Joins
<1>1. /\ p \in DOMAIN hdr /\ p \in Nat /\ p < n
      /\ \A q \in DOMAIN hdr : End(hdr, q) = n /\ hdr[q].size > 0 => q = p
  BY Follower
<1>2. /\ e \in DOMAIN hdr /\ e \in Nat /\ ~hdr[e].mmapped
      /\ n \in DOMAIN hdr /\ n \in Nat /\ n < e
      /\ e # top => End(hdr, e) \in DOMAIN hdr /\ ~hdr[End(hdr, e)].mmapped /\ e < End(hdr, e)
      /\ \A q \in DOMAIN hdr : End(hdr, q) = e /\ hdr[q].size > 0 => q = n
  BY Follower
<1>3. /\ \A q \in DOMAIN hdr : q \in Nat /\ hdr[q] \in AnyHeader /\ hdr[q].prev_size <= q
      /\ \A q \in DOMAIN hdr : q # top => q > 0 /\ hdr[q].size > 0
  BY DEF Shape, Typed
<1>4. ~hdr[p].mmapped /\ ~hdr[n].mmapped /\ p # top /\ n # top
      /\ hdr[p].size >= MINSIZE /\ hdr[n].size >= MINSIZE
  BY DEF Chunks
<1>5. /\ hdr[p].size \in Nat /\ hdr[p].prev_inuse \in BOOLEAN /\ hdr[p].mmapped = FALSE
      /\ hdr[e].size \in Nat /\ hdr[e].mmapped = FALSE /\ hdr[n].size \in Nat
  BY <1>1, <1>2, <1>3, <1>4 DEF AnyHeader
<1>6. n = p + hdr[p].size /\ e = n + hdr[n].size /\ e - p \in Nat /\ e - p = hdr[p].size + hdr[n].size
  BY <1>1, <1>2, <1>5 DEF End
<1>7. (p \notin B2) \in BOOLEAN
  OBVIOUS
<1>8. /\ hdr2[p] \in AnyHeader /\ hdr2[p].size = e - p /\ hdr2[p].prev_inuse = hdr[p].prev_inuse
      /\ hdr2[p].prev_size = y /\ hdr2[p].mmapped = FALSE
  <2>1. hdr2[p] = Hd(e - p, hdr[p].prev_inuse, y, FALSE) /\ y \in Nat
    OBVIOUS
  <2> QED BY ONLY <1>5, <1>6, <2>1 DEF Hd, AnyHeader
<1>9. /\ hdr2[e] \in AnyHeader /\ hdr2[e].size = hdr[e].size /\ hdr2[e].prev_inuse = (p \notin B2)
      /\ hdr2[e].prev_size = x /\ hdr2[e].mmapped = FALSE
  <2>1. hdr2[e] = Hd(hdr[e].size, p \notin B2, x, FALSE) /\ x \in Nat
    OBVIOUS
  <2> QED BY ONLY <1>5, <1>7, <2>1 DEF Hd, AnyHeader
<1>10. \A q \in DOMAIN hdr2 :
         /\ q \in DOMAIN hdr /\ q # n
         /\ hdr2[q] \in AnyHeader /\ hdr2[q].mmapped = hdr[q].mmapped /\ hdr2[q].prev_size <= q
         /\ Start(hdr2, q) = Start(hdr, q)
         /\ q # p => hdr2[q].size = hdr[q].size /\ End(hdr2, q) = End(hdr, q)
  <2>1. ASSUME NEW q \in DOMAIN hdr2
        PROVE  /\ q \in DOMAIN hdr /\ q # n
               /\ hdr2[q] \in AnyHeader /\ hdr2[q].mmapped = hdr[q].mmapped /\ hdr2[q].prev_size <= q
               /\ Start(hdr2, q) = Start(hdr, q)
               /\ q # p => hdr2[q].size = hdr[q].size /\ End(hdr2, q) = End(hdr, q)
    <3>1. CASE q = p BY <1>1, <1>5, <1>8, <3>1 DEF Start
    <3>2. CASE q = e BY <1>1, <1>2, <1>5, <1>9, <3>2 DEF Start, End
    <3>3. CASE q # p /\ q # e BY <1>3, <3>3 DEF Start, End
    <3> QED BY <3>1, <3>2, <3>3
  <2> QED BY <2>1
<1>a. p + (e - p) = e /\ e - (e - p) = p /\ p # n /\ e # n /\ e # p
  BY ONLY <1>1, <1>2
<1>11. End(hdr2, p) = e
  BY ONLY <1>8, <1>a DEF End
<1>12. p \in DOMAIN hdr2 /\ e \in DOMAIN hdr2 /\ p < e
  BY <1>1, <1>2
<1>13. Chunks(hdr2, top) = Chunks(hdr, top) \ {n}
  <2>1. hdr2[p].size >= MINSIZE
    BY ONLY <1>4, <1>5, <1>6, <1>8, Units
  <2> QED BY <1>4, <1>10, <1>12, <2>1 DEF Chunks
<1>14. Typed(hdr2, top)
  <2>1. top \in DOMAIN hdr2 /\ ~hdr2[top].mmapped /\ hdr2[top].size = hdr[top].size
    BY <1>4, <1>10 DEF Shape, Typed
  <2>2. aligned_OK(hdr2[p].size)
    <3>1. aligned_OK(e) /\ aligned_OK(p) BY <1>1, <1>2 DEF Shape, Typed
    <3> QED BY ONLY <1>1, <1>2, <1>8, <3>1, AlignedSum
  <2>3. \A q \in DOMAIN hdr2 : /\ q # top => hdr2[q].size > 0
                               /\ q # top /\ ~hdr2[q].mmapped => aligned_OK(hdr2[q].size)
    <3>1. hdr2[p].size > 0 BY ONLY <1>8, <1>12, <1>1, <1>2
    <3>2. \A q \in DOMAIN hdr : /\ q # top => hdr[q].size > 0
                                /\ q # top /\ ~hdr[q].mmapped => aligned_OK(hdr[q].size)
      BY DEF Shape, Typed
    <3> QED BY ONLY <1>10, <2>2, <3>1, <3>2
  <2> QED BY <1>10, <2>1, <2>3 DEF Shape, Typed
<1>15. Apart(hdr2)
  <2> SUFFICES ASSUME NEW a \in DOMAIN hdr2, NEW b \in DOMAIN hdr2, a < b
               PROVE  End(hdr2, a) <= Start(hdr2, b)
    BY DEF Apart
  <2>1. a \in DOMAIN hdr /\ b \in DOMAIN hdr /\ b # n /\ Start(hdr2, b) = Start(hdr, b)
    BY <1>10
  <2>2. CASE a # p
    BY <1>10, <2>1, <2>2 DEF Shape, Apart
  <2>3. CASE a = p
    <3>1. n <= Start(hdr, b) BY <1>12, <2>1, <2>3 DEF Shape, Apart
    <3>2. Start(hdr, b) <= b /\ Start(hdr, b) \in Int /\ b \in Nat
      BY <1>3, <2>1 DEF Start, AnyHeader
    <3>3. n < b BY <1>2, <2>1, <3>1, <3>2
    <3>4. e <= Start(hdr, b) BY <1>2, <2>1, <3>3 DEF Shape, Apart
    <3> QED BY <1>11, <2>1, <2>3, <3>4
  <2> QED BY <2>2, <2>3
<1>16. Joined(hdr2, top)
  <2> SUFFICES ASSUME NEW q \in Chunks(hdr2, top)
               PROVE  /\ End(hdr2, q) \in DOMAIN hdr2 /\ ~hdr2[End(hdr2, q)].mmapped
                      /\ \A r \in DOMAIN hdr2 : r = End(hdr2, q) /\ r # top =>
                           End(hdr2, r) \in DOMAIN hdr2 /\ ~hdr2[End(hdr2, r)].mmapped
    BY DEF Joined
  <2>1. q \in Chunks(hdr, top) /\ q \in DOMAIN hdr2 /\ q # n
    BY <1>13 DEF Chunks
  <2>2. CASE q = p
    <3>1. e # top => End(hdr2, e) = End(hdr, e) /\ End(hdr, e) \in DOMAIN hdr2
      BY <1>2, <1>10, <1>12
    <3>2. ~hdr2[e].mmapped BY <1>9
    <3>3. e # top => ~hdr2[End(hdr, e)].mmapped BY <1>2, <1>10, <3>1
    <3> QED BY ONLY <1>11, <1>12, <2>2, <3>1, <3>2, <3>3
  <2>3. CASE q # p
    <3>1. End(hdr2, q) = End(hdr, q) /\ End(hdr, q) \in DOMAIN hdr /\ hdr[q].size > 0
          /\ ~hdr[End(hdr, q)].mmapped
      BY <1>3, <1>10, <2>1, <2>3, Follower DEF Chunks
    <3>2. End(hdr, q) # n BY <1>1, <2>1, <2>3, <3>1 DEF Chunks
    <3>3. End(hdr2, q) \in DOMAIN hdr2 /\ ~hdr2[End(hdr2, q)].mmapped
      BY <1>10, <3>1, <3>2
    <3>4. ASSUME NEW r \in DOMAIN hdr2, r = End(hdr, q), r # top, r # p
          PROVE  End(hdr2, r) \in DOMAIN hdr2 /\ ~hdr2[End(hdr2, r)].mmapped
      <4>1. End(hdr, r) \in DOMAIN hdr /\ ~hdr[End(hdr, r)].mmapped /\ hdr[r].size > 0
            /\ End(hdr2, r) = End(hdr, r)
        BY <1>3, <1>10, <2>1, <3>4, Follower
      <4>2. End(hdr, r) # n BY <1>1, <1>10, <3>4, <4>1
      <4> QED BY <1>10, <4>1, <4>2
    <3>5. ~hdr2[e].mmapped BY <1>9
    <3> QED BY <1>11, <1>12, <3>1, <3>3, <3>4, <3>5
  <2> QED BY <2>2, <2>3
<1>17. Inside(hdr2, top, W, c, lo)
  <2>1. \A q \in DOMAIN hdr2 : c /\ ~hdr2[q].mmapped => lo <= q /\ q <= top
    BY <1>10 DEF Shape, Inside
  <2>2. ASSUME NEW q \in DOMAIN hdr2, NEW z \in Nat, Start(hdr2, q) <= z, z < End(hdr2, q)
        PROVE  z \in W
    <3>1. CASE q # p BY <1>10, <2>2, <3>1 DEF Shape, Inside
    <3>2. CASE q = p
      <4>1. Start(hdr, p) = p /\ Start(hdr, n) = n /\ Start(hdr2, p) = p
            /\ End(hdr, p) = n /\ End(hdr, n) = e
        BY <1>4, <1>8 DEF Start
      <4>2. CASE z < n BY <1>1, <2>2, <3>2, <4>1, <4>2 DEF Shape, Inside
      <4>3. CASE n <= z BY <1>2, <1>11, <2>2, <3>2, <4>1, <4>3 DEF Shape, Inside
      <4> QED BY <1>2, <4>2, <4>3
    <3> QED BY <3>1, <3>2
  <2> QED BY <2>1, <2>2 DEF Inside
<1>18. Shape(hdr2, top, W, c, lo)
  BY <1>14, <1>15, <1>16, <1>17 DEF Shape
<1>19. hdr2[top].prev_inuse
  <2>1. CASE top = e
    BY <1>9, <2>1
  <2>2. CASE top # e
    BY <1>4, <2>2 DEF Tagged, Shape, Typed
  <2> QED BY <2>1, <2>2
<1>20. B2 \subseteq Chunks(hdr2, top)
  BY <1>1, <1>13 DEF Tagged
<1>21. \A q \in DOMAIN hdr2 : q # e => hdr2[q].prev_inuse = hdr[q].prev_inuse
  BY <1>8
<1>22. ASSUME NEW q \in Chunks(hdr2, top)
       PROVE  hdr2[End(hdr2, q)].prev_inuse <=> q \notin B2
  <2>1. q \in Chunks(hdr, top) /\ q \in DOMAIN hdr2 /\ q # n /\ hdr[q].size > 0
    BY <1>3, <1>13 DEF Chunks
  <2>2. CASE q = p BY <1>9, <1>11, <2>2
  <2>3. CASE q # p
    <3>1. End(hdr2, q) = End(hdr, q) /\ End(hdr, q) \in DOMAIN hdr
      BY <1>10, <2>1, <2>3, Follower
    <3>2. End(hdr, q) # e /\ End(hdr, q) # n
      BY <1>1, <1>2, <1>10, <2>1, <2>3
    <3>3. hdr[End(hdr, q)].prev_inuse <=> q \notin B BY <2>1 DEF Tagged
    <3> QED BY <1>21, <2>1, <2>3, <3>1, <3>2, <3>3
  <2> QED BY <2>2, <2>3
<1>23. ASSUME NEW q \in B2
       PROVE  hdr2[End(hdr2, q)].prev_size = hdr2[q].size /\ hdr2[q].prev_inuse
  <2>1. q \in Chunks(hdr, top) /\ q \in DOMAIN hdr2 /\ q # n /\ hdr[q].size > 0
    BY <1>3, <1>13, <1>20 DEF Chunks
  <2>2. CASE q = p BY <1>8, <1>9, <1>11, <2>2
  <2>3. CASE q # p
    <3>1. q \in B BY <2>1, <2>3
    <3>2. End(hdr2, q) = End(hdr, q) /\ End(hdr, q) \in DOMAIN hdr
      BY <1>10, <2>1, <2>3, Follower
    <3>3. End(hdr, q) # e /\ End(hdr, q) # n
      BY <1>1, <1>2, <1>10, <2>1, <2>3
    <3>4. hdr[End(hdr, q)].prev_size = hdr[q].size /\ hdr[q].prev_inuse /\ ~hdr[End(hdr, q)].prev_inuse
      BY <2>1, <3>1 DEF Tagged
    <3>5. hdr2[End(hdr, q)].prev_size = hdr[End(hdr, q)].prev_size
      BY <1>8, <3>2, <3>3, <3>4
    <3>6. hdr2[q].prev_inuse BY <1>9, <1>21, <3>1, <3>4, <2>1, <2>3
    <3> QED BY <1>10, <1>21, <2>1, <2>3, <3>2, <3>4, <3>5, <3>6
  <2> QED BY <2>2, <2>3
<1>24. ASSUME NEW q \in DOMAIN hdr2, ~hdr2[q].mmapped, ~hdr2[q].prev_inuse
       PROVE  q - hdr2[q].prev_size \in B2 /\ End(hdr2, q - hdr2[q].prev_size) = q
  <2>1. CASE q = e
    <3>1. p \in B2 /\ hdr2[q].prev_size = e - p BY <1>9, <1>24, <2>1
    <3>2. q - hdr2[q].prev_size = p BY <1>a, <2>1, <3>1
    <3> QED BY <1>11, <2>1, <3>1, <3>2
  <2>2. CASE q # e
    <3>1. ~hdr[q].prev_inuse /\ ~hdr[q].mmapped /\ hdr2[q].prev_size = hdr[q].prev_size
          /\ q \in DOMAIN hdr /\ q # n
      BY <1>8, <1>10, <1>21, <1>24, <2>2
    <3>2. q - hdr[q].prev_size \in B /\ End(hdr, q - hdr[q].prev_size) = q
      BY <3>1 DEF Tagged
    <3> DEFINE b == q - hdr[q].prev_size
    <3>3. b # p /\ b # n BY <2>2, <3>1, <3>2
    <3>4. b \in B2 BY <3>2, <3>3
    <3>5. b \in DOMAIN hdr2 BY <1>20, <3>4 DEF Chunks
    <3>6. End(hdr2, b) = q BY <1>10, <3>2, <3>3, <3>5
    <3> QED BY <3>1, <3>4, <3>6
  <2> QED BY <2>1, <2>2
<1>25. Tagged(hdr2, top, B2)
  BY <1>19, <1>20, <1>22, <1>23, <1>24 DEF Tagged
<1> QED BY <1>13, <1>18, <1>25

\* Chunk p ends at n, where another one starts.
Cuts(hdr, top, B, p, e, n, B2, x, y, w, hdr2) ==
  /\ p \in Chunks(hdr, top) /\ e = End(hdr, p)
  /\ n \in Nat /\ p + MINSIZE <= n /\ n + MINSIZE <= e /\ aligned_OK(n)
  /\ B2 \ {n} = B \ {p}
  /\ n \in B2 => e # top /\ e \notin B
  /\ x \in Nat /\ x <= e /\ (n \in B2 => x = e - n)
  /\ y \in Nat /\ y <= p /\ (hdr[p].prev_inuse \/ y = hdr[p].prev_size)
  /\ w \in Nat /\ w <= n
  /\ DOMAIN hdr2 = DOMAIN hdr \union {n}
  /\ hdr2[p] = Hd(n - p, hdr[p].prev_inuse, y, FALSE)
  /\ hdr2[n] = Hd(e - n, TRUE, w, FALSE)
  /\ hdr2[e] = Hd(hdr[e].size, n \notin B2, x, FALSE)
  /\ \A q \in DOMAIN hdr : q # p /\ q # e => hdr2[q] = hdr[q]

\* The chunk p, in use or free, ends at n, and the rest is a chunk of its own.
LEMMA Cut ==
  ASSUME NEW hdr, NEW top, NEW W, NEW c, NEW lo \in Nat, Shape(hdr, top, W, c, lo),
         NEW B, Tagged(hdr, top, B),
         NEW p, NEW e, NEW n, NEW B2, NEW x, NEW y, NEW w, NEW hdr2,
         Cuts(hdr, top, B, p, e, n, B2, x, y, w, hdr2)
  PROVE  /\ Shape(hdr2, top, W, c, lo) /\ Tagged(hdr2, top, B2)
         /\ n \notin DOMAIN hdr
         /\ Chunks(hdr2, top) = Chunks(hdr, top) \union {n}
<1> SUFFICES ASSUME p \in Chunks(hdr, top) /\ e = End(hdr, p),
                   n \in Nat /\ p + MINSIZE <= n /\ n + MINSIZE <= e /\ aligned_OK(n),
                   B2 \ {n} = B \ {p},
                   n \in B2 => e # top /\ e \notin B,
                   x \in Nat /\ x <= e /\ (n \in B2 => x = e - n),
                   y \in Nat /\ y <= p /\ (hdr[p].prev_inuse \/ y = hdr[p].prev_size),
                   w \in Nat /\ w <= n,
                   DOMAIN hdr2 = DOMAIN hdr \union {n},
                   hdr2[p] = Hd(n - p, hdr[p].prev_inuse, y, FALSE),
                   hdr2[n] = Hd(e - n, TRUE, w, FALSE),
                   hdr2[e] = Hd(hdr[e].size, n \notin B2, x, FALSE),
                   \A q \in DOMAIN hdr : q # p /\ q # e => hdr2[q] = hdr[q]
    PROVE  /\ Shape(hdr2, top, W, c, lo) /\ Tagged(hdr2, top, B2)
           /\ n \notin DOMAIN hdr
           /\ Chunks(hdr2, top) = Chunks(hdr, top) \union {n}
  BY DEF Cuts
<1>0. n \in Nat /\ w \in Nat /\ w <= n /\ lo \in Nat /\ aligned_OK(n)
  OBVIOUS
<1>1. /\ e \in DOMAIN hdr /\ e \in Nat /\ ~hdr[e].mmapped
      /\ p \in DOMAIN hdr /\ p \in Nat /\ p < e
      /\ e # top => End(hdr, e) \in DOMAIN hdr /\ ~hdr[End(hdr, e)].mmapped /\ e < End(hdr, e)
      /\ \A q \in DOMAIN hdr : End(hdr, q) = e /\ hdr[q].size > 0 => q = p
  BY Follower
<1>2. /\ \A q \in DOMAIN hdr : q \in Nat /\ hdr[q] \in AnyHeader /\ hdr[q].prev_size <= q
      /\ \A q \in DOMAIN hdr : q # top => q > 0 /\ hdr[q].size > 0
  BY DEF Shape, Typed
<1>3. ~hdr[p].mmapped /\ p # top /\ hdr[p].size >= MINSIZE
  BY DEF Chunks
<1>4. /\ hdr[p].size \in Nat /\ hdr[p].prev_inuse \in BOOLEAN /\ hdr[p].mmapped = FALSE
      /\ hdr[e].size \in Nat /\ hdr[e].mmapped = FALSE
  BY <1>1, <1>2, <1>3 DEF AnyHeader
<1>b. /\ p \in Nat /\ e \in Nat /\ n \in Nat /\ p + MINSIZE <= n /\ n + MINSIZE <= e
      /\ MINSIZE \in Nat /\ MINSIZE > 0
  BY <1>1, Units
<1>5. p \in Nat /\ e \in Nat /\ n \in Nat /\ p < n /\ n < e
  BY ONLY <1>b
<1>c. /\ n - p \in Nat /\ e - n \in Nat /\ n - p > 0 /\ e - n > 0
      /\ p + (n - p) = n /\ n + (e - n) = e /\ e - (e - n) = n
  BY ONLY <1>5
<1>d. n - p >= MINSIZE /\ e - n >= MINSIZE
  BY ONLY <1>b
<1>6. n \notin DOMAIN hdr
  <2> SUFFICES ASSUME n \in DOMAIN hdr PROVE FALSE
    OBVIOUS
  <2>1. Start(hdr, n) <= n /\ Start(hdr, n) \in Int BY <1>2 DEF Start, AnyHeader
  <2>2. e <= Start(hdr, n) BY <1>1, <1>5 DEF Shape, Apart
  <2> QED BY <1>1, <1>5, <2>1, <2>2
<1>7. (n \notin B2) \in BOOLEAN
  OBVIOUS
<1>8. /\ hdr2[p] \in AnyHeader /\ hdr2[p].size = n - p /\ hdr2[p].prev_inuse = hdr[p].prev_inuse
      /\ hdr2[p].prev_size = y /\ hdr2[p].mmapped = FALSE
  <2>1. hdr2[p] = Hd(n - p, hdr[p].prev_inuse, y, FALSE) /\ y \in Nat
    OBVIOUS
  <2> QED BY ONLY <1>4, <1>c, <2>1 DEF Hd, AnyHeader
<1>9. /\ hdr2[e] \in AnyHeader /\ hdr2[e].size = hdr[e].size /\ hdr2[e].prev_inuse = (n \notin B2)
      /\ hdr2[e].prev_size = x /\ hdr2[e].mmapped = FALSE
  <2>1. hdr2[e] = Hd(hdr[e].size, n \notin B2, x, FALSE) /\ x \in Nat
    OBVIOUS
  <2> QED BY ONLY <1>4, <1>7, <2>1 DEF Hd, AnyHeader
<1>10. /\ hdr2[n] \in AnyHeader /\ hdr2[n].size = e - n /\ hdr2[n].prev_inuse = TRUE
       /\ hdr2[n].prev_size = w /\ hdr2[n].mmapped = FALSE
  <2>1. hdr2[n] = Hd(e - n, TRUE, w, FALSE) /\ w \in Nat
    OBVIOUS
  <2> QED BY ONLY <1>c, <2>1 DEF Hd, AnyHeader
<1>11. /\ End(hdr2, p) = n /\ End(hdr2, n) = e
       /\ Start(hdr2, p) = p /\ Start(hdr2, n) = n /\ Start(hdr, p) = p
       /\ p # n /\ e # n /\ e # p
  <2>1. /\ End(hdr2, p) = p + hdr2[p].size /\ End(hdr2, n) = n + hdr2[n].size
        /\ Start(hdr2, p) = p /\ Start(hdr2, n) = n /\ Start(hdr, p) = p
    BY <1>3, <1>8, <1>10 DEF End, Start
  <2>2. p # n /\ e # n /\ e # p BY ONLY <1>5
  <2> QED BY ONLY <1>c, <1>8, <1>10, <2>1, <2>2
<1>12. \A q \in DOMAIN hdr :
         /\ q # n /\ q \in DOMAIN hdr2
         /\ hdr2[q] \in AnyHeader /\ hdr2[q].mmapped = hdr[q].mmapped /\ hdr2[q].prev_size <= q
         /\ Start(hdr2, q) = Start(hdr, q)
         /\ q # p => hdr2[q].size = hdr[q].size /\ End(hdr2, q) = End(hdr, q)
  <2>1. ASSUME NEW q \in DOMAIN hdr
        PROVE  /\ q # n /\ q \in DOMAIN hdr2
               /\ hdr2[q] \in AnyHeader /\ hdr2[q].mmapped = hdr[q].mmapped /\ hdr2[q].prev_size <= q
               /\ Start(hdr2, q) = Start(hdr, q)
               /\ q # p => hdr2[q].size = hdr[q].size /\ End(hdr2, q) = End(hdr, q)
    <3>1. CASE q = p BY <1>4, <1>6, <1>8, <1>11, <3>1
    <3>2. CASE q = e BY <1>1, <1>4, <1>6, <1>9, <3>2 DEF Start, End
    <3>3. CASE q # p /\ q # e BY <1>2, <1>6, <3>3 DEF Start, End
    <3> QED BY <3>1, <3>2, <3>3
  <2> QED BY <2>1
<1>13. Chunks(hdr2, top) = Chunks(hdr, top) \union {n}
  <2>1. n # top BY <1>6 DEF Shape, Typed
  <2>2. n \in Chunks(hdr2, top) /\ p \in Chunks(hdr2, top)
    BY <1>1, <1>3, <1>d, <1>8, <1>10, <2>1 DEF Chunks
  <2> QED BY <1>12, <2>2 DEF Chunks
<1>14. Typed(hdr2, top)
  <2>1. top \in DOMAIN hdr2 /\ ~hdr2[top].mmapped /\ hdr2[top].size = hdr[top].size
    BY <1>3, <1>12 DEF Shape, Typed
  <2>2. aligned_OK(hdr2[p].size) /\ aligned_OK(hdr2[n].size)
    <3>1. aligned_OK(e) /\ aligned_OK(p) /\ aligned_OK(n) BY <1>1 DEF Shape, Typed
    <3> QED BY ONLY <1>0, <1>1, <1>8, <1>10, <3>1, AlignedSum
  <2>3. \A q \in DOMAIN hdr : /\ q # top => hdr[q].size > 0
                              /\ q # top /\ ~hdr[q].mmapped => aligned_OK(hdr[q].size)
                              /\ aligned_OK(q) /\ q \in Nat /\ (q # top => q > 0)
    BY DEF Shape, Typed
  <2>4. \A q \in DOMAIN hdr2 : /\ q \in Nat /\ aligned_OK(q) /\ hdr2[q] \in AnyHeader /\ hdr2[q].prev_size <= q
                               /\ q # top => q > 0 /\ hdr2[q].size > 0
                               /\ q # top /\ ~hdr2[q].mmapped => aligned_OK(hdr2[q].size)
    <3> SUFFICES ASSUME NEW q \in DOMAIN hdr2
                 PROVE  /\ q \in Nat /\ aligned_OK(q) /\ hdr2[q] \in AnyHeader /\ hdr2[q].prev_size <= q
                        /\ q # top => q > 0 /\ hdr2[q].size > 0
                        /\ q # top /\ ~hdr2[q].mmapped => aligned_OK(hdr2[q].size)
      OBVIOUS
    <3>1. CASE q = n
      <4>1. n > 0 BY ONLY <1>5
      <4>2. hdr2[n].size > 0 BY ONLY <1>c, <1>10
      <4> QED BY ONLY <1>0, <1>10, <2>2, <3>1, <4>1, <4>2
    <3>2. CASE q = p BY <1>1, <1>c, <1>8, <1>12, <2>2, <2>3, <3>2
    <3>3. CASE q # n /\ q # p BY <1>12, <2>3, <3>3
    <3> QED BY <3>1, <3>2, <3>3
  <2> QED BY <2>1, <2>4 DEF Shape, Typed
<1>15. Apart(hdr2)
  <2> SUFFICES ASSUME NEW a \in DOMAIN hdr2, NEW b \in DOMAIN hdr2, a < b
               PROVE  End(hdr2, a) <= Start(hdr2, b)
    BY DEF Apart
  <2>1. CASE a # n /\ b # n
    <3>1. End(hdr, a) <= Start(hdr, b) /\ a \in DOMAIN hdr /\ b \in DOMAIN hdr
      BY <2>1 DEF Shape, Apart
    <3>2. Start(hdr, b) \in Int BY <1>2, <3>1 DEF Start, AnyHeader
    <3>3. Start(hdr2, b) = Start(hdr, b) /\ (a # p => End(hdr2, a) = End(hdr, a))
      BY <1>12, <3>1
    <3>4. e \in Nat /\ n < e /\ End(hdr, p) = e /\ End(hdr2, p) = n /\ n \in Nat
      BY <1>1, <1>5, <1>11
    <3> QED BY ONLY <3>1, <3>2, <3>3, <3>4
  <2>2. CASE a = n
    <3>1. b \in DOMAIN hdr /\ b > p /\ b \in Nat /\ b # n
      <4>1. b \in DOMAIN hdr /\ n < b /\ b \in Nat BY <1>2, <2>2
      <4> QED BY ONLY <1>5, <4>1
    <3>2. End(hdr, p) <= Start(hdr, b) BY <1>1, <3>1 DEF Shape, Apart
    <3> QED BY <1>11, <1>12, <2>2, <3>1, <3>2
  <2>3. CASE b = n /\ a = p
    BY <1>5, <1>11, <2>3
  <2>4. CASE b = n /\ a # p
    <3>1. a \in DOMAIN hdr /\ a # n /\ a \in Nat /\ a < n BY <1>2, <1>5, <2>4
    <3>2. a < p
      <4> SUFFICES ASSUME p < a PROVE FALSE
        BY <1>1, <2>4, <3>1
      <4>1. e <= Start(hdr, a) BY <1>1, <3>1 DEF Shape, Apart
      <4>2. Start(hdr, a) <= a /\ Start(hdr, a) \in Int BY <1>2, <3>1 DEF Start, AnyHeader
      <4> QED BY <1>1, <1>5, <3>1, <4>1, <4>2
    <3>3. End(hdr, a) <= p BY <1>1, <1>11, <3>1, <3>2 DEF Shape, Apart
    <3>4. End(hdr, a) \in Int BY <1>2, <3>1 DEF End, AnyHeader
    <3>5. End(hdr2, a) = End(hdr, a) BY <1>12, <2>4, <3>1
    <3> QED BY <1>1, <1>5, <1>11, <2>4, <3>3, <3>4, <3>5
  <2> QED BY <2>1, <2>2, <2>3, <2>4
<1>16. Joined(hdr2, top)
  <2> SUFFICES ASSUME NEW q \in Chunks(hdr2, top)
               PROVE  /\ End(hdr2, q) \in DOMAIN hdr2 /\ ~hdr2[End(hdr2, q)].mmapped
                      /\ \A r \in DOMAIN hdr2 : r = End(hdr2, q) /\ r # top =>
                           End(hdr2, r) \in DOMAIN hdr2 /\ ~hdr2[End(hdr2, r)].mmapped
    BY DEF Joined
  <2>1. ~hdr2[e].mmapped /\ ~hdr2[n].mmapped /\ e \in DOMAIN hdr2 /\ n \in DOMAIN hdr2
    BY <1>1, <1>9, <1>10
  <2>2. e # top => End(hdr2, e) \in DOMAIN hdr2 /\ ~hdr2[End(hdr2, e)].mmapped
    BY <1>1, <1>11, <1>12
  <2>3. CASE q = p BY ONLY <1>11, <2>1, <2>3
  <2>4. CASE q = n BY ONLY <1>11, <2>1, <2>2, <2>4
  <2>5. CASE q # p /\ q # n
    <3>1. q \in Chunks(hdr, top) /\ q \in DOMAIN hdr BY <1>13, <2>5 DEF Chunks
    <3>2. End(hdr2, q) = End(hdr, q) /\ End(hdr, q) \in DOMAIN hdr /\ ~hdr[End(hdr, q)].mmapped
      BY <1>12, <2>5, <3>1, Follower
    <3>3. End(hdr2, q) \in DOMAIN hdr2 /\ ~hdr2[End(hdr2, q)].mmapped
      BY <1>12, <3>2
    <3>4. ASSUME NEW r \in DOMAIN hdr2, r = End(hdr, q), r # top, r # p
          PROVE  End(hdr2, r) \in DOMAIN hdr2 /\ ~hdr2[End(hdr2, r)].mmapped
      <4>1. End(hdr, r) \in DOMAIN hdr /\ ~hdr[End(hdr, r)].mmapped /\ End(hdr2, r) = End(hdr, r)
        BY <1>12, <3>1, <3>2, <3>4, Follower
      <4> QED BY <1>12, <4>1
    <3> QED BY <1>11, <2>1, <3>2, <3>3, <3>4
  <2> QED BY <2>3, <2>4, <2>5
<1>17. Inside(hdr2, top, W, c, lo)
  <2>1. \A z \in Nat : p <= z /\ z < e => z \in W
    BY <1>1, <1>11 DEF Shape, Inside
  <2>2. c => lo <= p /\ p <= top /\ e <= top
    <3>1. c => lo <= p /\ p <= top /\ e <= top
      BY <1>1, <1>3 DEF Shape, Inside
    <3> QED BY <3>1
  <2>3. top \in Nat BY DEF Shape, Typed
  <2> SUFFICES ASSUME NEW q \in DOMAIN hdr2
               PROVE  /\ \A z \in Nat : Start(hdr2, q) <= z /\ z < End(hdr2, q) => z \in W
                      /\ c /\ ~hdr2[q].mmapped => lo <= q /\ q <= top
    BY DEF Inside
  <2>4. CASE q = n
    <3>1. c => lo <= n /\ n <= top
      BY ONLY <1>0, <1>5, <2>2, <2>3
    <3> QED BY ONLY <1>5, <1>11, <2>1, <2>4, <3>1
  <2>5. CASE q = p
    BY ONLY <1>5, <1>11, <2>1, <2>2, <2>5
  <2>6. CASE q # n /\ q # p BY <1>12, <2>6 DEF Shape, Inside
  <2> QED BY <2>4, <2>5, <2>6
<1>18. Shape(hdr2, top, W, c, lo)
  BY <1>14, <1>15, <1>16, <1>17 DEF Shape
<1>19. hdr2[top].prev_inuse
  <2>1. CASE top = e
    BY <1>9, <2>1
  <2>2. CASE top # e
    BY <1>3, <2>2 DEF Tagged, Shape, Typed
  <2> QED BY <2>1, <2>2
<1>20. B2 \subseteq Chunks(hdr2, top)
  BY <1>1, <1>13 DEF Tagged
<1>21. \A q \in DOMAIN hdr : q # e => hdr2[q].prev_inuse = hdr[q].prev_inuse
  BY <1>8
<1>22. ASSUME NEW q \in Chunks(hdr2, top)
       PROVE  hdr2[End(hdr2, q)].prev_inuse <=> q \notin B2
  <2>1. n \notin B BY <1>6 DEF Tagged, Chunks
  <2>2. CASE q = p BY ONLY <1>10, <1>11, <2>2, B2 \ {n} = B \ {p}
  <2>3. CASE q = n BY ONLY <1>9, <1>11, <2>3
  <2>4. CASE q # p /\ q # n
    <3>1. q \in Chunks(hdr, top) /\ q \in DOMAIN hdr /\ hdr[q].size > 0
      BY <1>2, <1>13, <2>4 DEF Chunks
    <3>2. End(hdr2, q) = End(hdr, q) /\ End(hdr, q) \in DOMAIN hdr
      BY <1>12, <2>4, <3>1, Follower
    <3>3. End(hdr, q) # e BY <1>1, <2>4, <3>1
    <3>4. hdr[End(hdr, q)].prev_inuse <=> q \notin B BY <3>1 DEF Tagged
    <3> QED BY <1>21, <2>4, <3>2, <3>3, <3>4
  <2> QED BY <2>2, <2>3, <2>4
<1>23. ASSUME NEW q \in B2
       PROVE  hdr2[End(hdr2, q)].prev_size = hdr2[q].size /\ hdr2[q].prev_inuse
  <2>1. CASE q = n BY ONLY <1>9, <1>10, <1>11, <1>23, <2>1, n \in B2 => x = e - n
  <2>2. CASE q # n
    <3>1. q \in B /\ q # p BY <2>2
    <3>2. q \in Chunks(hdr, top) /\ q \in DOMAIN hdr /\ hdr[q].size > 0
      BY <1>2, <3>1 DEF Chunks, Tagged
    <3>3. End(hdr2, q) = End(hdr, q) /\ End(hdr, q) \in DOMAIN hdr /\ hdr2[q].size = hdr[q].size
      BY <1>12, <3>1, <3>2, Follower
    <3>4. End(hdr, q) # e BY <1>1, <3>1, <3>2
    <3>5. hdr[End(hdr, q)].prev_size = hdr[q].size /\ hdr[q].prev_inuse /\ ~hdr[End(hdr, q)].prev_inuse
      BY <3>1, <3>2 DEF Tagged
    <3>6. hdr2[End(hdr, q)].prev_size = hdr[End(hdr, q)].prev_size
      BY <1>8, <3>3, <3>4, <3>5
    <3>7. hdr2[q].prev_inuse BY <1>9, <1>21, <3>1, <3>2, <3>5
    <3> QED BY <3>3, <3>5, <3>6, <3>7
  <2> QED BY <2>1, <2>2
<1>24. ASSUME NEW q \in DOMAIN hdr2, ~hdr2[q].mmapped, ~hdr2[q].prev_inuse
       PROVE  q - hdr2[q].prev_size \in B2 /\ End(hdr2, q - hdr2[q].prev_size) = q
  <2>1. CASE q = e
    <3>1. n \in B2 /\ hdr2[q].prev_size = e - n BY <1>9, <1>24, <2>1
    <3>2. q - hdr2[q].prev_size = n BY <1>c, <2>1, <3>1
    <3> QED BY <1>11, <2>1, <3>1, <3>2
  <2>2. CASE q # e
    <3>1. ~hdr[q].prev_inuse /\ ~hdr[q].mmapped /\ hdr2[q].prev_size = hdr[q].prev_size
          /\ q \in DOMAIN hdr
      BY <1>8, <1>10, <1>12, <1>21, <1>24, <2>2
    <3> DEFINE b == q - hdr[q].prev_size
    <3>2. b \in B /\ End(hdr, b) = q
      BY <3>1 DEF Tagged
    <3>3. b # p BY <2>2, <3>2
    <3>4. b \in B2 /\ b \in DOMAIN hdr BY <3>2, <3>3 DEF Tagged, Chunks
    <3>5. End(hdr2, b) = q BY <1>12, <3>2, <3>3, <3>4
    <3> QED BY <3>1, <3>4, <3>5
  <2> QED BY <2>1, <2>2
<1>25. Tagged(hdr2, top, B2)
  BY <1>19, <1>20, <1>22, <1>23, <1>24 DEF Tagged
<1> QED BY <1>6, <1>13, <1>18, <1>25

\* Top starts at the chunk p before it.
JoinsTop(hdr, top, B, p, e, y, hdr2) ==
  /\ p \in Chunks(hdr, top) /\ p \notin B /\ top = End(hdr, p) /\ hdr[p].prev_inuse
  /\ e = End(hdr, top)
  /\ y \in Nat /\ y <= p
  /\ DOMAIN hdr2 = DOMAIN hdr \ {top}
  /\ hdr2[p] = Hd(e - p, TRUE, y, FALSE)
  /\ \A q \in DOMAIN hdr \ {top} : q # p => hdr2[q] = hdr[q]

\* The chunk p before top becomes part of top.
LEMMA JoinTop ==
  ASSUME NEW hdr, NEW top, NEW W, NEW c, NEW lo \in Nat, Shape(hdr, top, W, c, lo),
         NEW B, Tagged(hdr, top, B),
         NEW p, NEW e, NEW y, NEW hdr2,
         JoinsTop(hdr, top, B, p, e, y, hdr2)
  PROVE  /\ Shape(hdr2, p, W, c, lo) /\ Tagged(hdr2, p, B)
         /\ Chunks(hdr2, p) = Chunks(hdr, top) \ {p}
<1> SUFFICES ASSUME p \in Chunks(hdr, top) /\ p \notin B /\ top = End(hdr, p) /\ hdr[p].prev_inuse,
                   e = End(hdr, top),
                   y \in Nat /\ y <= p,
                   DOMAIN hdr2 = DOMAIN hdr \ {top},
                   hdr2[p] = Hd(e - p, TRUE, y, FALSE),
                   \A q \in DOMAIN hdr \ {top} : q # p => hdr2[q] = hdr[q]
    PROVE  /\ Shape(hdr2, p, W, c, lo) /\ Tagged(hdr2, p, B)
           /\ Chunks(hdr2, p) = Chunks(hdr, top) \ {p}
  BY DEF JoinsTop
<1>1. /\ p \in DOMAIN hdr /\ p \in Nat /\ p < top /\ top \in DOMAIN hdr /\ top \in Nat
      /\ \A q \in DOMAIN hdr : End(hdr, q) = top /\ hdr[q].size > 0 => q = p
  BY Follower
<1>2. \A q \in DOMAIN hdr : /\ q \in Nat /\ hdr[q] \in AnyHeader /\ hdr[q].prev_size <= q
                            /\ aligned_OK(q)
                            /\ q # top => q > 0 /\ hdr[q].size > 0
                            /\ q # top /\ ~hdr[q].mmapped => aligned_OK(hdr[q].size)
  BY DEF Shape, Typed
<1>3. /\ ~hdr[p].mmapped /\ ~hdr[top].mmapped /\ hdr[p].size >= MINSIZE /\ hdr[top].size >= MINSIZE
  BY <1>1 DEF Chunks, Shape, Typed, NIL
<1>4. hdr[p].size \in Nat /\ hdr[top].size \in Nat /\ hdr[p].mmapped = FALSE
  BY <1>1, <1>2, <1>3 DEF AnyHeader
<1>5. e \in Nat /\ e - p \in Nat /\ p + (e - p) = e /\ top < e /\ e - p >= MINSIZE /\ p # NIL
  <2>1. e = top + hdr[top].size /\ top = p + hdr[p].size BY DEF End
  <2>2. MINSIZE \in Nat /\ MINSIZE > 0 BY Units
  <2>3. p > 0 BY <1>1, <1>2
  <2> QED BY ONLY <1>1, <1>3, <1>4, <2>1, <2>2, <2>3 DEF NIL
<1>6. /\ hdr2[p] \in AnyHeader /\ hdr2[p].size = e - p /\ hdr2[p].prev_inuse = TRUE
      /\ hdr2[p].prev_size = y /\ hdr2[p].mmapped = FALSE
  <2>1. hdr2[p] = Hd(e - p, TRUE, y, FALSE) /\ y \in Nat
    OBVIOUS
  <2> QED BY ONLY <1>5, <2>1 DEF Hd, AnyHeader
<1>7. End(hdr2, p) = e /\ Start(hdr2, p) = p /\ Start(hdr, p) = p /\ p \in DOMAIN hdr2
  <2>1. End(hdr2, p) = p + hdr2[p].size /\ Start(hdr2, p) = p /\ Start(hdr, p) = p
    BY ONLY <1>3, <1>6 DEF End, Start
  <2> QED BY <1>1, <1>5, <1>6, <2>1
<1>8. \A q \in DOMAIN hdr2 :
         /\ q \in DOMAIN hdr /\ q # top
         /\ hdr2[q] \in AnyHeader /\ hdr2[q].mmapped = hdr[q].mmapped /\ hdr2[q].prev_size <= q
         /\ Start(hdr2, q) = Start(hdr, q) /\ hdr2[q].prev_inuse = hdr[q].prev_inuse
         /\ q # p => hdr2[q] = hdr[q] /\ End(hdr2, q) = End(hdr, q)
  <2>1. ASSUME NEW q \in DOMAIN hdr2
        PROVE  /\ q \in DOMAIN hdr /\ q # top
               /\ hdr2[q] \in AnyHeader /\ hdr2[q].mmapped = hdr[q].mmapped /\ hdr2[q].prev_size <= q
               /\ Start(hdr2, q) = Start(hdr, q) /\ hdr2[q].prev_inuse = hdr[q].prev_inuse
               /\ q # p => hdr2[q] = hdr[q] /\ End(hdr2, q) = End(hdr, q)
    <3>1. CASE q = p
      <4>1. hdr[p].prev_inuse = TRUE BY <1>1, <1>2 DEF AnyHeader
      <4> QED BY <1>1, <1>4, <1>6, <1>7, <3>1, <4>1
    <3>2. CASE q # p BY <1>2, <3>2 DEF Start, End
    <3> QED BY <3>1, <3>2
  <2> QED BY <2>1
<1>9. Chunks(hdr2, p) = Chunks(hdr, top) \ {p}
  BY <1>8 DEF Chunks
<1>10. \A q \in DOMAIN hdr2 : q # p => q < p \/ e <= Start(hdr, q)
  <2> SUFFICES ASSUME NEW q \in DOMAIN hdr2, q # p, ~(q < p)
               PROVE  e <= Start(hdr, q)
    OBVIOUS
  <2>1. q \in DOMAIN hdr /\ q # top /\ q \in Nat /\ p < q BY <1>1, <1>2, <1>8
  <2>2. top <= Start(hdr, q) BY <1>1, <2>1 DEF Shape, Apart
  <2>3. Start(hdr, q) \in Int /\ Start(hdr, q) <= q BY <1>2, <2>1 DEF Start, AnyHeader
  <2>4. top < q BY <1>1, <2>1, <2>2, <2>3
  <2> QED BY <1>1, <2>1, <2>4 DEF Shape, Apart
<1>11. Typed(hdr2, p)
  <2>1. hdr2[p].size >= MINSIZE BY <1>5, <1>6
  <2> QED BY <1>2, <1>5, <1>6, <1>7, <1>8, <2>1 DEF Typed
<1>12. Apart(hdr2)
  <2> SUFFICES ASSUME NEW a \in DOMAIN hdr2, NEW b \in DOMAIN hdr2, a < b
               PROVE  End(hdr2, a) <= Start(hdr2, b)
    BY DEF Apart
  <2>1. CASE a = p
    <3>1. b # p /\ ~(b < p) BY <1>1, <1>2, <1>8, <2>1
    <3> QED BY <1>7, <1>8, <1>10, <2>1, <3>1
  <2>2. CASE a # p
    BY <1>8, <2>2 DEF Shape, Apart
  <2> QED BY <2>1, <2>2
<1>13. Joined(hdr2, p)
  <2> SUFFICES ASSUME NEW q \in Chunks(hdr2, p)
               PROVE  /\ End(hdr2, q) \in DOMAIN hdr2 /\ ~hdr2[End(hdr2, q)].mmapped
                      /\ \A r \in DOMAIN hdr2 : r = End(hdr2, q) /\ r # p =>
                           End(hdr2, r) \in DOMAIN hdr2 /\ ~hdr2[End(hdr2, r)].mmapped
    BY DEF Joined
  <2>1. q \in Chunks(hdr, top) /\ q \in DOMAIN hdr2 /\ q # p /\ hdr[q].size > 0
    BY <1>2, <1>9 DEF Chunks
  <2>2. End(hdr2, q) = End(hdr, q) /\ End(hdr, q) \in DOMAIN hdr /\ ~hdr[End(hdr, q)].mmapped
    BY <1>8, <2>1, Follower
  <2>3. End(hdr, q) # top BY <1>1, <1>8, <2>1
  <2>4. ASSUME NEW r \in DOMAIN hdr2, r = End(hdr, q), r # p
        PROVE  End(hdr2, r) \in DOMAIN hdr2 /\ ~hdr2[End(hdr2, r)].mmapped
    <3>1. End(hdr, r) \in DOMAIN hdr /\ ~hdr[End(hdr, r)].mmapped /\ End(hdr2, r) = End(hdr, r)
          /\ hdr[r].size > 0
      BY <1>2, <1>8, <2>1, <2>3, <2>4, Follower
    <3>2. End(hdr, r) # top BY <1>1, <1>8, <2>4, <3>1
    <3> QED BY <1>8, <3>1, <3>2
  <2> QED BY <1>8, <2>2, <2>3, <2>4
<1>14. Inside(hdr2, p, W, c, lo)
  <2>1. ASSUME NEW q \in DOMAIN hdr2, c, ~hdr2[q].mmapped
        PROVE  lo <= q /\ q <= p
    <3>1. lo <= q /\ q <= top /\ Start(hdr, q) = q /\ q \in Nat
      BY <1>2, <1>8, <2>1 DEF Shape, Inside, Start
    <3> QED BY <1>1, <1>5, <1>10, <3>1
  <2>2. ASSUME NEW q \in DOMAIN hdr2, NEW z \in Nat, Start(hdr2, q) <= z, z < End(hdr2, q)
        PROVE  z \in W
    <3>1. CASE q # p BY <1>8, <2>2, <3>1 DEF Shape, Inside
    <3>2. CASE q = p
      <4>1. Start(hdr, top) = top BY <1>3 DEF Start
      <4>2. CASE z < top BY <1>1, <1>7, <2>2, <3>2, <4>2 DEF Shape, Inside
      <4>3. CASE top <= z BY <1>1, <1>7, <2>2, <3>2, <4>1, <4>3 DEF Shape, Inside
      <4> QED BY <1>1, <4>2, <4>3
    <3> QED BY <3>1, <3>2
  <2> QED BY <2>1, <2>2 DEF Inside
<1>15. Shape(hdr2, p, W, c, lo)
  BY <1>11, <1>12, <1>13, <1>14 DEF Shape
<1>16. B \subseteq Chunks(hdr2, p)
  BY <1>9 DEF Tagged
<1>17. ASSUME NEW q \in Chunks(hdr2, p)
       PROVE  /\ hdr2[End(hdr2, q)].prev_inuse <=> q \notin B
              /\ q \in B => hdr2[End(hdr2, q)].prev_size = hdr2[q].size /\ hdr2[q].prev_inuse
  <2>1. q \in Chunks(hdr, top) /\ q \in DOMAIN hdr2 /\ q # p /\ hdr[q].size > 0
    BY <1>2, <1>9 DEF Chunks
  <2>2. End(hdr2, q) = End(hdr, q) /\ End(hdr, q) \in DOMAIN hdr /\ End(hdr, q) # top
    BY <1>1, <1>8, <2>1, Follower
  <2>3. hdr[End(hdr, q)].prev_inuse <=> q \notin B
    BY <2>1 DEF Tagged
  <2>4. q \in B => hdr[End(hdr, q)].prev_size = hdr[q].size /\ hdr[q].prev_inuse /\ End(hdr, q) # p
    BY <2>3 DEF Tagged
  <2> QED BY <1>8, <2>1, <2>2, <2>3, <2>4
<1>18. ASSUME NEW q \in DOMAIN hdr2, ~hdr2[q].mmapped, ~hdr2[q].prev_inuse
       PROVE  q - hdr2[q].prev_size \in B /\ End(hdr2, q - hdr2[q].prev_size) = q
  <2>1. q # p /\ hdr2[q] = hdr[q] /\ q \in DOMAIN hdr BY <1>6, <1>8, <1>18
  <2> DEFINE b == q - hdr[q].prev_size
  <2>2. b \in B /\ End(hdr, b) = q BY <1>18, <2>1 DEF Tagged
  <2>3. b \in DOMAIN hdr2 /\ b # p BY <1>16, <2>2 DEF Chunks
  <2> QED BY <1>8, <2>1, <2>2, <2>3
<1>19. Tagged(hdr2, p, B)
  BY <1>6, <1>16, <1>17, <1>18 DEF Tagged
<1> QED BY <1>9, <1>15, <1>19

\* Top moves to n; what it leaves is a chunk.
CutsTop(hdr, top, e, n, y, w, hdr2) ==
  /\ e = End(hdr, top)
  /\ n \in Nat /\ top + MINSIZE <= n /\ n + MINSIZE <= e /\ aligned_OK(n)
  /\ y \in Nat /\ y <= top /\ w \in Nat /\ w <= n
  /\ DOMAIN hdr2 = DOMAIN hdr \union {n}
  /\ hdr2[top] = Hd(n - top, TRUE, y, FALSE)
  /\ hdr2[n] = Hd(e - n, TRUE, w, FALSE)
  /\ \A q \in DOMAIN hdr : q # top => hdr2[q] = hdr[q]

\* What was top ends at n, where top is now.
LEMMA CutTop ==
  ASSUME NEW hdr, NEW top, NEW W, NEW c, NEW lo \in Nat, Shape(hdr, top, W, c, lo),
         NEW B, Tagged(hdr, top, B),
         NEW e, NEW n, NEW y, NEW w, NEW hdr2,
         CutsTop(hdr, top, e, n, y, w, hdr2)
  PROVE  /\ Shape(hdr2, n, W, c, lo) /\ Tagged(hdr2, n, B)
         /\ n \notin DOMAIN hdr
         /\ Chunks(hdr2, n) = Chunks(hdr, top) \union {top}
<1> SUFFICES ASSUME e = End(hdr, top),
                   n \in Nat /\ top + MINSIZE <= n /\ n + MINSIZE <= e /\ aligned_OK(n),
                   y \in Nat /\ y <= top /\ w \in Nat /\ w <= n,
                   DOMAIN hdr2 = DOMAIN hdr \union {n},
                   hdr2[top] = Hd(n - top, TRUE, y, FALSE),
                   hdr2[n] = Hd(e - n, TRUE, w, FALSE),
                   \A q \in DOMAIN hdr : q # top => hdr2[q] = hdr[q]
    PROVE  /\ Shape(hdr2, n, W, c, lo) /\ Tagged(hdr2, n, B)
           /\ n \notin DOMAIN hdr
           /\ Chunks(hdr2, n) = Chunks(hdr, top) \union {top}
  BY DEF CutsTop
<1>1. \A q \in DOMAIN hdr : /\ q \in Nat /\ hdr[q] \in AnyHeader /\ hdr[q].prev_size <= q
                            /\ aligned_OK(q)
                            /\ q # top => q > 0 /\ hdr[q].size > 0
                            /\ q # top /\ ~hdr[q].mmapped => aligned_OK(hdr[q].size)
  BY DEF Shape, Typed
<1>2. /\ top \in DOMAIN hdr /\ top \in Nat /\ hdr[top].size \in Nat /\ hdr[top].mmapped = FALSE
      /\ hdr[top].prev_inuse = TRUE /\ e = top + hdr[top].size /\ e \in Nat
      /\ (top = NIL => hdr[top].size = 0)
  BY <1>1 DEF AnyHeader, Shape, Typed, Tagged, End
<1>3. MINSIZE \in Nat /\ MINSIZE > 0 /\ n \in Nat /\ top + MINSIZE <= n /\ n + MINSIZE <= e
  BY Units
<1>4. top < n /\ n < e /\ top > 0
  <2>1. top < n /\ n < e BY ONLY <1>2, <1>3
  <2>2. top # NIL BY ONLY <1>2, <2>1, <1>3 DEF NIL
  <2> QED BY ONLY <1>2, <2>1, <2>2 DEF NIL
<1>5. /\ n - top \in Nat /\ e - n \in Nat /\ n - top > 0 /\ e - n > 0
      /\ top + (n - top) = n /\ n + (e - n) = e
  BY ONLY <1>2, <1>3, <1>4
<1>6. n - top >= MINSIZE /\ e - n >= MINSIZE
  BY ONLY <1>2, <1>3
<1>7. n \notin DOMAIN hdr
  <2> SUFFICES ASSUME n \in DOMAIN hdr PROVE FALSE
    OBVIOUS
  <2>1. Start(hdr, n) <= n /\ Start(hdr, n) \in Int BY <1>1 DEF Start, AnyHeader
  <2>2. e <= Start(hdr, n) BY <1>2, <1>4 DEF Shape, Apart
  <2> QED BY ONLY <1>2, <1>3, <1>4, <2>1, <2>2
<1>8. /\ hdr2[top] \in AnyHeader /\ hdr2[top].size = n - top /\ hdr2[top].prev_inuse = TRUE
      /\ hdr2[top].prev_size = y /\ hdr2[top].mmapped = FALSE
  <2>1. hdr2[top] = Hd(n - top, TRUE, y, FALSE) /\ y \in Nat
    OBVIOUS
  <2> QED BY ONLY <1>5, <2>1 DEF Hd, AnyHeader
<1>9. /\ hdr2[n] \in AnyHeader /\ hdr2[n].size = e - n /\ hdr2[n].prev_inuse = TRUE
      /\ hdr2[n].prev_size = w /\ hdr2[n].mmapped = FALSE
  <2>1. hdr2[n] = Hd(e - n, TRUE, w, FALSE) /\ w \in Nat
    OBVIOUS
  <2> QED BY ONLY <1>5, <2>1 DEF Hd, AnyHeader
<1>10. /\ End(hdr2, top) = n /\ End(hdr2, n) = e
       /\ Start(hdr2, top) = top /\ Start(hdr2, n) = n /\ Start(hdr, top) = top
  <2>1. /\ End(hdr2, top) = top + hdr2[top].size /\ End(hdr2, n) = n + hdr2[n].size
        /\ Start(hdr2, top) = top /\ Start(hdr2, n) = n /\ Start(hdr, top) = top
    BY <1>2, <1>8, <1>9 DEF End, Start
  <2> QED BY ONLY <1>5, <1>8, <1>9, <2>1
<1>11. \A q \in DOMAIN hdr :
         /\ q # n /\ q \in DOMAIN hdr2
         /\ hdr2[q] \in AnyHeader /\ hdr2[q].mmapped = hdr[q].mmapped /\ hdr2[q].prev_size <= q
         /\ Start(hdr2, q) = Start(hdr, q) /\ hdr2[q].prev_inuse = hdr[q].prev_inuse
         /\ q # top => hdr2[q] = hdr[q] /\ End(hdr2, q) = End(hdr, q)
  <2>1. ASSUME NEW q \in DOMAIN hdr
        PROVE  /\ q # n /\ q \in DOMAIN hdr2
               /\ hdr2[q] \in AnyHeader /\ hdr2[q].mmapped = hdr[q].mmapped /\ hdr2[q].prev_size <= q
               /\ Start(hdr2, q) = Start(hdr, q) /\ hdr2[q].prev_inuse = hdr[q].prev_inuse
               /\ q # top => hdr2[q] = hdr[q] /\ End(hdr2, q) = End(hdr, q)
    <3>1. CASE q = top BY <1>2, <1>7, <1>8, <1>10, <3>1
    <3>2. CASE q # top BY <1>1, <1>7, <3>2 DEF Start, End
    <3> QED BY <3>1, <3>2
  <2> QED BY <2>1
<1>12. Chunks(hdr2, n) = Chunks(hdr, top) \union {top}
  <2>1. top \in Chunks(hdr2, n) /\ n \notin Chunks(hdr2, n)
    BY <1>2, <1>6, <1>8, <1>11 DEF Chunks
  <2>2. \A q : q # top => (q \in Chunks(hdr2, n) <=> q \in Chunks(hdr, top))
    BY <1>11 DEF Chunks
  <2> QED BY <2>1, <2>2
<1>13. \A q \in DOMAIN hdr : q # top => q < top \/ e <= Start(hdr, q)
  <2> SUFFICES ASSUME NEW q \in DOMAIN hdr, q # top, ~(q < top)
               PROVE  e <= Start(hdr, q)
    OBVIOUS
  <2>1. top < q BY <1>1, <1>2
  <2>2. End(hdr, top) <= Start(hdr, q) BY <1>2, <2>1 DEF Shape, Apart
  <2> QED BY <2>2
<1>14. Typed(hdr2, n)
  <2>1. n \in DOMAIN hdr2 /\ ~hdr2[n].mmapped /\ hdr2[n].size >= MINSIZE /\ n # NIL
    <3>1. n # NIL BY ONLY <1>2, <1>3, <1>4 DEF NIL
    <3> QED BY <1>6, <1>9, <3>1
  <2>2. aligned_OK(hdr2[top].size)
    <3>1. aligned_OK(top) /\ aligned_OK(n) BY <1>1, <1>2
    <3> QED BY ONLY <1>2, <1>3, <1>8, <3>1, AlignedSum
  <2>3. ASSUME NEW q \in DOMAIN hdr2
        PROVE  /\ q \in Nat /\ aligned_OK(q) /\ hdr2[q] \in AnyHeader /\ hdr2[q].prev_size <= q
               /\ q # n => q > 0 /\ hdr2[q].size > 0
               /\ q # n /\ ~hdr2[q].mmapped => aligned_OK(hdr2[q].size)
    <3>1. CASE q = n BY <1>9, <3>1
    <3>2. CASE q = top
      <4>1. hdr2[top].size > 0 BY ONLY <1>5, <1>8
      <4>2. q > 0 /\ q \in Nat /\ aligned_OK(q) /\ hdr2[top].prev_size <= q
        BY <1>1, <1>2, <1>4, <1>11, <3>2
      <4> QED BY ONLY <1>8, <2>2, <3>2, <4>1, <4>2
    <3>3. CASE q # n /\ q # top BY <1>1, <1>11, <3>3
    <3> QED BY <3>1, <3>2, <3>3
  <2> QED BY <2>1, <2>3 DEF Typed
<1>15. Apart(hdr2)
  <2> SUFFICES ASSUME NEW a \in DOMAIN hdr2, NEW b \in DOMAIN hdr2, a < b
               PROVE  End(hdr2, a) <= Start(hdr2, b)
    BY DEF Apart
  <2>1. CASE a # n /\ b # n
    <3>1. End(hdr, a) <= Start(hdr, b) /\ a \in DOMAIN hdr /\ b \in DOMAIN hdr
      BY <2>1 DEF Shape, Apart
    <3>2. Start(hdr, b) \in Int BY <1>1, <3>1 DEF Start, AnyHeader
    <3>3. Start(hdr2, b) = Start(hdr, b) /\ (a # top => End(hdr2, a) = End(hdr, a))
      BY <1>11, <3>1
    <3>4. e \in Nat /\ n < e /\ End(hdr, top) = e /\ End(hdr2, top) = n /\ n \in Nat
      BY <1>2, <1>4, <1>10
    <3> QED BY ONLY <3>1, <3>2, <3>3, <3>4
  <2>2. CASE a = n
    <3>1. b \in DOMAIN hdr /\ n < b /\ b \in Nat BY <1>1, <2>2
    <3>2. b # top /\ ~(b < top) BY ONLY <1>2, <1>3, <1>4, <3>1
    <3> QED BY <1>10, <1>11, <1>13, <2>2, <3>1, <3>2
  <2>3. CASE b = n /\ a = top
    BY <1>3, <1>10, <2>3
  <2>4. CASE b = n /\ a # top
    <3>1. a \in DOMAIN hdr /\ a \in Nat /\ a < n /\ a # n BY <1>1, <1>3, <2>4
    <3>2. a < top
      <4>1. Start(hdr, a) <= a /\ Start(hdr, a) \in Int BY <1>1, <3>1 DEF Start, AnyHeader
      <4>2. a < top \/ e <= Start(hdr, a) BY <1>13, <2>4, <3>1
      <4> QED BY ONLY <1>2, <1>3, <1>4, <3>1, <4>1, <4>2
    <3>3. End(hdr, a) <= top BY <1>2, <1>10, <3>1, <3>2 DEF Shape, Apart
    <3>4. End(hdr, a) \in Int /\ End(hdr2, a) = End(hdr, a) BY <1>1, <1>11, <2>4, <3>1 DEF End, AnyHeader
    <3> QED BY <1>2, <1>3, <1>4, <1>10, <2>4, <3>3, <3>4
  <2> QED BY <2>1, <2>2, <2>3, <2>4
<1>16. Joined(hdr2, n)
  <2> SUFFICES ASSUME NEW q \in Chunks(hdr2, n)
               PROVE  /\ End(hdr2, q) \in DOMAIN hdr2 /\ ~hdr2[End(hdr2, q)].mmapped
                      /\ \A r \in DOMAIN hdr2 : r = End(hdr2, q) /\ r # n =>
                           End(hdr2, r) \in DOMAIN hdr2 /\ ~hdr2[End(hdr2, r)].mmapped
    BY DEF Joined
  <2>1. ~hdr2[n].mmapped /\ n \in DOMAIN hdr2
    BY <1>9
  <2>2. CASE q = top BY ONLY <1>10, <2>1, <2>2
  <2>3. CASE q # top
    <3>1. q \in Chunks(hdr, top) /\ q \in DOMAIN hdr BY <1>12, <2>3 DEF Chunks
    <3>2. End(hdr2, q) = End(hdr, q) /\ End(hdr, q) \in DOMAIN hdr /\ ~hdr[End(hdr, q)].mmapped
      BY <1>11, <2>3, <3>1, Follower
    <3>3. End(hdr2, q) \in DOMAIN hdr2 /\ ~hdr2[End(hdr2, q)].mmapped
      BY <1>11, <3>2
    <3>4. ASSUME NEW r \in DOMAIN hdr2, r = End(hdr, q), r # top
          PROVE  End(hdr2, r) \in DOMAIN hdr2 /\ ~hdr2[End(hdr2, r)].mmapped
      <4>1. End(hdr, r) \in DOMAIN hdr /\ ~hdr[End(hdr, r)].mmapped /\ End(hdr2, r) = End(hdr, r)
        BY <1>11, <3>1, <3>2, <3>4, Follower
      <4> QED BY <1>11, <4>1
    <3> QED BY <1>10, <2>1, <3>2, <3>3, <3>4
  <2> QED BY <2>2, <2>3
<1>17. Inside(hdr2, n, W, c, lo)
  <2>1. \A z \in Nat : top <= z /\ z < e => z \in W
    BY <1>2, <1>10 DEF Shape, Inside
  <2>2. c => lo <= top
    BY <1>2 DEF Shape, Inside
  <2> SUFFICES ASSUME NEW q \in DOMAIN hdr2
               PROVE  /\ \A z \in Nat : Start(hdr2, q) <= z /\ z < End(hdr2, q) => z \in W
                      /\ c /\ ~hdr2[q].mmapped => lo <= q /\ q <= n
    BY DEF Inside
  <2>3. lo \in Nat OBVIOUS
  <2>4. CASE q = n BY ONLY <1>2, <1>3, <1>4, <1>10, <2>1, <2>2, <2>3, <2>4
  <2>5. CASE q = top BY ONLY <1>2, <1>3, <1>4, <1>10, <2>1, <2>2, <2>3, <2>5
  <2>6. CASE q # n /\ q # top
    <3>1. q \in DOMAIN hdr /\ q \in Nat /\ Start(hdr2, q) = Start(hdr, q) /\ End(hdr2, q) = End(hdr, q)
          /\ hdr2[q].mmapped = hdr[q].mmapped
      BY <1>1, <1>11, <2>6
    <3>2. /\ \A z \in Nat : Start(hdr, q) <= z /\ z < End(hdr, q) => z \in W
          /\ c /\ ~hdr[q].mmapped => lo <= q /\ q <= top
      BY <3>1 DEF Shape, Inside
    <3> QED BY ONLY <1>2, <1>3, <1>4, <3>1, <3>2
  <2> QED BY <2>4, <2>5, <2>6
<1>18. Shape(hdr2, n, W, c, lo)
  BY <1>14, <1>15, <1>16, <1>17 DEF Shape
<1>19. B \subseteq Chunks(hdr2, n)
  BY <1>12 DEF Tagged
<1>20. ASSUME NEW q \in Chunks(hdr2, n)
       PROVE  /\ hdr2[End(hdr2, q)].prev_inuse <=> q \notin B
              /\ q \in B => hdr2[End(hdr2, q)].prev_size = hdr2[q].size /\ hdr2[q].prev_inuse
  <2>1. top \notin B BY DEF Tagged, Chunks
  <2>2. CASE q = top BY <1>9, <1>10, <2>1, <2>2
  <2>3. CASE q # top
    <3>1. q \in Chunks(hdr, top) /\ q \in DOMAIN hdr BY <1>12, <2>3 DEF Chunks
    <3>2. End(hdr2, q) = End(hdr, q) /\ End(hdr, q) \in DOMAIN hdr
      BY <1>11, <2>3, <3>1, Follower
    <3>3. hdr[End(hdr, q)].prev_inuse <=> q \notin B BY <3>1 DEF Tagged
    <3>4. q \in B => hdr[End(hdr, q)].prev_size = hdr[q].size /\ hdr[q].prev_inuse /\ End(hdr, q) # top
      BY <1>2, <3>3 DEF Tagged
    <3> QED BY <1>11, <2>3, <3>1, <3>2, <3>3, <3>4
  <2> QED BY <2>2, <2>3
<1>21. ASSUME NEW q \in DOMAIN hdr2, ~hdr2[q].mmapped, ~hdr2[q].prev_inuse
       PROVE  q - hdr2[q].prev_size \in B /\ End(hdr2, q - hdr2[q].prev_size) = q
  <2>a. q # top /\ q # n BY ONLY <1>8, <1>9, <1>21
  <2>1. q # top /\ hdr2[q] = hdr[q] /\ q \in DOMAIN hdr BY <1>11, <2>a
  <2> DEFINE b == q - hdr[q].prev_size
  <2>2. b \in B /\ End(hdr, b) = q BY <1>21, <2>1 DEF Tagged
  <2>3. b \in DOMAIN hdr /\ b # top BY <2>2 DEF Chunks, Tagged
  <2> QED BY <1>11, <2>1, <2>2, <2>3
<1>22. Tagged(hdr2, n, B)
  BY <1>9, <1>19, <1>20, <1>21 DEF Tagged
<1> QED BY <1>7, <1>12, <1>18, <1>22

\* Top has s bytes, in the space W2.
ResizesTop(hdr, top, s, W2, hdr2) ==
  /\ top # NIL
  /\ s \in Nat /\ s >= MINSIZE
  /\ \A q \in DOMAIN hdr : top < q => top + s <= Start(hdr, q)
  /\ \A z \in Nat : top <= z /\ z < top + s => z \in W2
  /\ \A q \in DOMAIN hdr : q # top =>
       \A z \in Nat : Start(hdr, q) <= z /\ z < End(hdr, q) => z \in W2
  /\ DOMAIN hdr2 = DOMAIN hdr
  /\ hdr2[top] = Hd(s, hdr[top].prev_inuse, hdr[top].prev_size, FALSE)
  /\ \A q \in DOMAIN hdr : q # top => hdr2[q] = hdr[q]

\* Top grows into vacant memory or shrinks.
LEMMA ResizeTop ==
  ASSUME NEW hdr, NEW top, NEW W, NEW c, NEW lo, Shape(hdr, top, W, c, lo),
         NEW B, Tagged(hdr, top, B),
         NEW s, NEW W2, NEW hdr2,
         ResizesTop(hdr, top, s, W2, hdr2)
  PROVE  /\ Shape(hdr2, top, W2, c, lo) /\ Tagged(hdr2, top, B)
         /\ Chunks(hdr2, top) = Chunks(hdr, top)
<1> SUFFICES ASSUME top # NIL,
                   s \in Nat /\ s >= MINSIZE,
                   \A q \in DOMAIN hdr : top < q => top + s <= Start(hdr, q),
                   \A z \in Nat : top <= z /\ z < top + s => z \in W2,
                   \A q \in DOMAIN hdr : q # top =>
              \A z \in Nat : Start(hdr, q) <= z /\ z < End(hdr, q) => z \in W2,
                   DOMAIN hdr2 = DOMAIN hdr,
                   hdr2[top] = Hd(s, hdr[top].prev_inuse, hdr[top].prev_size, FALSE),
                   \A q \in DOMAIN hdr : q # top => hdr2[q] = hdr[q]
    PROVE  /\ Shape(hdr2, top, W2, c, lo) /\ Tagged(hdr2, top, B)
           /\ Chunks(hdr2, top) = Chunks(hdr, top)
  BY DEF ResizesTop
<1>1. \A q \in DOMAIN hdr : q \in Nat /\ hdr[q] \in AnyHeader /\ hdr[q].prev_size <= q
  BY DEF Shape, Typed
<1>2. /\ top \in DOMAIN hdr /\ top \in Nat /\ hdr[top].mmapped = FALSE /\ hdr[top].prev_inuse = TRUE
      /\ hdr[top].prev_size \in Nat /\ hdr[top].prev_inuse \in BOOLEAN
  BY <1>1 DEF AnyHeader, Shape, Typed, Tagged
<1>3. /\ hdr2[top] \in AnyHeader /\ hdr2[top].size = s /\ hdr2[top].prev_inuse = hdr[top].prev_inuse
      /\ hdr2[top].prev_size = hdr[top].prev_size /\ hdr2[top].mmapped = FALSE
  <2>1. hdr2[top] = Hd(s, hdr[top].prev_inuse, hdr[top].prev_size, FALSE) /\ s \in Nat
    OBVIOUS
  <2> QED BY ONLY <1>2, <2>1 DEF Hd, AnyHeader
<1>4. \A q \in DOMAIN hdr :
        /\ hdr2[q] \in AnyHeader /\ hdr2[q].mmapped = hdr[q].mmapped /\ hdr2[q].prev_size = hdr[q].prev_size
        /\ hdr2[q].prev_inuse = hdr[q].prev_inuse
        /\ Start(hdr2, q) = Start(hdr, q)
        /\ q # top => hdr2[q].size = hdr[q].size /\ End(hdr2, q) = End(hdr, q)
  BY <1>1, <1>2, <1>3 DEF Start, End
<1>5. End(hdr2, top) = top + s /\ Start(hdr2, top) = top
  BY <1>3 DEF End, Start
<1>6. Chunks(hdr2, top) = Chunks(hdr, top)
  BY <1>4 DEF Chunks
<1>7. Typed(hdr2, top)
  BY <1>3, <1>4 DEF Shape, Typed
<1>8. Apart(hdr2)
  BY <1>4, <1>5 DEF Shape, Apart
<1>9. \A q \in Chunks(hdr, top) : q # top /\ q \in DOMAIN hdr /\ End(hdr, q) \in DOMAIN hdr
        /\ End(hdr2, q) = End(hdr, q)
  BY <1>4, Follower DEF Chunks
<1>10. Joined(hdr2, top)
  BY <1>4, <1>6, <1>9 DEF Shape, Joined
<1>11. Inside(hdr2, top, W2, c, lo)
  <2> SUFFICES ASSUME NEW q \in DOMAIN hdr
               PROVE  /\ \A z \in Nat : Start(hdr2, q) <= z /\ z < End(hdr2, q) => z \in W2
                      /\ c /\ ~hdr2[q].mmapped => lo <= q /\ q <= top
    BY DEF Inside
  <2>1. c /\ ~hdr2[q].mmapped => lo <= q /\ q <= top
    BY <1>4 DEF Shape, Inside
  <2>2. CASE q = top BY <1>5, <2>1, <2>2
  <2>3. CASE q # top BY <1>4, <2>1, <2>3
  <2> QED BY <2>2, <2>3
<1>12. Tagged(hdr2, top, B)
  <2>1. \A q \in B : q \in Chunks(hdr, top) /\ q # top /\ q \in DOMAIN hdr
    BY <1>9 DEF Tagged
  <2>2. \A q \in Chunks(hdr, top) : hdr2[End(hdr2, q)].prev_inuse <=> q \notin B
    BY <1>4, <1>9 DEF Tagged
  <2>3. \A q \in B : hdr2[End(hdr2, q)].prev_size = hdr2[q].size /\ hdr2[q].prev_inuse
    BY <1>4, <1>9, <2>1 DEF Tagged
  <2>4. \A q \in DOMAIN hdr : ~hdr2[q].mmapped /\ ~hdr2[q].prev_inuse =>
           q - hdr2[q].prev_size \in B /\ End(hdr2, q - hdr2[q].prev_size) = q
    BY <1>4, <2>1 DEF Tagged
  <2> QED BY <1>2, <1>3, <1>6, <2>1, <2>2, <2>3, <2>4 DEF Tagged
<1> QED BY <1>6, <1>7, <1>8, <1>10, <1>11, <1>12 DEF Shape

\* No chunk has memory in [a, b).
Vacant(hdr, a, b) == \A q \in DOMAIN hdr : End(hdr, q) <= a \/ b <= Start(hdr, q)

\* The first top is [a, e).
StartsTop(hdr, a, e, W, W2, lo2, hdr2) ==
  /\ a \in Nat /\ e \in Nat /\ 0 < a /\ aligned_OK(a) /\ a + MINSIZE <= e /\ Vacant(hdr, a, e)
  /\ W \subseteq W2
  /\ \A z \in Nat : a <= z /\ z < e => z \in W2
  /\ lo2 <= a
  /\ DOMAIN hdr2 = (DOMAIN hdr \ {NIL}) \union {a}
  /\ hdr2[a] = Hd(e - a, TRUE, 0, FALSE)
  /\ \A q \in DOMAIN hdr \ {NIL} : hdr2[q] = hdr[q]

\* The first top: there were only mapped chunks.
LEMMA FirstTop ==
  ASSUME NEW hdr, NEW W, NEW lo, NEW B, Shape(hdr, NIL, W, TRUE, lo), Tagged(hdr, NIL, B),
         NEW c2, NEW a, NEW e, NEW W2, NEW lo2, NEW hdr2,
         StartsTop(hdr, a, e, W, W2, lo2, hdr2)
  PROVE  /\ Shape(hdr2, a, W2, c2, lo2) /\ Tagged(hdr2, a, {}) /\ B = {}
         /\ Chunks(hdr2, a) = {} /\ Chunks(hdr, NIL) = {} /\ a \notin DOMAIN hdr
<1> SUFFICES ASSUME a \in Nat /\ e \in Nat /\ 0 < a /\ aligned_OK(a) /\ a + MINSIZE <= e /\ Vacant(hdr, a, e),
                   W \subseteq W2,
                   \A z \in Nat : a <= z /\ z < e => z \in W2,
                   lo2 <= a,
                   DOMAIN hdr2 = (DOMAIN hdr \ {NIL}) \union {a},
                   hdr2[a] = Hd(e - a, TRUE, 0, FALSE),
                   \A q \in DOMAIN hdr \ {NIL} : hdr2[q] = hdr[q]
    PROVE  /\ Shape(hdr2, a, W2, c2, lo2) /\ Tagged(hdr2, a, {}) /\ B = {}
           /\ Chunks(hdr2, a) = {} /\ Chunks(hdr, NIL) = {} /\ a \notin DOMAIN hdr
  BY DEF StartsTop
<1>1. \A q \in DOMAIN hdr : /\ q \in Nat /\ hdr[q] \in AnyHeader /\ hdr[q].prev_size <= q
                            /\ aligned_OK(q) /\ (q # NIL => q > 0 /\ hdr[q].size > 0)
  BY DEF Shape, Typed
<1>2. \A q \in DOMAIN hdr : q # NIL => hdr[q].mmapped = TRUE
  <2> SUFFICES ASSUME NEW q \in DOMAIN hdr, q # NIL, ~hdr[q].mmapped PROVE FALSE
    BY <1>1 DEF AnyHeader
  <2>1. q <= NIL BY DEF Shape, Inside
  <2> QED BY <1>1, <2>1 DEF NIL
<1>3. Chunks(hdr, NIL) = {} /\ B = {}
  BY <1>2 DEF Chunks, Tagged
<1>4. a \in Nat /\ e \in Nat /\ e - a \in Nat /\ e - a >= MINSIZE /\ a + (e - a) = e /\ a < e /\ a # NIL
  <2>1. a \in Nat /\ e \in Nat /\ 0 < a /\ a + MINSIZE <= e /\ MINSIZE \in Nat /\ MINSIZE > 0 BY Units
  <2> QED BY ONLY <2>1 DEF NIL
<1>5. /\ hdr2[a] \in AnyHeader /\ hdr2[a].size = e - a /\ hdr2[a].prev_inuse = TRUE
      /\ hdr2[a].prev_size = 0 /\ hdr2[a].mmapped = FALSE
  <2>1. hdr2[a] = Hd(e - a, TRUE, 0, FALSE)
    OBVIOUS
  <2> QED BY ONLY <1>4, <2>1 DEF Hd, AnyHeader
<1>6. End(hdr2, a) = e /\ Start(hdr2, a) = a
  <2>1. End(hdr2, a) = a + hdr2[a].size /\ Start(hdr2, a) = a BY <1>5 DEF End, Start
  <2> QED BY ONLY <1>4, <1>5, <2>1
<1>7. a \notin DOMAIN hdr
  <2> SUFFICES ASSUME a \in DOMAIN hdr PROVE FALSE
    OBVIOUS
  <2>1. Start(hdr, a) <= a /\ a < End(hdr, a) /\ Start(hdr, a) \in Int /\ End(hdr, a) \in Int
    BY <1>1, <1>4 DEF Start, End, AnyHeader
  <2>2. End(hdr, a) <= a \/ e <= Start(hdr, a) BY DEF Vacant
  <2> QED BY ONLY <1>4, <2>1, <2>2
<1>8. \A q \in DOMAIN hdr2 : q = a \/ (q \in DOMAIN hdr /\ q # NIL /\ q # a /\ hdr2[q] = hdr[q]
                                        /\ End(hdr2, q) = End(hdr, q) /\ Start(hdr2, q) = Start(hdr, q))
  BY <1>7 DEF End, Start
<1>9. Chunks(hdr2, a) = {}
  BY <1>2, <1>8 DEF Chunks
<1>10. Typed(hdr2, a)
  <2>1. a \in DOMAIN hdr2 /\ ~hdr2[a].mmapped /\ hdr2[a].size >= MINSIZE /\ a # NIL
    BY <1>4, <1>5
  <2>2. ASSUME NEW q \in DOMAIN hdr2
        PROVE  /\ q \in Nat /\ aligned_OK(q) /\ hdr2[q] \in AnyHeader /\ hdr2[q].prev_size <= q
               /\ q # a => q > 0 /\ hdr2[q].size > 0
               /\ q # a /\ ~hdr2[q].mmapped => aligned_OK(hdr2[q].size)
    <3>1. CASE q = a
      <4>1. aligned_OK(a) OBVIOUS
      <4> QED BY ONLY <1>4, <1>5, <3>1, <4>1
    <3>2. CASE q # a BY <1>1, <1>2, <1>8, <3>2
    <3> QED BY <3>1, <3>2
  <2> QED BY <2>1, <2>2 DEF Typed
<1>11. Apart(hdr2)
  <2> SUFFICES ASSUME NEW p \in DOMAIN hdr2, NEW q \in DOMAIN hdr2, p < q
               PROVE  End(hdr2, p) <= Start(hdr2, q)
    BY DEF Apart
  <2>1. CASE p = a
    <3>1. q \in DOMAIN hdr /\ q \in Nat /\ a < q /\ q # NIL BY <1>1, <1>4, <1>8, <2>1
    <3>2. q < End(hdr, q) /\ End(hdr, q) \in Int BY <1>1, <3>1 DEF End, AnyHeader
    <3>3. End(hdr, q) <= a \/ e <= Start(hdr, q) BY <3>1 DEF Vacant
    <3>4. e <= Start(hdr, q) BY ONLY <1>4, <3>1, <3>2, <3>3
    <3> QED BY <1>4, <1>6, <1>8, <2>1, <3>1, <3>4
  <2>2. CASE q = a
    <3>1. p \in DOMAIN hdr /\ p \in Nat /\ p < a /\ p # a BY <1>1, <1>4, <1>8, <2>2
    <3>2. Start(hdr, p) <= p /\ Start(hdr, p) \in Int BY <1>1, <3>1 DEF Start, AnyHeader
    <3>3. End(hdr, p) <= a \/ e <= Start(hdr, p) BY <3>1 DEF Vacant
    <3>4. End(hdr, p) <= a BY ONLY <1>4, <3>1, <3>2, <3>3
    <3> QED BY <1>6, <1>8, <2>2, <3>1, <3>4
  <2>3. CASE p # a /\ q # a
    BY <1>8, <2>3 DEF Shape, Apart
  <2> QED BY <2>1, <2>2, <2>3
<1>12. Joined(hdr2, a)
  BY <1>9 DEF Joined
<1>13. Inside(hdr2, a, W2, c2, lo2)
  <2> SUFFICES ASSUME NEW q \in DOMAIN hdr2
               PROVE  /\ \A z \in Nat : Start(hdr2, q) <= z /\ z < End(hdr2, q) => z \in W2
                      /\ c2 /\ ~hdr2[q].mmapped => lo2 <= q /\ q <= a
    BY DEF Inside
  <2>1. CASE q = a
    <3>1. \A z \in Nat : a <= z /\ z < e => z \in W2 OBVIOUS
    <3>2. lo2 <= a OBVIOUS
    <3> QED BY ONLY <1>4, <1>6, <2>1, <3>1, <3>2
  <2>2. CASE q # a BY <1>2, <1>8, <2>2 DEF Shape, Inside
  <2> QED BY <2>1, <2>2
<1>14. Tagged(hdr2, a, {})
  BY <1>2, <1>5, <1>8, <1>9 DEF Tagged
<1> QED BY <1>3, <1>7, <1>9, <1>10, <1>11, <1>12, <1>13, <1>14 DEF Shape

\* Top is [a, b); what it was ends in the fenceposts f and g.
Retires(hdr, top, e, f, g, a, b, c, c2, W, W2, hdr2) ==
  /\ top # NIL /\ e = End(hdr, top)
  /\ f \in Nat /\ g = f + CHUNK_HDR_SZ /\ top <= f /\ g + CHUNK_HDR_SZ <= e /\ aligned_OK(f)
  /\ a \in Nat /\ b \in Nat /\ 0 < a /\ aligned_OK(a) /\ a + MINSIZE <= b /\ Vacant(hdr, a, b)
  /\ W \subseteq W2
  /\ \A z \in Nat : a <= z /\ z < b => z \in W2
  /\ c2 => c /\ top < a
  /\ DOMAIN hdr2 = DOMAIN hdr \union {f, g, a}
  /\ top # f => hdr2[top] = Hd(f - top, TRUE, 0, FALSE)
  /\ hdr2[f] = Hd(CHUNK_HDR_SZ, TRUE, 0, FALSE)
  /\ hdr2[g] = Hd(CHUNK_HDR_SZ, TRUE, 0, FALSE)
  /\ hdr2[a] = Hd(b - a, TRUE, 0, FALSE)
  /\ \A q \in DOMAIN hdr \ {top} : hdr2[q] = hdr[q]

\* Top moves to [a, b), and what it was ends in two fenceposts, f and g.
LEMMA Retire ==
  ASSUME NEW hdr, NEW top, NEW W, NEW c, NEW lo \in Nat, Shape(hdr, top, W, c, lo),
         NEW B, Tagged(hdr, top, B),
         NEW e, NEW f, NEW g, NEW a, NEW b, NEW c2, NEW W2, NEW hdr2,
         Retires(hdr, top, e, f, g, a, b, c, c2, W, W2, hdr2)
  PROVE  /\ Shape(hdr2, a, W2, c2, lo) /\ Tagged(hdr2, a, B)
         /\ DOMAIN hdr \intersect {f, g, a} \subseteq {top} /\ a # top
         /\ Chunks(hdr2, a) = Chunks(hdr, top) \union (IF f - top >= MINSIZE THEN {top} ELSE {})
<1> SUFFICES ASSUME top # NIL /\ e = End(hdr, top),
                   f \in Nat /\ g = f + CHUNK_HDR_SZ /\ top <= f /\ g + CHUNK_HDR_SZ <= e /\ aligned_OK(f),
                   a \in Nat /\ b \in Nat /\ 0 < a /\ aligned_OK(a) /\ a + MINSIZE <= b /\ Vacant(hdr, a, b),
                   W \subseteq W2,
                   \A z \in Nat : a <= z /\ z < b => z \in W2,
                   c2 => c /\ top < a,
                   DOMAIN hdr2 = DOMAIN hdr \union {f, g, a},
                   top # f => hdr2[top] = Hd(f - top, TRUE, 0, FALSE),
                   hdr2[f] = Hd(CHUNK_HDR_SZ, TRUE, 0, FALSE),
                   hdr2[g] = Hd(CHUNK_HDR_SZ, TRUE, 0, FALSE),
                   hdr2[a] = Hd(b - a, TRUE, 0, FALSE),
                   \A q \in DOMAIN hdr \ {top} : hdr2[q] = hdr[q]
    PROVE  /\ Shape(hdr2, a, W2, c2, lo) /\ Tagged(hdr2, a, B)
           /\ DOMAIN hdr \intersect {f, g, a} \subseteq {top} /\ a # top
           /\ Chunks(hdr2, a) = Chunks(hdr, top) \union (IF f - top >= MINSIZE THEN {top} ELSE {})
  BY DEF Retires
<1> DEFINE U == MALLOC_ALIGNMENT
<1>1. \A q \in DOMAIN hdr : /\ q \in Nat /\ hdr[q] \in AnyHeader /\ hdr[q].prev_size <= q
                            /\ aligned_OK(q)
                            /\ q # top => q > 0 /\ hdr[q].size > 0
                            /\ q # top /\ ~hdr[q].mmapped => aligned_OK(hdr[q].size)
  BY DEF Shape, Typed
<1>2. /\ top \in DOMAIN hdr /\ top \in Nat /\ hdr[top].size \in Nat /\ hdr[top].mmapped = FALSE
      /\ hdr[top].prev_inuse = TRUE /\ e = top + hdr[top].size /\ e \in Nat /\ top > 0
  <2>1. top \in DOMAIN hdr /\ ~hdr[top].mmapped /\ hdr[top].prev_inuse
    BY DEF Shape, Typed, Tagged
  <2> QED BY <1>1, <2>1 DEF AnyHeader, End, NIL
<1>3. /\ U \in Nat /\ U > 0 /\ f \in Nat /\ top <= f /\ g = f + U /\ g \in Nat /\ g + U <= e
      /\ CHUNK_HDR_SZ = U /\ MINSIZE = 2 * U
  <2>1. CHUNK_HDR_SZ = U /\ U \in Nat /\ U > 0 /\ MINSIZE = 2 * U BY Units
  <2>2. f \in Nat /\ top <= f /\ g = f + CHUNK_HDR_SZ /\ g + CHUNK_HDR_SZ <= e OBVIOUS
  <2> QED BY ONLY <2>1, <2>2
<1> HIDE DEF U
<1>4. a \in Nat /\ b \in Nat /\ b - a \in Nat /\ b - a >= MINSIZE /\ a + (b - a) = b /\ a < b /\ a > 0 /\ a # NIL
      /\ b - a > 0
  <2>1. a \in Nat /\ b \in Nat /\ 0 < a /\ a + MINSIZE <= b /\ MINSIZE \in Nat /\ MINSIZE > 0 BY Units
  <2> QED BY ONLY <2>1 DEF NIL
<1>5. top < g /\ f < g /\ g < e /\ f < e /\ f - top \in Nat /\ top + (f - top) = f /\ top < e
      /\ f # g /\ top # g /\ (top # f => f - top > 0 /\ top < f)
  BY ONLY <1>2, <1>3
<1>30. /\ top \in Nat /\ f \in Nat /\ g \in Nat /\ e \in Nat /\ a \in Nat /\ b \in Nat /\ g + U \in Nat
       /\ top <= f /\ f < g /\ g < e /\ a < b /\ g < g + U /\ g + U <= e
  BY ONLY <1>2, <1>3, <1>4, <1>5
<1>31. ~(U >= MINSIZE)
  BY ONLY <1>3
<1>6. e <= a \/ b <= top
  BY <1>2 DEF Vacant, Start
<1>7. \A q \in DOMAIN hdr : /\ Start(hdr, q) \in Int /\ End(hdr, q) \in Int
                            /\ Start(hdr, q) <= q /\ q <= End(hdr, q) /\ (q # top => q < End(hdr, q))
  BY <1>1 DEF Start, End, AnyHeader
<1>8. \A q \in DOMAIN hdr : q # top => End(hdr, q) <= top \/ e <= Start(hdr, q)
  <2> SUFFICES ASSUME NEW q \in DOMAIN hdr, q # top
               PROVE  End(hdr, q) <= top \/ e <= Start(hdr, q)
    OBVIOUS
  <2>1. CASE q < top
    <3>1. End(hdr, q) <= Start(hdr, top) BY <1>2, <2>1 DEF Shape, Apart
    <3>2. Start(hdr, top) = top BY <1>2 DEF Start
    <3> QED BY <3>1, <3>2
  <2>2. CASE top < q
    <3>1. End(hdr, top) <= Start(hdr, q) BY <1>2, <2>2 DEF Shape, Apart
    <3> QED BY <3>1
  <2> QED BY <1>1, <1>2, <2>1, <2>2
<1>9. \A q \in DOMAIN hdr : End(hdr, q) <= a \/ b <= Start(hdr, q)
  BY DEF Vacant
<1>10. a # top /\ a # f /\ a # g
  BY ONLY <1>30, <1>6
<1>11. \A q \in DOMAIN hdr : q # top => q # f /\ q # g /\ q # a
  <2> SUFFICES ASSUME NEW q \in DOMAIN hdr, q # top
               PROVE  q # f /\ q # g /\ q # a
    OBVIOUS
  <2>1. Start(hdr, q) \in Int /\ End(hdr, q) \in Int /\ Start(hdr, q) <= q /\ q < End(hdr, q) /\ q \in Nat
        /\ (End(hdr, q) <= top \/ e <= Start(hdr, q)) /\ (End(hdr, q) <= a \/ b <= Start(hdr, q))
    BY <1>1, <1>7, <1>8, <1>9
  <2> QED BY ONLY <1>30, <2>1
<1>12. /\ hdr2[f] \in AnyHeader /\ hdr2[f].size = U /\ hdr2[f].prev_inuse = TRUE
       /\ hdr2[f].prev_size = 0 /\ hdr2[f].mmapped = FALSE
  <2>1. hdr2[f] = Hd(U, TRUE, 0, FALSE)
    BY <1>3
  <2> QED BY ONLY <1>3, <2>1 DEF Hd, AnyHeader
<1>13. /\ hdr2[g] \in AnyHeader /\ hdr2[g].size = U /\ hdr2[g].prev_inuse = TRUE
       /\ hdr2[g].prev_size = 0 /\ hdr2[g].mmapped = FALSE
  <2>1. hdr2[g] = Hd(U, TRUE, 0, FALSE)
    BY <1>3
  <2> QED BY ONLY <1>3, <2>1 DEF Hd, AnyHeader
<1>14. /\ hdr2[a] \in AnyHeader /\ hdr2[a].size = b - a /\ hdr2[a].prev_inuse = TRUE
       /\ hdr2[a].prev_size = 0 /\ hdr2[a].mmapped = FALSE
  <2>1. hdr2[a] = Hd(b - a, TRUE, 0, FALSE)
    OBVIOUS
  <2> QED BY ONLY <1>4, <2>1 DEF Hd, AnyHeader
<1>15. ASSUME top # f
       PROVE  /\ hdr2[top] \in AnyHeader /\ hdr2[top].size = f - top /\ hdr2[top].prev_inuse = TRUE
              /\ hdr2[top].prev_size = 0 /\ hdr2[top].mmapped = FALSE
  <2>1. hdr2[top] = Hd(f - top, TRUE, 0, FALSE)
    BY <1>15
  <2> QED BY ONLY <1>5, <2>1 DEF Hd, AnyHeader
<1>16. /\ End(hdr2, f) = g /\ Start(hdr2, f) = f /\ End(hdr2, g) = g + U /\ Start(hdr2, g) = g
       /\ End(hdr2, a) = b /\ Start(hdr2, a) = a /\ Start(hdr2, top) = top
       /\ (top # f => End(hdr2, top) = f)
  <2>1. /\ End(hdr2, f) = f + hdr2[f].size /\ Start(hdr2, f) = f
        /\ End(hdr2, g) = g + hdr2[g].size /\ Start(hdr2, g) = g
        /\ End(hdr2, a) = a + hdr2[a].size /\ Start(hdr2, a) = a
    BY <1>12, <1>13, <1>14 DEF End, Start
  <2>2. top # f => End(hdr2, top) = top + hdr2[top].size /\ Start(hdr2, top) = top
    BY <1>15 DEF End, Start
  <2>3. Start(hdr2, top) = top BY <2>1, <2>2
  <2> QED BY ONLY <1>3, <1>4, <1>5, <1>12, <1>13, <1>14, <1>15, <2>1, <2>2, <2>3
<1>17. \A q \in DOMAIN hdr : q # top =>
         /\ hdr2[q] = hdr[q] /\ q \in DOMAIN hdr2
         /\ End(hdr2, q) = End(hdr, q) /\ Start(hdr2, q) = Start(hdr, q)
  BY DEF End, Start
<1>18. \A q \in DOMAIN hdr2 : q \in {top, f, g} \/ q = a \/ (q \in DOMAIN hdr /\ q # top)
  OBVIOUS
<1>32. top \in DOMAIN hdr2 /\ f \in DOMAIN hdr2 /\ g \in DOMAIN hdr2
  BY <1>2
<1>19. \A q \in {top, f, g} : /\ hdr2[q].mmapped = FALSE /\ hdr2[q].prev_inuse = TRUE /\ q \in DOMAIN hdr2
                              /\ Start(hdr2, q) = q /\ q \in Nat /\ top <= q /\ q < e
                              /\ End(hdr2, q) \in Nat /\ End(hdr2, q) <= e /\ q < End(hdr2, q)
  <2>1. ASSUME NEW q \in {top, f, g}
        PROVE  /\ hdr2[q].mmapped = FALSE /\ hdr2[q].prev_inuse = TRUE /\ q \in DOMAIN hdr2
               /\ Start(hdr2, q) = q /\ q \in Nat /\ top <= q /\ q < e
               /\ End(hdr2, q) \in Nat /\ End(hdr2, q) <= e /\ q < End(hdr2, q)
    <3>1. CASE q = f BY ONLY <1>30, <1>12, <1>16, <1>32, <3>1
    <3>2. CASE q = g BY ONLY <1>30, <1>13, <1>16, <1>32, <3>2
    <3>3. CASE q = top /\ top # f
      <4>1. top < f BY <1>5, <3>3
      <4>2. End(hdr2, top) = f /\ Start(hdr2, top) = top BY <1>16, <3>3
      <4>3. hdr2[top].mmapped = FALSE /\ hdr2[top].prev_inuse = TRUE BY <1>15, <3>3
      <4> QED BY ONLY <1>30, <1>32, <3>3, <4>1, <4>2, <4>3
    <3> QED BY <3>1, <3>2, <3>3
  <2> QED BY <2>1
<1>20. Chunks(hdr2, a) = Chunks(hdr, top) \union (IF f - top >= MINSIZE THEN {top} ELSE {})
  <2>1. f \notin Chunks(hdr2, a) /\ g \notin Chunks(hdr2, a) /\ a \notin Chunks(hdr2, a)
    BY <1>31, <1>12, <1>13 DEF Chunks
  <2>2. top \in Chunks(hdr2, a) <=> f - top >= MINSIZE
    <3>1. CASE top = f BY <1>3, <2>1, <3>1
    <3>2. CASE top # f BY <1>2, <1>10, <1>15, <3>2 DEF Chunks
    <3> QED BY <3>1, <3>2
  <2>3. f \notin Chunks(hdr, top) /\ g \notin Chunks(hdr, top) /\ a \notin Chunks(hdr, top)
        /\ top \notin Chunks(hdr, top)
    BY <1>11 DEF Chunks
  <2>4. \A q : q \notin {top, f, g, a} => (q \in Chunks(hdr2, a) <=> q \in Chunks(hdr, top))
    BY <1>17 DEF Chunks
  <2> QED BY <2>1, <2>2, <2>3, <2>4
<1>21. Typed(hdr2, a)
  <2>1. a \in DOMAIN hdr2 /\ ~hdr2[a].mmapped /\ hdr2[a].size >= MINSIZE /\ a # NIL
    BY <1>4, <1>14
  <2>2. aligned_OK(U) /\ aligned_OK(g) /\ aligned_OK(f - top) /\ aligned_OK(f) /\ aligned_OK(top) /\ aligned_OK(a)
    <3>1. aligned_OK(U) /\ aligned_OK(f) /\ aligned_OK(top) /\ aligned_OK(a) BY <1>1, <1>2, Units DEF U
    <3>2. g = f + U /\ f \in Nat /\ U \in Nat /\ top \in Nat /\ top <= f BY <1>2, <1>3
    <3>3. aligned_OK(g) BY ONLY <3>1, <3>2, AlignedSum
    <3>4. aligned_OK(f - top) BY ONLY <3>1, <3>2, AlignedSum
    <3> QED BY <3>1, <3>3, <3>4
  <2>3. ASSUME NEW q \in DOMAIN hdr2
        PROVE  /\ q \in Nat /\ aligned_OK(q) /\ hdr2[q] \in AnyHeader /\ hdr2[q].prev_size <= q
               /\ q # a => q > 0 /\ hdr2[q].size > 0
               /\ q # a /\ ~hdr2[q].mmapped => aligned_OK(hdr2[q].size)
    <3>1. CASE q = a BY ONLY <1>4, <1>14, <2>2, <3>1
    <3>2. CASE q = f BY ONLY <1>2, <1>3, <1>12, <2>2, <3>2
    <3>3. CASE q = g BY ONLY <1>2, <1>3, <1>13, <2>2, <3>3
    <3>4. CASE q = top /\ top # f
      <4>1. hdr2[top].size > 0 BY <1>5, <1>15, <3>4
      <4> QED BY ONLY <1>2, <1>15, <2>2, <3>4, <4>1
    <3>5. CASE q \in DOMAIN hdr /\ q # top BY <1>1, <1>17, <3>5
    <3> QED BY <1>18, <3>1, <3>2, <3>3, <3>4, <3>5
  <2> QED BY <2>1, <2>3 DEF Typed
<1>22. Apart(hdr2)
  <2> SUFFICES ASSUME NEW p \in DOMAIN hdr2, NEW q \in DOMAIN hdr2, p < q
               PROVE  End(hdr2, p) <= Start(hdr2, q)
    BY DEF Apart
  <2>1. CASE p \in {top, f, g} /\ q \in {top, f, g}
    <3>1. CASE p = f BY ONLY <1>2, <1>3, <1>5, <1>16, <2>1, <3>1, p < q
    <3>2. CASE p = g BY ONLY <1>2, <1>3, <1>5, <1>16, <2>1, <3>2, p < q
    <3>3. CASE p = top /\ top # f BY ONLY <1>2, <1>3, <1>5, <1>16, <2>1, <3>3, p < q
    <3> QED BY <2>1, <3>1, <3>2, <3>3
  <2>2. CASE p \in {top, f, g} /\ q = a
    <3>1. End(hdr2, p) \in Nat /\ End(hdr2, p) <= e /\ top <= p /\ p \in Nat BY <1>19, <2>2
    <3>2. p < q OBVIOUS
    <3> QED BY ONLY <1>2, <1>4, <1>6, <1>16, <2>2, <3>1, <3>2
  <2>3. CASE p = a /\ q \in {top, f, g}
    <3>1. Start(hdr2, q) = q /\ q \in Nat /\ top <= q /\ q < e BY <1>19, <2>3
    <3>2. p < q OBVIOUS
    <3> QED BY ONLY <1>2, <1>4, <1>6, <1>16, <2>3, <3>1, <3>2
  <2>4. CASE p \in {top, f, g} /\ q \in DOMAIN hdr /\ q # top
    <3>1. End(hdr2, p) \in Nat /\ End(hdr2, p) <= e /\ top <= p /\ p \in Nat BY <1>19, <2>4
    <3>2. p < q OBVIOUS
    <3>3. Start(hdr2, q) = Start(hdr, q) /\ Start(hdr, q) \in Int /\ q < End(hdr, q) /\ q \in Nat
          /\ End(hdr, q) \in Int /\ (End(hdr, q) <= top \/ e <= Start(hdr, q))
      BY <1>1, <1>7, <1>8, <1>17, <2>4
    <3> QED BY ONLY <1>2, <3>1, <3>2, <3>3
  <2>5. CASE q \in {top, f, g} /\ p \in DOMAIN hdr /\ p # top
    <3>1. Start(hdr2, q) = q /\ q \in Nat /\ top <= q /\ q < e BY <1>19, <2>5
    <3>2. p < q OBVIOUS
    <3>3. End(hdr2, p) = End(hdr, p) /\ Start(hdr, p) \in Int /\ Start(hdr, p) <= p /\ p \in Nat
          /\ End(hdr, p) \in Int /\ (End(hdr, p) <= top \/ e <= Start(hdr, p))
      BY <1>1, <1>7, <1>8, <1>17, <2>5
    <3> QED BY ONLY <1>2, <3>1, <3>2, <3>3
  <2>6. CASE p = a /\ q \in DOMAIN hdr /\ q # top
    <3>1. p < q OBVIOUS
    <3>2. Start(hdr2, q) = Start(hdr, q) /\ Start(hdr, q) \in Int /\ q < End(hdr, q) /\ q \in Nat
          /\ End(hdr, q) \in Int /\ (End(hdr, q) <= a \/ b <= Start(hdr, q))
      BY <1>1, <1>7, <1>9, <1>17, <2>6
    <3> QED BY ONLY <1>4, <1>16, <2>6, <3>1, <3>2
  <2>7. CASE q = a /\ p \in DOMAIN hdr /\ p # top
    <3>1. p < q OBVIOUS
    <3>2. End(hdr2, p) = End(hdr, p) /\ Start(hdr, p) \in Int /\ Start(hdr, p) <= p /\ p \in Nat
          /\ End(hdr, p) \in Int /\ (End(hdr, p) <= a \/ b <= Start(hdr, p))
      BY <1>1, <1>7, <1>9, <1>17, <2>7
    <3> QED BY ONLY <1>4, <1>16, <2>7, <3>1, <3>2
  <2>8. CASE p \in DOMAIN hdr /\ p # top /\ q \in DOMAIN hdr /\ q # top
    BY <1>17, <2>8 DEF Shape, Apart
  <2>9. ~(p = a /\ q = a) BY <1>4
  <2> QED BY <1>18, <2>1, <2>2, <2>3, <2>4, <2>5, <2>6, <2>7, <2>8, <2>9
<1>23. Joined(hdr2, a)
  <2> SUFFICES ASSUME NEW q \in Chunks(hdr2, a)
               PROVE  /\ End(hdr2, q) \in DOMAIN hdr2 /\ ~hdr2[End(hdr2, q)].mmapped
                      /\ \A r \in DOMAIN hdr2 : r = End(hdr2, q) /\ r # a =>
                           End(hdr2, r) \in DOMAIN hdr2 /\ ~hdr2[End(hdr2, r)].mmapped
    BY DEF Joined
  <2>1. f \in DOMAIN hdr2 /\ g \in DOMAIN hdr2 /\ ~hdr2[f].mmapped /\ ~hdr2[g].mmapped
    BY <1>12, <1>13
  <2>2. CASE q = top
    <3>1. top # f BY <1>31, <1>12, <2>2 DEF Chunks
    <3> QED BY <1>16, <2>1, <2>2, <3>1
  <2>3. CASE q # top
    <3>1. q \in Chunks(hdr, top) /\ q \in DOMAIN hdr BY <1>20, <2>3 DEF Chunks
    <3>2. End(hdr2, q) = End(hdr, q) /\ End(hdr, q) \in DOMAIN hdr /\ ~hdr[End(hdr, q)].mmapped
      BY <1>17, <2>3, <3>1, Follower
    <3>3. CASE End(hdr, q) = top
      <4>1. top \in DOMAIN hdr2 /\ ~hdr2[top].mmapped BY <1>2, <1>19
      <4>2. End(hdr2, top) \in {f, g} BY <1>16
      <4> QED BY <2>1, <3>2, <3>3, <4>1, <4>2
    <3>4. CASE End(hdr, q) # top
      <4>1. ASSUME NEW r \in DOMAIN hdr2, r = End(hdr, q)
            PROVE  End(hdr2, r) \in DOMAIN hdr2 /\ ~hdr2[End(hdr2, r)].mmapped
        <5>1. End(hdr, r) \in DOMAIN hdr /\ ~hdr[End(hdr, r)].mmapped /\ End(hdr2, r) = End(hdr, r)
          BY <1>17, <3>1, <3>2, <3>4, <4>1, Follower
        <5>2. hdr2[top].mmapped = FALSE /\ top \in DOMAIN hdr2 BY <1>19
        <5> QED BY <1>17, <5>1, <5>2
      <4> QED BY <1>17, <3>2, <3>4, <4>1
    <3> QED BY <3>3, <3>4
  <2> QED BY <2>2, <2>3
<1>24. Inside(hdr2, a, W2, c2, lo)
  <2>1. \A z \in Nat : top <= z /\ z < e => z \in W2
    <3>1. Start(hdr, top) = top BY <1>2 DEF Start
    <3> QED BY <1>2, <3>1 DEF Shape, Inside
  <2>2. c2 => lo <= top /\ top < a
    BY <1>2 DEF Shape, Inside
  <2>3. \A z \in Nat : a <= z /\ z < b => z \in W2 OBVIOUS
  <2>4. lo \in Nat OBVIOUS
  <2> SUFFICES ASSUME NEW q \in DOMAIN hdr2
               PROVE  /\ \A z \in Nat : Start(hdr2, q) <= z /\ z < End(hdr2, q) => z \in W2
                      /\ c2 /\ ~hdr2[q].mmapped => lo <= q /\ q <= a
    BY DEF Inside
  <2>5. CASE q = a BY ONLY <1>2, <1>4, <1>16, <2>2, <2>3, <2>4, <2>5
  <2>6. CASE q \in {top, f, g}
    <3>1. Start(hdr2, q) = q /\ q \in Nat /\ top <= q /\ q < e /\ End(hdr2, q) \in Nat /\ End(hdr2, q) <= e
      BY <1>19, <2>6
    <3> QED BY ONLY <1>2, <1>4, <1>6, <2>1, <2>2, <2>4, <3>1
  <2>7. CASE q \in DOMAIN hdr /\ q # top
    <3>1. q \in Nat /\ Start(hdr2, q) = Start(hdr, q) /\ End(hdr2, q) = End(hdr, q)
          /\ hdr2[q].mmapped = hdr[q].mmapped
      BY <1>1, <1>17, <2>7
    <3>2. /\ \A z \in Nat : Start(hdr, q) <= z /\ z < End(hdr, q) => z \in W2
          /\ c2 /\ ~hdr[q].mmapped => lo <= q /\ q <= top
      BY <2>7 DEF Shape, Inside
    <3> QED BY ONLY <1>2, <1>4, <2>2, <3>1, <3>2
  <2> QED BY <1>18, <2>5, <2>6, <2>7
<1>25. Shape(hdr2, a, W2, c2, lo)
  BY <1>21, <1>22, <1>23, <1>24 DEF Shape
<1>26. B \subseteq Chunks(hdr2, a)
  BY <1>20 DEF Tagged
<1>27. ASSUME NEW q \in Chunks(hdr2, a)
       PROVE  /\ hdr2[End(hdr2, q)].prev_inuse <=> q \notin B
              /\ q \in B => hdr2[End(hdr2, q)].prev_size = hdr2[q].size /\ hdr2[q].prev_inuse
  <2>1. top \notin B BY DEF Tagged, Chunks
  <2>2. CASE q = top
    <3>1. top # f BY <1>31, <1>12, <2>2 DEF Chunks
    <3> QED BY <1>12, <1>16, <2>1, <2>2, <3>1
  <2>3. CASE q # top
    <3>1. q \in Chunks(hdr, top) /\ q \in DOMAIN hdr BY <1>20, <2>3 DEF Chunks
    <3>2. End(hdr2, q) = End(hdr, q) /\ End(hdr, q) \in DOMAIN hdr
      BY <1>17, <2>3, <3>1, Follower
    <3>3. hdr[End(hdr, q)].prev_inuse <=> q \notin B BY <3>1 DEF Tagged
    <3>4. q \in B => hdr[End(hdr, q)].prev_size = hdr[q].size /\ hdr[q].prev_inuse /\ End(hdr, q) # top
      BY <1>2, <3>3 DEF Tagged
    <3>5. hdr2[top].prev_inuse = TRUE BY <1>19
    <3>6. hdr2[q] = hdr[q] BY <1>17, <2>3, <3>1
    <3>7. CASE End(hdr, q) = top BY <1>2, <3>2, <3>3, <3>4, <3>5, <3>7
    <3>8. CASE End(hdr, q) # top BY <1>17, <3>2, <3>3, <3>4, <3>6, <3>8
    <3> QED BY <3>7, <3>8
  <2> QED BY <2>2, <2>3
<1>28. ASSUME NEW q \in DOMAIN hdr2, ~hdr2[q].mmapped, ~hdr2[q].prev_inuse
       PROVE  q - hdr2[q].prev_size \in B /\ End(hdr2, q - hdr2[q].prev_size) = q
  <2>1. q \in DOMAIN hdr /\ q # top BY <1>14, <1>18, <1>19, <1>28
  <2>2. hdr2[q] = hdr[q] BY <1>17, <2>1
  <2> DEFINE r == q - hdr[q].prev_size
  <2>3. r \in B /\ End(hdr, r) = q BY <1>28, <2>1, <2>2 DEF Tagged
  <2>4. r \in DOMAIN hdr /\ r # top BY <2>3 DEF Chunks, Tagged
  <2> QED BY <1>17, <2>2, <2>3, <2>4
<1>29. Tagged(hdr2, a, B)
  BY <1>14, <1>26, <1>27, <1>28 DEF Tagged
<1> QED BY <1>10, <1>11, <1>20, <1>25, <1>29

\* A mapping of s bytes from a, and o before it.
AddsMapped(hdr, a, s, o, W, W2, hdr2) ==
  /\ a \in Nat /\ 0 < a /\ aligned_OK(a) /\ s \in Nat /\ 0 < s /\ o \in Nat /\ o <= a
  /\ Vacant(hdr, a - o, a + s)
  /\ W \subseteq W2
  /\ \A z \in Nat : a - o <= z /\ z < a + s => z \in W2
  /\ DOMAIN hdr2 = DOMAIN hdr \union {a}
  /\ hdr2[a] = Hd(s, FALSE, o, TRUE)
  /\ \A q \in DOMAIN hdr : q # a => hdr2[q] = hdr[q]

\* A chunk that is mapped by itself: a, whose memory starts at b.
LEMMA AddMapped ==
  ASSUME NEW hdr, NEW top, NEW W, NEW c, NEW lo, Shape(hdr, top, W, c, lo),
         NEW B, Tagged(hdr, top, B),
         NEW a, NEW s, NEW o, NEW W2, NEW hdr2,
         AddsMapped(hdr, a, s, o, W, W2, hdr2)
  PROVE  /\ Shape(hdr2, top, W2, c, lo) /\ Tagged(hdr2, top, B)
         /\ Chunks(hdr2, top) = Chunks(hdr, top) /\ a \notin DOMAIN hdr
<1> SUFFICES ASSUME a \in Nat /\ 0 < a /\ aligned_OK(a) /\ s \in Nat /\ 0 < s /\ o \in Nat /\ o <= a,
                   Vacant(hdr, a - o, a + s),
                   W \subseteq W2,
                   \A z \in Nat : a - o <= z /\ z < a + s => z \in W2,
                   DOMAIN hdr2 = DOMAIN hdr \union {a},
                   hdr2[a] = Hd(s, FALSE, o, TRUE),
                   \A q \in DOMAIN hdr : q # a => hdr2[q] = hdr[q]
    PROVE  /\ Shape(hdr2, top, W2, c, lo) /\ Tagged(hdr2, top, B)
           /\ Chunks(hdr2, top) = Chunks(hdr, top) /\ a \notin DOMAIN hdr
  BY DEF AddsMapped
<1>1. \A q \in DOMAIN hdr : /\ q \in Nat /\ hdr[q] \in AnyHeader /\ hdr[q].prev_size <= q
                            /\ aligned_OK(q) /\ (q # top => q > 0 /\ hdr[q].size > 0)
  BY DEF Shape, Typed
<1>2. \A q \in DOMAIN hdr : /\ Start(hdr, q) \in Int /\ End(hdr, q) \in Int
                            /\ Start(hdr, q) <= q /\ q <= End(hdr, q) /\ (q # top => q < End(hdr, q))
  BY <1>1 DEF Start, End, AnyHeader
<1>3. \A q \in DOMAIN hdr : End(hdr, q) <= a - o \/ a + s <= Start(hdr, q)
  BY DEF Vacant
<1>4. a \in Nat /\ a + s \in Nat /\ a - o \in Nat /\ a - o <= a /\ a < a + s /\ 0 < a
  <2>1. a \in Nat /\ s \in Nat /\ o \in Nat /\ 0 < s /\ o <= a /\ 0 < a OBVIOUS
  <2> QED BY ONLY <2>1
<1>5. a \notin DOMAIN hdr
  <2> SUFFICES ASSUME a \in DOMAIN hdr PROVE FALSE
    OBVIOUS
  <2>1. a = top
    <3> SUFFICES ASSUME a # top PROVE FALSE
      OBVIOUS
    <3>1. Start(hdr, a) \in Int /\ End(hdr, a) \in Int /\ Start(hdr, a) <= a /\ a < End(hdr, a)
          /\ (End(hdr, a) <= a - o \/ a + s <= Start(hdr, a))
      BY <1>2, <1>3
    <3> QED BY ONLY <1>4, <3>1
  <2>2. a # NIL BY <1>4 DEF NIL
  <2>3. hdr[a].size >= MINSIZE /\ hdr[a].size \in Nat /\ MINSIZE \in Nat /\ MINSIZE > 0
    BY <1>1, <2>1, <2>2, Units DEF Shape, Typed, AnyHeader
  <2>4. a < End(hdr, a) BY <1>4, <2>3 DEF End
  <2>5. Start(hdr, a) \in Int /\ End(hdr, a) \in Int /\ Start(hdr, a) <= a
        /\ (End(hdr, a) <= a - o \/ a + s <= Start(hdr, a))
    BY <1>2, <1>3
  <2> QED BY ONLY <1>4, <2>4, <2>5
<1>6. /\ hdr2[a] \in AnyHeader /\ hdr2[a].size = s /\ hdr2[a].prev_inuse = FALSE
      /\ hdr2[a].prev_size = o /\ hdr2[a].mmapped = TRUE
  <2>1. hdr2[a] = Hd(s, FALSE, o, TRUE) /\ s \in Nat /\ o \in Nat
    OBVIOUS
  <2> QED BY ONLY <2>1 DEF Hd, AnyHeader
<1>7. End(hdr2, a) = a + s /\ Start(hdr2, a) = a - o
  BY <1>6 DEF End, Start
<1>8. \A q \in DOMAIN hdr : q # a /\ hdr2[q] = hdr[q] /\ q \in DOMAIN hdr2
        /\ End(hdr2, q) = End(hdr, q) /\ Start(hdr2, q) = Start(hdr, q)
  BY <1>5 DEF End, Start
<1>9. Chunks(hdr2, top) = Chunks(hdr, top)
  BY <1>5, <1>6, <1>8 DEF Chunks
<1>10. top \in DOMAIN hdr /\ top # a
  BY <1>5 DEF Shape, Typed
<1>11. Typed(hdr2, top)
  <2>1. top \in DOMAIN hdr2 /\ hdr2[top] = hdr[top] BY <1>8, <1>10
  <2>2. ASSUME NEW q \in DOMAIN hdr2
        PROVE  /\ q \in Nat /\ aligned_OK(q) /\ hdr2[q] \in AnyHeader /\ hdr2[q].prev_size <= q
               /\ q # top => q > 0 /\ hdr2[q].size > 0
               /\ q # top /\ ~hdr2[q].mmapped => aligned_OK(hdr2[q].size)
    <3>1. CASE q = a
      <4>1. aligned_OK(a) /\ 0 < s /\ s \in Nat /\ o <= a OBVIOUS
      <4> QED BY ONLY <1>4, <1>6, <3>1, <4>1
    <3>2. CASE q # a BY <1>1, <1>8, <3>2 DEF Shape, Typed
    <3> QED BY <3>1, <3>2
  <2> QED BY <2>1, <2>2 DEF Shape, Typed
<1>12. Apart(hdr2)
  <2> SUFFICES ASSUME NEW p \in DOMAIN hdr2, NEW q \in DOMAIN hdr2, p < q
               PROVE  End(hdr2, p) <= Start(hdr2, q)
    BY DEF Apart
  <2>1. CASE p = a
    <3>1. q \in DOMAIN hdr /\ p < q BY <1>4, <2>1
    <3>2. Start(hdr, q) \in Int /\ End(hdr, q) \in Int /\ q <= End(hdr, q) /\ q \in Nat
          /\ (End(hdr, q) <= a - o \/ a + s <= Start(hdr, q))
      BY <1>1, <1>2, <1>3, <3>1
    <3>3. a + s <= Start(hdr, q) BY ONLY <1>4, <2>1, <3>1, <3>2
    <3> QED BY <1>7, <1>8, <2>1, <3>1, <3>3
  <2>2. CASE q = a
    <3>1. p \in DOMAIN hdr /\ p < q BY <1>4, <2>2
    <3>2. Start(hdr, p) \in Int /\ End(hdr, p) \in Int /\ Start(hdr, p) <= p /\ p \in Nat
          /\ (End(hdr, p) <= a - o \/ a + s <= Start(hdr, p))
      BY <1>1, <1>2, <1>3, <3>1
    <3>3. End(hdr, p) <= a - o BY ONLY <1>4, <2>2, <3>1, <3>2
    <3> QED BY <1>7, <1>8, <2>2, <3>1, <3>3
  <2>3. CASE p # a /\ q # a
    BY <1>8, <2>3 DEF Shape, Apart
  <2> QED BY <2>1, <2>2, <2>3
<1>13. Joined(hdr2, top)
  <2> SUFFICES ASSUME NEW q \in Chunks(hdr, top)
               PROVE  /\ End(hdr2, q) \in DOMAIN hdr2 /\ ~hdr2[End(hdr2, q)].mmapped
                      /\ \A r \in DOMAIN hdr2 : r = End(hdr2, q) /\ r # top =>
                           End(hdr2, r) \in DOMAIN hdr2 /\ ~hdr2[End(hdr2, r)].mmapped
    BY <1>9 DEF Joined
  <2>1. q \in DOMAIN hdr /\ End(hdr, q) \in DOMAIN hdr /\ ~hdr[End(hdr, q)].mmapped
    BY Follower
  <2>2. ASSUME NEW r \in DOMAIN hdr2, r = End(hdr, q), r # top
        PROVE  End(hdr2, r) \in DOMAIN hdr2 /\ ~hdr2[End(hdr2, r)].mmapped
    <3>1. End(hdr, r) \in DOMAIN hdr /\ ~hdr[End(hdr, r)].mmapped
      BY <2>1, <2>2, Follower
    <3> QED BY <1>8, <2>1, <2>2, <3>1
  <2> QED BY <1>8, <2>1, <2>2
<1>14. Inside(hdr2, top, W2, c, lo)
  <2> SUFFICES ASSUME NEW q \in DOMAIN hdr2
               PROVE  /\ \A z \in Nat : Start(hdr2, q) <= z /\ z < End(hdr2, q) => z \in W2
                      /\ c /\ ~hdr2[q].mmapped => lo <= q /\ q <= top
    BY DEF Inside
  <2>1. CASE q = a
    <3>1. \A z \in Nat : a - o <= z /\ z < a + s => z \in W2 OBVIOUS
    <3> QED BY <1>6, <1>7, <2>1, <3>1
  <2>2. CASE q # a BY <1>8, <2>2 DEF Shape, Inside
  <2> QED BY <2>1, <2>2
<1>15. Tagged(hdr2, top, B)
  <2>1. \A q \in B : q \in Chunks(hdr, top) /\ q \in DOMAIN hdr BY DEF Tagged, Chunks
  <2>2. \A q \in Chunks(hdr, top) : q \in DOMAIN hdr /\ End(hdr, q) \in DOMAIN hdr BY Follower
  <2>3. hdr2[top].prev_inuse BY <1>8, <1>10 DEF Tagged
  <2>4. \A q \in Chunks(hdr, top) : hdr2[End(hdr2, q)].prev_inuse <=> q \notin B
    BY <1>8, <2>2 DEF Tagged
  <2>5. \A q \in B : hdr2[End(hdr2, q)].prev_size = hdr2[q].size /\ hdr2[q].prev_inuse
    BY <1>8, <2>1, <2>2 DEF Tagged
  <2>6. ASSUME NEW q \in DOMAIN hdr2, ~hdr2[q].mmapped, ~hdr2[q].prev_inuse
        PROVE  q - hdr2[q].prev_size \in B /\ End(hdr2, q - hdr2[q].prev_size) = q
    <3>1. q # a BY ONLY <1>6, <2>6
    <3>2. q \in DOMAIN hdr /\ hdr2[q] = hdr[q] BY <1>8, <3>1
    <3> DEFINE b == q - hdr[q].prev_size
    <3>3. b \in B /\ End(hdr, b) = q BY <2>6, <3>2 DEF Tagged
    <3>4. End(hdr2, b) = q BY <1>8, <2>1, <3>3
    <3> QED BY <3>2, <3>3, <3>4
  <2> QED BY <1>9, <2>1, <2>3, <2>4, <2>5, <2>6 DEF Tagged
<1> QED BY <1>5, <1>9, <1>11, <1>12, <1>13, <1>14, <1>15 DEF Shape

\* The mapping at p is gone.
RemovesMapped(hdr, p, W, W2, hdr2) ==
  /\ p \in DOMAIN hdr /\ hdr[p].mmapped
  /\ \A z \in W : z \in Nat /\ ~(Start(hdr, p) <= z /\ z < End(hdr, p)) => z \in W2
  /\ DOMAIN hdr2 = DOMAIN hdr \ {p}
  /\ \A q \in DOMAIN hdr2 : hdr2[q] = hdr[q]

\* munmap takes a chunk out of the layout.
LEMMA RemoveMapped ==
  ASSUME NEW hdr, NEW top, NEW W, NEW c, NEW lo, Shape(hdr, top, W, c, lo),
         NEW B, Tagged(hdr, top, B),
         NEW p, NEW W2, NEW hdr2,
         RemovesMapped(hdr, p, W, W2, hdr2)
  PROVE  /\ Shape(hdr2, top, W2, c, lo) /\ Tagged(hdr2, top, B)
         /\ Chunks(hdr2, top) = Chunks(hdr, top) /\ p # top
         /\ Vacant(hdr2, Start(hdr, p), End(hdr, p))
<1> SUFFICES ASSUME p \in DOMAIN hdr /\ hdr[p].mmapped,
                   \A z \in W : z \in Nat /\ ~(Start(hdr, p) <= z /\ z < End(hdr, p)) => z \in W2,
                   DOMAIN hdr2 = DOMAIN hdr \ {p},
                   \A q \in DOMAIN hdr2 : hdr2[q] = hdr[q]
    PROVE  /\ Shape(hdr2, top, W2, c, lo) /\ Tagged(hdr2, top, B)
           /\ Chunks(hdr2, top) = Chunks(hdr, top) /\ p # top
           /\ Vacant(hdr2, Start(hdr, p), End(hdr, p))
  BY DEF RemovesMapped
<1>1. \A q \in DOMAIN hdr : /\ q \in Nat /\ hdr[q] \in AnyHeader /\ hdr[q].prev_size <= q
  BY DEF Shape, Typed
<1>2. \A q \in DOMAIN hdr2 : q # p /\ hdr2[q] = hdr[q] /\ q \in DOMAIN hdr
        /\ End(hdr2, q) = End(hdr, q) /\ Start(hdr2, q) = Start(hdr, q)
  BY DEF End, Start
<1>3. Chunks(hdr2, top) = Chunks(hdr, top) /\ top # p /\ top \in DOMAIN hdr2
  BY <1>2 DEF Chunks, Shape, Typed
<1>4. Typed(hdr2, top)
  BY <1>2, <1>3 DEF Shape, Typed
<1>5. Apart(hdr2)
  BY <1>2 DEF Shape, Apart
<1>6. Vacant(hdr2, Start(hdr, p), End(hdr, p))
  BY <1>1, <1>2 DEF Shape, Apart, Vacant
<1>7. Joined(hdr2, top)
  <2> SUFFICES ASSUME NEW q \in Chunks(hdr, top)
               PROVE  /\ End(hdr2, q) \in DOMAIN hdr2 /\ ~hdr2[End(hdr2, q)].mmapped
                      /\ \A r \in DOMAIN hdr2 : r = End(hdr2, q) /\ r # top =>
                           End(hdr2, r) \in DOMAIN hdr2 /\ ~hdr2[End(hdr2, r)].mmapped
    BY <1>3 DEF Joined
  <2>1. q \in DOMAIN hdr /\ q # p /\ End(hdr, q) \in DOMAIN hdr /\ ~hdr[End(hdr, q)].mmapped
    BY Follower DEF Chunks
  <2>2. ASSUME NEW r \in DOMAIN hdr2, r = End(hdr, q), r # top
        PROVE  End(hdr2, r) \in DOMAIN hdr2 /\ ~hdr2[End(hdr2, r)].mmapped
    <3>1. End(hdr, r) \in DOMAIN hdr /\ ~hdr[End(hdr, r)].mmapped
      BY <2>1, <2>2, Follower
    <3> QED BY <1>2, <2>1, <2>2, <3>1
  <2> QED BY <1>2, <2>1, <2>2
<1>8. Inside(hdr2, top, W2, c, lo)
  <2>1. ASSUME NEW q \in DOMAIN hdr2, NEW z \in Nat, Start(hdr2, q) <= z, z < End(hdr2, q)
        PROVE  z \in W2
    <3>1. z \in W BY <1>2, <2>1 DEF Shape, Inside
    <3>2. End(hdr2, q) <= Start(hdr, p) \/ End(hdr, p) <= Start(hdr2, q)
      BY <1>6 DEF Vacant
    <3>3. Start(hdr, p) \in Int /\ End(hdr, p) \in Int /\ Start(hdr2, q) \in Int /\ End(hdr2, q) \in Int
      BY <1>1, <1>2 DEF Start, End, AnyHeader
    <3>4. ~(Start(hdr, p) <= z /\ z < End(hdr, p)) BY <2>1, <3>2, <3>3
    <3> QED BY <3>1, <3>4
  <2> QED BY <1>2, <2>1 DEF Shape, Inside
<1>9. Tagged(hdr2, top, B)
  <2>1. \A q \in B : q \in Chunks(hdr, top) /\ q \in DOMAIN hdr2 BY <1>3 DEF Tagged, Chunks
  <2>2. \A q \in Chunks(hdr, top) : q \in DOMAIN hdr2 /\ End(hdr, q) \in DOMAIN hdr2
    BY <1>2, Follower DEF Chunks
  <2>3. hdr2[top].prev_inuse BY <1>2, <1>3 DEF Tagged
  <2>4. \A q \in Chunks(hdr, top) : hdr2[End(hdr2, q)].prev_inuse <=> q \notin B
    BY <1>2, <2>2 DEF Tagged
  <2>5. \A q \in B : hdr2[End(hdr2, q)].prev_size = hdr2[q].size /\ hdr2[q].prev_inuse
    BY <1>2, <2>1, <2>2 DEF Tagged
  <2>6. \A q \in DOMAIN hdr2 : ~hdr2[q].mmapped /\ ~hdr2[q].prev_inuse =>
          q - hdr2[q].prev_size \in B /\ End(hdr2, q - hdr2[q].prev_size) = q
    BY <1>2, <2>1 DEF Tagged
  <2> QED BY <1>3, <2>1, <2>3, <2>4, <2>5, <2>6 DEF Tagged
<1> QED BY <1>3, <1>4, <1>5, <1>6, <1>7, <1>8, <1>9 DEF Shape

-----------------------------------------------------------------------------
(* Induction.                                                              *)

\* Every set of numbers has a least one,
LEMMA Least ==
  ASSUME NEW T, T \subseteq Nat, T # {}
  PROVE  \E x \in T : \A y \in T : x <= y
<1> DEFINE R == OpToRel(<, Nat)
<1>1. IsWellFoundedOn(R, Nat)
  BY NatLessThanWellFounded, Zenon
<1>2. \A x, y \in Nat : y < x => <<y, x>> \in R
  BY DEF OpToRel
<1> HIDE DEF R
<1>3. \E x \in T : \A y \in T : ~ (<<y, x>> \in R)
  BY <1>1, WFMin, Zenon
<1>4. PICK x \in T : \A y \in T : ~ (<<y, x>> \in R)
  BY <1>3
<1>5. \A y \in T : ~ (y < x)
  BY <1>2, <1>4, Zenon
<1>6. \A y \in T : x <= y
  BY <1>5
<1> QED BY <1>6

\* so a set with zero and the successor of each of its numbers has them all,
LEMMA Induction ==
  ASSUME NEW T, 0 \in T, \A n \in Nat : n \in T => n + 1 \in T
  PROVE  Nat \subseteq T
<1> DEFINE U == Nat \ T
<1> SUFFICES ASSUME U # {} PROVE FALSE
  OBVIOUS
<1>1. PICK x \in U : \A y \in U : x <= y
  BY Least
<1>2. x # 0 /\ x \in Nat /\ x - 1 \in Nat /\ x - 1 \in T
  BY <1>1
<1> QED BY <1>2, <1>1

\* and Min is what it should be;
LEMMA MinIs ==
  ASSUME NEW T, T \subseteq Nat, T # {}
  PROVE  Min(T) \in T /\ \A y \in T : Min(T) <= y
<1>1. \E x \in T : \A y \in T : x <= y
  BY Least
<1> QED BY <1>1, Zenon DEF Min

\* so is Max, below a bound.
LEMMA MaxIs ==
  ASSUME NEW T, T \subseteq Nat, T # {}, NEW m \in Nat, \A y \in T : y <= m
  PROVE  Max(T) \in T /\ \A y \in T : Max(T) >= y
<1> DEFINE V == {m - y : y \in T}
<1>1. V \subseteq Nat /\ V # {}
  <2>1. \A y \in T : m - y \in Nat OBVIOUS
  <2>2. PICK y \in T : TRUE OBVIOUS
  <2>3. m - y \in V OBVIOUS
  <2> QED BY <2>1, <2>3
<1>2. PICK v \in V : \A y \in V : v <= y
  BY <1>1, Least
<1>3. PICK x \in T : v = m - x
  OBVIOUS
<1>4. ASSUME NEW y \in T PROVE x >= y
  <2>1. m - y \in V OBVIOUS
  <2>2. v <= m - y BY <1>2, <2>1
  <2> QED BY <2>2, <1>3
<1>5. \E z \in T : \A y \in T : z >= y
  BY <1>4
<1> QED BY <1>5, Zenon DEF Max

-----------------------------------------------------------------------------
(* Lists: the bins, the fast bins and the entries of the cache.            *)

Injective(s) == \A m, n \in 1 .. Len(s) : s[m] = s[n] => m = n
IsList(s) == s \in Seq(Nat) /\ Injective(s)

On(f, i) == Range(At(f, i))
Members(f) == UNION {Range(f[i]) : i \in DOMAIN f}

\* No chunk is on two lists or on one twice.
Proper(f) ==
  /\ \A i \in DOMAIN f : IsList(f[i]) /\ f[i] # << >>
  /\ \A i, j \in DOMAIN f : i # j => Range(f[i]) \cap Range(f[j]) = {}

\* The elements of a list, by their places.
LEMMA InRange ==
  ASSUME NEW s \in Seq(Nat)
  PROVE  /\ Range(s) = {s[n] : n \in 1 .. Len(s)}
         /\ Range(s) \subseteq Nat
         /\ DOMAIN s = 1 .. Len(s) /\ Len(s) \in Nat
         /\ s = << >> <=> Range(s) = {}
<1>1. DOMAIN s = 1 .. Len(s) /\ Len(s) \in Nat
  OBVIOUS
<1>2. Range(s) = {s[n] : n \in 1 .. Len(s)}
  BY <1>1 DEF Range
<1>3. \A n \in 1 .. Len(s) : s[n] \in Nat
  OBVIOUS
<1>4. s # << >> => s[1] \in Range(s)
  BY <1>1, <1>2
<1>5. s = << >> => Range(s) = {}
  BY <1>1, <1>2
<1> QED BY <1>1, <1>2, <1>3, <1>4, <1>5

\* What At gives is a list, and whose members it has.
LEMMA AtList ==
  ASSUME NEW f, Proper(f), NEW i
  PROVE  /\ IsList(At(f, i))
         /\ At(f, i) # << >> <=> i \in DOMAIN f
         /\ At(f, i) # << >> => At(f, i) = f[i]
         /\ On(f, i) \subseteq Members(f)
         /\ \A p \in Members(f) : p \in Nat
         /\ \A p \in Members(f) : \E j \in DOMAIN f : \E k \in 1 .. Len(f[j]) : f[j][k] = p
         /\ \A j \in DOMAIN f : j # i => Range(f[j]) \cap On(f, i) = {}
<1>1. IsList(<< >>)
  BY DEF IsList, Injective
<1>2. IsList(At(f, i)) /\ (At(f, i) # << >> <=> i \in DOMAIN f) /\ (At(f, i) # << >> => At(f, i) = f[i])
  BY <1>1 DEF At, Proper
<1>3. \A j \in DOMAIN f : f[j] \in Seq(Nat)
  BY DEF Proper, IsList
<1>4. Range(<< >>) = {}
  BY DEF Range
<1>5. On(f, i) \subseteq Members(f)
  BY <1>2, <1>4 DEF On, At, Members
<1>6. ASSUME NEW p \in Members(f)
      PROVE  p \in Nat /\ \E j \in DOMAIN f : \E k \in 1 .. Len(f[j]) : f[j][k] = p
  <2>1. PICK j \in DOMAIN f : p \in Range(f[j]) BY DEF Members
  <2>2. Range(f[j]) = {f[j][n] : n \in 1 .. Len(f[j])} /\ Range(f[j]) \subseteq Nat BY <1>3, InRange
  <2> QED BY <2>1, <2>2
<1>7. ASSUME NEW j \in DOMAIN f, j # i
      PROVE  Range(f[j]) \cap On(f, i) = {}
  BY <1>4, <1>7 DEF On, At, Proper
<1> QED BY <1>2, <1>5, <1>6, <1>7

\* What Put is,
LEMMA PutAt ==
  ASSUME NEW f, NEW i, NEW s
  PROVE  /\ At(Put(f, i, s), i) = s
         /\ \A j : j # i => At(Put(f, i, s), j) = At(f, j)
<1> DEFINE g == Put(f, i, s)
<1>1. /\ DOMAIN g = IF s = << >> THEN DOMAIN f \ {i} ELSE DOMAIN f \cup {i}
      /\ (\A j \in DOMAIN f : j # i => g[j] = f[j]) /\ (s # << >> => g[i] = s)
  BY DEF Put, With, Restrict
<1> HIDE DEF g
<1>2. At(g, i) = s
  BY <1>1 DEF At
<1>3. ASSUME NEW j, j # i PROVE At(g, j) = At(f, j)
  BY <1>1, <1>3 DEF At
<1> QED BY <1>2, <1>3 DEF g

\* and a list replaced by one without a chunk of another list.
LEMMA PutList ==
  ASSUME NEW f, Proper(f), NEW i, NEW s, IsList(s),
         Range(s) \cap (Members(f) \ On(f, i)) = {}
  PROVE  /\ Proper(Put(f, i, s))
         /\ Members(Put(f, i, s)) = (Members(f) \ On(f, i)) \cup Range(s)
<1> DEFINE g == Put(f, i, s)
           D == IF s = << >> THEN DOMAIN f \ {i} ELSE DOMAIN f \cup {i}
<1>1. DOMAIN g = D /\ (\A j \in DOMAIN f : j # i => g[j] = f[j]) /\ (s # << >> => g[i] = s)
  BY DEF Put, With, Restrict
<1> HIDE DEF g
<1>4. \A j \in DOMAIN f : j # i => Range(f[j]) \cap On(f, i) = {} /\ Range(f[j]) \subseteq Members(f)
  BY AtList DEF Members
<1>5. \A j \in DOMAIN f : j # i => Range(f[j]) \cap Range(s) = {}
  BY <1>4
<1>6. s \in Seq(Nat)
  BY DEF IsList
<1>7. s # << >> \/ Range(s) = {}
  BY <1>6, InRange
<1>8. Proper(g)
  <2>1. \A j \in DOMAIN g : IsList(g[j]) /\ g[j] # << >>
    BY <1>1 DEF Proper
  <2>2. \A j, k \in DOMAIN g : j # k => Range(g[j]) \cap Range(g[k]) = {}
    BY <1>1, <1>5 DEF Proper
  <2> QED BY <2>1, <2>2 DEF Proper
<1>9. Members(g) = (Members(f) \ On(f, i)) \cup Range(s)
  <2>1. ASSUME NEW p \in Members(g) PROVE p \in (Members(f) \ On(f, i)) \cup Range(s)
    <3>1. PICK j \in DOMAIN g : p \in Range(g[j]) BY DEF Members
    <3> QED BY <3>1, <1>1, <1>4
  <2>2. ASSUME NEW p \in Members(f) \ On(f, i) PROVE p \in Members(g)
    <3>1. PICK j \in DOMAIN f : p \in Range(f[j]) BY DEF Members
    <3>2. j # i BY <3>1 DEF On, At
    <3> QED BY <3>1, <3>2, <1>1 DEF Members
  <2>3. Range(s) \subseteq Members(g)
    BY <1>1, <1>7 DEF Members
  <2> QED BY <2>1, <2>2, <2>3
<1> QED BY <1>8, <1>9 DEF g

\* What the operations on sequences do to a list.
LEMMA ConsList ==
  ASSUME NEW s, IsList(s), NEW p \in Nat, p \notin Range(s)
  PROVE  /\ IsList(<<p>> \o s)
         /\ Range(<<p>> \o s) = Range(s) \cup {p}
         /\ <<p>> \o s # << >>
         /\ Len(<<p>> \o s) = Len(s) + 1
         /\ (<<p>> \o s)[1] = p
<1> DEFINE t == <<p>> \o s
<1>0. s \in Seq(Nat)
  BY DEF IsList
<1>1. Len(s) \in Nat
  BY <1>0
<1>a. t \in Seq(Nat)
  BY <1>0
<1>2. /\ Len(t) = Len(s) + 1 /\ t[1] = p
      /\ \A n \in 1 .. Len(s) : t[n + 1] = s[n]
  BY <1>0, <1>1
<1> HIDE DEF t
<1>b. /\ Range(s) = {s[n] : n \in 1 .. Len(s)}
      /\ Range(t) = {t[n] : n \in 1 .. Len(t)}
  BY <1>0, <1>a, InRange
<1>3. \A n \in 1 .. Len(s) : s[n] # p
  BY <1>b
<1>c. \A m, n \in 1 .. Len(s) : s[m] = s[n] => m = n
  BY DEF IsList, Injective
<1>d. ASSUME NEW n \in 1 .. Len(t)
      PROVE  n = 1 \/ (n - 1 \in 1 .. Len(s) /\ t[n] = s[n - 1])
  <2>1. n # 1 => n - 1 \in 1 .. Len(s) /\ (n - 1) + 1 = n BY <1>1, <1>2
  <2> QED BY <2>1, <1>2
<1>4. Injective(t)
  <2> SUFFICES ASSUME NEW m \in 1 .. Len(t), NEW n \in 1 .. Len(t), t[m] = t[n]
               PROVE  m = n
    BY DEF Injective
  <2>1. m \in Int /\ n \in Int /\ (m - 1 = n - 1 => m = n) BY <1>1, <1>2
  <2>2. CASE m = 1 BY <2>2, <1>2, <1>3, <1>d
  <2>3. CASE n = 1 BY <2>3, <1>2, <1>3, <1>d
  <2>4. CASE m # 1 /\ n # 1
    <3>1. /\ m - 1 \in 1 .. Len(s) /\ t[m] = s[m - 1]
          /\ n - 1 \in 1 .. Len(s) /\ t[n] = s[n - 1]
      BY <2>4, <1>d
    <3> QED BY <3>1, <2>1, <1>c
  <2> QED BY <2>2, <2>3, <2>4
<1>5. ASSUME NEW x PROVE x \in Range(t) <=> x \in Range(s) \cup {p}
  <2>1. ASSUME NEW n \in 1 .. Len(s) PROVE s[n] \in Range(t)
    <3>1. n + 1 \in 1 .. Len(t) /\ t[n + 1] = s[n] BY <1>1, <1>2
    <3> QED BY <3>1, <1>b
  <2>2. p \in Range(t) BY <1>1, <1>2, <1>b
  <2>3. ASSUME NEW n \in 1 .. Len(t) PROVE t[n] \in Range(s) \cup {p}
    BY <1>2, <1>b, <1>d
  <2> QED BY <2>1, <2>2, <2>3, <1>b
<1>6. t # << >>
  BY <1>1, <1>2
<1> QED BY <1>2, <1>4, <1>5, <1>6, <1>a DEF IsList, t

\* A part of a list,
LEMMA PartList ==
  ASSUME NEW s, IsList(s), NEW m \in Nat, m >= 1, NEW n \in Nat, n <= Len(s)
  PROVE  /\ IsList(SubSeq(s, m, n))
         /\ Range(SubSeq(s, m, n)) = {s[k] : k \in m .. n}
         /\ Len(SubSeq(s, m, n)) = IF m <= n THEN n - m + 1 ELSE 0
         /\ \A k \in 1 .. n - m + 1 : SubSeq(s, m, n)[k] = s[m + k - 1]
<1> DEFINE t == SubSeq(s, m, n)
<1>0. s \in Seq(Nat)
  BY DEF IsList
<1>1. Len(s) \in Nat
  BY <1>0
<1>a. \A k \in m .. n : s[k] \in Nat
  BY <1>0
<1>b. m \in Int /\ n \in Int
  OBVIOUS
<1>c. t \in Seq(Nat)
  BY <1>a, <1>b, SubSeqProperties
<1>2. /\ Len(t) = IF m <= n THEN n - m + 1 ELSE 0
      /\ \A k \in 1 .. n - m + 1 : t[k] = s[m + k - 1]
  BY <1>a, <1>b, SubSeqProperties
<1> HIDE DEF t
<1>3. Injective(t)
  <2> SUFFICES ASSUME NEW j \in 1 .. Len(t), NEW k \in 1 .. Len(t), t[j] = t[k]
               PROVE  j = k
    BY DEF Injective
  <2>1. /\ t[j] = s[m + j - 1] /\ t[k] = s[m + k - 1]
        /\ m + j - 1 \in 1 .. Len(s) /\ m + k - 1 \in 1 .. Len(s)
    BY <1>1, <1>2
  <2>2. m + j - 1 = m + k - 1 BY <2>1 DEF IsList, Injective
  <2> QED BY <2>2
<1>4. Range(t) = {s[k] : k \in m .. n}
  <2>1. Range(t) = {t[k] : k \in 1 .. Len(t)} BY <1>c, InRange
  <2>2. ASSUME NEW k \in 1 .. Len(t) PROVE t[k] \in {s[j] : j \in m .. n}
    <3>1. k \in 1 .. n - m + 1 /\ m + k - 1 \in m .. n BY <1>1, <1>2
    <3> QED BY <3>1, <1>2
  <2>3. ASSUME NEW k \in m .. n PROVE s[k] \in {t[j] : j \in 1 .. Len(t)}
    <3>1. k - m + 1 \in 1 .. Len(t) /\ k - m + 1 \in 1 .. n - m + 1 /\ m + (k - m + 1) - 1 = k
      BY <1>1, <1>2
    <3>2. t[k - m + 1] = s[k] BY <3>1, <1>2
    <3> QED BY <3>1, <3>2
  <2> QED BY <2>1, <2>2, <2>3
<1> QED BY <1>2, <1>3, <1>4, <1>c DEF IsList, t

\* two lists in one,
LEMMA JoinList ==
  ASSUME NEW s, IsList(s), NEW t, IsList(t), Range(s) \cap Range(t) = {}
  PROVE  /\ IsList(s \o t)
         /\ Range(s \o t) = Range(s) \cup Range(t)
         /\ Len(s \o t) = Len(s) + Len(t)
         /\ \A n \in 1 .. Len(s) + Len(t) :
              (s \o t)[n] = IF n <= Len(s) THEN s[n] ELSE t[n - Len(s)]
<1> DEFINE r == s \o t
<1>0. s \in Seq(Nat) /\ t \in Seq(Nat)
  BY DEF IsList
<1>1. Len(s) \in Nat /\ Len(t) \in Nat
  BY <1>0
<1>a. r \in Seq(Nat)
  BY <1>0, ConcatProperties
<1>2. /\ Len(r) = Len(s) + Len(t)
      /\ \A n \in 1 .. Len(s) + Len(t) : r[n] = IF n <= Len(s) THEN s[n] ELSE t[n - Len(s)]
  BY <1>0, ConcatProperties
<1> HIDE DEF r
<1>3. /\ Range(s) = {s[n] : n \in 1 .. Len(s)}
      /\ Range(t) = {t[n] : n \in 1 .. Len(t)}
      /\ Range(r) = {r[n] : n \in 1 .. Len(r)}
  BY <1>0, <1>a, InRange
<1>4. ASSUME NEW n \in 1 .. Len(r)
      PROVE  \/ n \in 1 .. Len(s) /\ r[n] = s[n] /\ r[n] \in Range(s)
             \/ n - Len(s) \in 1 .. Len(t) /\ r[n] = t[n - Len(s)] /\ r[n] \in Range(t)
  BY <1>1, <1>2, <1>3
<1>5. Injective(r)
  <2> SUFFICES ASSUME NEW m \in 1 .. Len(r), NEW n \in 1 .. Len(r), r[m] = r[n]
               PROVE  m = n
    BY DEF Injective
  <2>1. CASE r[m] \in Range(s)
    <3>1. m \in 1 .. Len(s) /\ n \in 1 .. Len(s) /\ s[m] = s[n] BY <2>1, <1>4
    <3> QED BY <3>1 DEF IsList, Injective
  <2>2. CASE r[m] \in Range(t)
    <3>1. /\ m - Len(s) \in 1 .. Len(t) /\ n - Len(s) \in 1 .. Len(t)
          /\ t[m - Len(s)] = t[n - Len(s)]
      BY <2>2, <1>4
    <3>2. m - Len(s) = n - Len(s) BY <3>1 DEF IsList, Injective
    <3> QED BY <3>2, <1>1
  <2> QED BY <2>1, <2>2, <1>4
<1>6. ASSUME NEW n \in 1 .. Len(s) PROVE s[n] \in Range(r)
  <2>1. n \in 1 .. Len(r) /\ r[n] = s[n] BY <1>1, <1>2
  <2> QED BY <2>1, <1>3
<1>7. ASSUME NEW n \in 1 .. Len(t) PROVE t[n] \in Range(r)
  <2>1. /\ n + Len(s) \in 1 .. Len(r) /\ n + Len(s) \in 1 .. Len(s) + Len(t)
        /\ ~(n + Len(s) <= Len(s)) /\ (n + Len(s)) - Len(s) = n
    BY <1>1, <1>2
  <2>2. r[n + Len(s)] = t[n] BY <2>1, <1>2
  <2> QED BY <2>1, <2>2, <1>3
<1>8. Range(r) = Range(s) \cup Range(t)
  BY <1>3, <1>4, <1>6, <1>7
<1> QED BY <1>2, <1>5, <1>8, <1>a DEF IsList, r

\* a list without one of its chunks,
LEMMA RemoveList ==
  ASSUME NEW s, IsList(s), NEW k \in 1 .. Len(s)
  PROVE  /\ IsList(RemoveAt(s, k))
         /\ Range(RemoveAt(s, k)) = Range(s) \ {s[k]}
         /\ Len(RemoveAt(s, k)) = Len(s) - 1
         /\ \A n \in 1 .. Len(s) - 1 : RemoveAt(s, k)[n] = IF n < k THEN s[n] ELSE s[n + 1]
<1> DEFINE a == SubSeq(s, 1, k - 1)
           b == SubSeq(s, k + 1, Len(s))
<1>1. Len(s) \in Nat /\ Range(s) = {s[n] : n \in 1 .. Len(s)}
  BY InRange DEF IsList
<1>2. /\ IsList(a) /\ Range(a) = {s[n] : n \in 1 .. k - 1} /\ Len(a) = k - 1
      /\ \A n \in 1 .. k - 1 : a[n] = s[n]
  <2>1. 1 \in Nat /\ 1 >= 1 /\ k - 1 \in Nat /\ k - 1 <= Len(s) BY <1>1
  <2>2. /\ IsList(a) /\ Range(a) = {s[n] : n \in 1 .. k - 1}
        /\ Len(a) = IF 1 <= k - 1 THEN (k - 1) - 1 + 1 ELSE 0
        /\ \A n \in 1 .. (k - 1) - 1 + 1 : a[n] = s[1 + n - 1]
    BY <2>1, PartList
  <2> QED BY <1>1, <2>2
<1>3. /\ IsList(b) /\ Range(b) = {s[n] : n \in k + 1 .. Len(s)} /\ Len(b) = Len(s) - k
      /\ \A n \in 1 .. Len(s) - k : b[n] = s[n + k]
  <2>1. k + 1 \in Nat /\ k + 1 >= 1 /\ Len(s) <= Len(s) BY <1>1
  <2>2. /\ IsList(b) /\ Range(b) = {s[n] : n \in k + 1 .. Len(s)}
        /\ Len(b) = IF k + 1 <= Len(s) THEN Len(s) - (k + 1) + 1 ELSE 0
        /\ \A n \in 1 .. Len(s) - (k + 1) + 1 : b[n] = s[(k + 1) + n - 1]
    BY <1>1, <2>1, PartList
  <2> QED BY <1>1, <2>2
<1> HIDE DEF a, b
<1>4. \A m, n \in 1 .. Len(s) : s[m] = s[n] => m = n
  BY DEF IsList, Injective
<1>5. Range(a) \cap Range(b) = {}
  <2>1. ASSUME NEW m \in 1 .. k - 1, NEW n \in k + 1 .. Len(s) PROVE s[m] # s[n]
    <3>1. m \in 1 .. Len(s) /\ n \in 1 .. Len(s) /\ m # n BY <1>1
    <3> QED BY <3>1, <1>4
  <2> QED BY <1>2, <1>3, <2>1
<1>6. Range(a) \cup Range(b) = Range(s) \ {s[k]}
  BY <1>1, <1>2, <1>3, <1>4
<1>7. /\ IsList(a \o b) /\ Range(a \o b) = Range(a) \cup Range(b)
      /\ Len(a \o b) = Len(a) + Len(b)
      /\ \A n \in 1 .. Len(a) + Len(b) : (a \o b)[n] = IF n <= Len(a) THEN a[n] ELSE b[n - Len(a)]
  BY <1>2, <1>3, <1>5, JoinList
<1>8. RemoveAt(s, k) = a \o b
  BY DEF RemoveAt, a, b
<1>9. ASSUME NEW n \in 1 .. Len(s) - 1
      PROVE  (a \o b)[n] = IF n < k THEN s[n] ELSE s[n + 1]
  <2>1. CASE n < k BY <2>1, <1>1, <1>2, <1>3, <1>7
  <2>2. CASE n >= k
    <3>1. (a \o b)[n] = b[n - (k - 1)] BY <2>2, <1>1, <1>2, <1>3, <1>7
    <3>2. n - (k - 1) \in 1 .. Len(s) - k /\ n - (k - 1) + k = n + 1 BY <2>2, <1>1
    <3>3. b[n - (k - 1)] = s[n + 1] BY <3>2, <1>3
    <3> QED BY <3>1, <3>3, <2>2
  <2>3. n < k \/ n >= k BY <1>1
  <2> QED BY <2>1, <2>2, <2>3
<1>10. Len(a \o b) = Len(s) - 1
  BY <1>1, <1>2, <1>3, <1>7
<1> QED BY <1>6, <1>7, <1>8, <1>9, <1>10

\* a list with a chunk put in,
LEMMA InsertList ==
  ASSUME NEW s, IsList(s), NEW k \in 1 .. Len(s) + 1, NEW p \in Nat, p \notin Range(s)
  PROVE  /\ IsList(InsertAt(s, k, p))
         /\ Range(InsertAt(s, k, p)) = Range(s) \cup {p}
         /\ InsertAt(s, k, p) # << >>
         /\ k > 1 => InsertAt(s, k, p)[1] = s[1]
         /\ k = 1 => InsertAt(s, k, p)[1] = p
<1> DEFINE a == SubSeq(s, 1, k - 1)
           b == SubSeq(s, k, Len(s))
<1>0. s \in Seq(Nat)
  BY DEF IsList
<1>1. Len(s) \in Nat
  BY <1>0
<1>2. Range(s) = {s[n] : n \in 1 .. Len(s)}
  BY <1>0, InRange
<1>3. IsList(a) /\ Range(a) = {s[n] : n \in 1 .. k - 1} /\ Len(a) = k - 1 /\ (k > 1 => a[1] = s[1])
  <2>1. PICK l \in Nat : l = k - 1 /\ l <= Len(s) BY <1>1
  <2>2. 1 \in Nat /\ 1 >= 1 OBVIOUS
  <2>3. /\ IsList(SubSeq(s, 1, l)) /\ Range(SubSeq(s, 1, l)) = {s[n] : n \in 1 .. l}
        /\ Len(SubSeq(s, 1, l)) = IF 1 <= l THEN l - 1 + 1 ELSE 0
        /\ \A n \in 1 .. l - 1 + 1 : SubSeq(s, 1, l)[n] = s[1 + n - 1]
    BY <2>1, <2>2, PartList
  <2>4. a = SubSeq(s, 1, l) BY <2>1
  <2>5. Len(a) = l /\ (l >= 1 => a[1] = s[1]) BY <2>3, <2>4
  <2>6. k > 1 => l >= 1 BY <2>1
  <2> QED BY <2>1, <2>3, <2>4, <2>5, <2>6
<1>4. IsList(b) /\ Range(b) = {s[n] : n \in k .. Len(s)} /\ Len(b) \in Nat
  <2>1. k \in Nat /\ k >= 1 /\ Len(s) \in Nat /\ Len(s) <= Len(s) BY <1>1
  <2>2. /\ IsList(SubSeq(s, k, Len(s))) /\ Range(SubSeq(s, k, Len(s))) = {s[n] : n \in k .. Len(s)}
        /\ Len(SubSeq(s, k, Len(s))) = IF k <= Len(s) THEN Len(s) - k + 1 ELSE 0
    BY <2>1, PartList
  <2>3. b \in Seq(Nat) BY <2>2 DEF IsList
  <2> QED BY <2>2, <2>3
<1> HIDE DEF a, b
<1>5. <<p>> \o b = <<p>> \o b /\ Range(b) \subseteq Range(s) /\ Range(a) \subseteq Range(s)
  BY <1>1, <1>2, <1>3, <1>4
<1>6. /\ IsList(<<p>> \o b) /\ Range(<<p>> \o b) = Range(b) \cup {p}
      /\ (<<p>> \o b)[1] = p /\ Len(<<p>> \o b) = Len(b) + 1
  BY <1>4, <1>5, ConsList
<1>7. Range(a) \cap Range(b) = {}
  <2>1. ASSUME NEW m \in 1 .. k - 1, NEW n \in k .. Len(s) PROVE s[m] # s[n]
    <3>1. m \in 1 .. Len(s) /\ n \in 1 .. Len(s) /\ m # n BY <1>1
    <3> QED BY <3>1 DEF IsList, Injective
  <2> QED BY <1>3, <1>4, <2>1
<1>8. Range(a) \cap Range(<<p>> \o b) = {}
  BY <1>5, <1>6, <1>7
<1>9. Range(a) \cup Range(b) = Range(s)
  <2>1. ASSUME NEW n \in 1 .. Len(s) PROVE n \in 1 .. k - 1 \/ n \in k .. Len(s)
    BY <1>1
  <2> QED BY <1>2, <1>3, <1>4, <1>5, <2>1
<1> DEFINE c == <<p>> \o b
<1>10. /\ IsList(c) /\ Range(c) = Range(b) \cup {p} /\ c[1] = p /\ Len(c) \in Nat
       /\ Len(c) >= 1 /\ Range(a) \cap Range(c) = {}
  BY <1>4, <1>6, <1>8
<1> HIDE DEF c
<1>11. /\ IsList(a \o c)
       /\ Range(a \o c) = Range(a) \cup Range(c)
       /\ Len(a \o c) = Len(a) + Len(c)
       /\ \A n \in 1 .. Len(a) + Len(c) : (a \o c)[n] = IF n <= Len(a) THEN a[n] ELSE c[n - Len(a)]
  BY <1>3, <1>10, JoinList
<1>12. InsertAt(s, k, p) = a \o c
  <2>1. (SubSeq(s, 1, k - 1) \o <<p>>) \o SubSeq(s, k, Len(s)) = a \o c
    <3>1. a \in Seq(Nat) /\ b \in Seq(Nat) /\ <<p>> \in Seq(Nat) BY <1>3, <1>4 DEF IsList
    <3>2. (a \o <<p>>) \o b = a \o (<<p>> \o b) BY <3>1, ConcatAssociative
    <3> QED BY <3>2 DEF a, b, c
  <2> QED BY <2>1 DEF InsertAt
<1>13. (a \o c)[1] = IF k > 1 THEN s[1] ELSE p
  <2>1. 1 \in 1 .. Len(a) + Len(c) /\ Len(a) = k - 1 /\ k \in Nat BY <1>1, <1>3, <1>10
  <2>2. CASE k > 1 BY <2>1, <2>2, <1>3, <1>11
  <2>3. CASE k = 1 BY <2>1, <2>3, <1>10, <1>11
  <2> QED BY <2>1, <2>2, <2>3, <1>1
<1>14. Range(a \o c) = Range(s) \cup {p}
  BY <1>9, <1>10, <1>11
<1>15. a \o c # << >>
  <2>1. Range(<< >>) = {} BY DEF Range
  <2> QED BY <1>14, <2>1
<1>16. (k > 1 => (a \o c)[1] = s[1]) /\ (k = 1 => (a \o c)[1] = p)
  <2>1. k \in Nat BY <1>1
  <2> QED BY <2>1, <1>13
<1> QED BY <1>11, <1>12, <1>14, <1>15, <1>16

\* or put behind,
LEMMA AppendList ==
  ASSUME NEW s, IsList(s), NEW p \in Nat, p \notin Range(s)
  PROVE  /\ IsList(Append(s, p))
         /\ Range(Append(s, p)) = Range(s) \cup {p}
         /\ Append(s, p) # << >>
         /\ Append(s, p)[1] = IF s = << >> THEN p ELSE s[1]
<1>0. s \in Seq(Nat)
  BY DEF IsList
<1>1. Len(s) \in Nat /\ (s = << >> <=> Len(s) = 0)
  BY <1>0
<1>2. Append(s, p) = s \o <<p>> /\ <<p>> \in Seq(Nat)
  BY <1>0, AppendIsConcat
<1>3. IsList(<<p>>) /\ Range(<<p>>) = {p} /\ Len(<<p>>) = 1
  BY <1>2 DEF IsList, Injective, Range
<1>4. /\ IsList(s \o <<p>>) /\ Range(s \o <<p>>) = Range(s) \cup Range(<<p>>)
      /\ Len(s \o <<p>>) = Len(s) + Len(<<p>>)
      /\ \A n \in 1 .. Len(s) + Len(<<p>>) :
           (s \o <<p>>)[n] = IF n <= Len(s) THEN s[n] ELSE <<p>>[n - Len(s)]
  BY <1>3, JoinList
<1>5. (s \o <<p>>)[1] = IF s = << >> THEN p ELSE s[1]
  <2>1. 1 \in 1 .. Len(s) + Len(<<p>>) /\ (s = << >> <=> ~(1 <= Len(s))) BY <1>1, <1>3
  <2>2. (s \o <<p>>)[1] = IF 1 <= Len(s) THEN s[1] ELSE <<p>>[1 - Len(s)] BY <2>1, <1>4
  <2>3. s = << >> => 1 - Len(s) = 1 /\ <<p>>[1] = p BY <1>1
  <2> QED BY <2>1, <2>2, <2>3
<1>6. Range(s \o <<p>>) = Range(s) \cup {p}
  BY <1>3, <1>4
<1>7. s \o <<p>> # << >>
  <2>1. Range(<< >>) = {} BY DEF Range
  <2> QED BY <1>6, <2>1
<1> QED BY <1>2, <1>4, <1>5, <1>6, <1>7

\* a list backwards,
LEMMA ReverseList ==
  ASSUME NEW s, IsList(s)
  PROVE  IsList(Reverse(s)) /\ Range(Reverse(s)) = Range(s) /\ Len(Reverse(s)) = Len(s)
<1> DEFINE t == Reverse(s)
<1>0. s \in Seq(Nat)
  BY DEF IsList
<1>1. Len(s) \in Nat /\ (\A n \in 1 .. Len(s) : s[n] \in Nat)
  BY <1>0
<1>2. \A n \in 1 .. Len(s) : (Len(s) - n) + 1 \in 1 .. Len(s)
  BY <1>1
<1>3. t \in [1 .. Len(s) -> Nat] /\ \A n \in 1 .. Len(s) : t[n] = s[(Len(s) - n) + 1]
  BY <1>1, <1>2 DEF Reverse
<1> HIDE DEF t
<1>4. t \in Seq(Nat)
  BY <1>1, <1>3
<1>5. Len(t) = Len(s)
  <2>1. DOMAIN t = 1 .. Len(t) /\ Len(t) \in Nat BY <1>4
  <2>2. 1 .. Len(t) = 1 .. Len(s) BY <2>1, <1>3
  <2> QED BY <2>1, <2>2, <1>1
<1>6. Range(t) = {t[n] : n \in 1 .. Len(t)} /\ Range(s) = {s[n] : n \in 1 .. Len(s)}
  BY <1>0, <1>4, InRange
<1>7. Injective(t)
  <2> SUFFICES ASSUME NEW m \in 1 .. Len(t), NEW n \in 1 .. Len(t), t[m] = t[n]
               PROVE  m = n
    BY DEF Injective
  <2>1. s[(Len(s) - m) + 1] = s[(Len(s) - n) + 1] BY <1>3, <1>5
  <2>2. (Len(s) - m) + 1 = (Len(s) - n) + 1 BY <2>1, <1>2, <1>5 DEF IsList, Injective
  <2> QED BY <2>2, <1>1, <1>5
<1>8. ASSUME NEW n \in 1 .. Len(s) PROVE s[n] \in Range(t)
  <2>1. (Len(s) - n) + 1 \in 1 .. Len(s) /\ (Len(s) - ((Len(s) - n) + 1)) + 1 = n BY <1>1
  <2>2. t[(Len(s) - n) + 1] = s[n] BY <2>1, <1>3
  <2> QED BY <2>1, <2>2, <1>5, <1>6
<1>9. ASSUME NEW n \in 1 .. Len(t) PROVE t[n] \in Range(s)
  BY <1>2, <1>3, <1>5, <1>6
<1>10. Range(t) = Range(s)
  BY <1>6, <1>8, <1>9
<1> QED BY <1>4, <1>5, <1>7, <1>10 DEF IsList, t

\* and what is at the two ends of a list.
LEMMA EndsList ==
  ASSUME NEW s, IsList(s), s # << >>
  PROVE  /\ Head(s) = s[1] /\ Head(s) \in Range(s) /\ Head(s) \in Nat
         /\ IsList(Tail(s)) /\ Range(Tail(s)) = Range(s) \ {Head(s)} /\ Len(Tail(s)) = Len(s) - 1
         /\ Last(s) \in Range(s) /\ Last(s) \in Nat
         /\ IsList(Front(s)) /\ Range(Front(s)) = Range(s) \ {Last(s)} /\ Len(Front(s)) = Len(s) - 1
         /\ Len(s) \in Nat /\ Len(s) >= 1
<1>0. s \in Seq(Nat)
  BY DEF IsList
<1>1. Len(s) \in Nat /\ Len(s) >= 1 /\ Head(s) = s[1]
  BY <1>0
<1>2. Range(s) = {s[n] : n \in 1 .. Len(s)} /\ Range(s) \subseteq Nat
  BY <1>0, InRange
<1>3. Last(s) = s[Len(s)]
  BY DEF Last
<1>4. \A m, n \in 1 .. Len(s) : s[m] = s[n] => m = n
  BY DEF IsList, Injective
<1>5. Tail(s) = SubSeq(s, 2, Len(s))
  BY <1>0, TailIsSubSeq
<1>6. /\ IsList(SubSeq(s, 2, Len(s))) /\ Range(SubSeq(s, 2, Len(s))) = {s[n] : n \in 2 .. Len(s)}
      /\ Len(SubSeq(s, 2, Len(s))) = Len(s) - 1
  <2>1. 2 \in Nat /\ 2 >= 1 /\ Len(s) \in Nat /\ Len(s) <= Len(s) BY <1>1
  <2>2. /\ IsList(SubSeq(s, 2, Len(s))) /\ Range(SubSeq(s, 2, Len(s))) = {s[n] : n \in 2 .. Len(s)}
        /\ Len(SubSeq(s, 2, Len(s))) = IF 2 <= Len(s) THEN Len(s) - 2 + 1 ELSE 0
    BY <2>1, PartList
  <2>3. \A l \in Nat : l >= 1 => (IF 2 <= l THEN l - 2 + 1 ELSE 0) = l - 1 OBVIOUS
  <2> QED BY <1>1, <2>2, <2>3
<1>7. {s[n] : n \in 2 .. Len(s)} = Range(s) \ {s[1]}
  <2>1. \A n \in 2 .. Len(s) : n \in 1 .. Len(s) /\ 1 \in 1 .. Len(s) /\ n # 1 BY <1>1
  <2>2. \A n \in 1 .. Len(s) : n = 1 \/ n \in 2 .. Len(s) BY <1>1
  <2> QED BY <2>1, <2>2, <1>2, <1>4
<1>8. /\ IsList(SubSeq(s, 1, Len(s) - 1))
      /\ Range(SubSeq(s, 1, Len(s) - 1)) = {s[n] : n \in 1 .. Len(s) - 1}
      /\ Len(SubSeq(s, 1, Len(s) - 1)) = Len(s) - 1
  <2>1. 1 \in Nat /\ 1 >= 1 /\ Len(s) - 1 \in Nat /\ Len(s) - 1 <= Len(s) BY <1>1
  <2>2. /\ IsList(SubSeq(s, 1, Len(s) - 1))
        /\ Range(SubSeq(s, 1, Len(s) - 1)) = {s[n] : n \in 1 .. Len(s) - 1}
        /\ Len(SubSeq(s, 1, Len(s) - 1)) = IF 1 <= Len(s) - 1 THEN (Len(s) - 1) - 1 + 1 ELSE 0
    BY <2>1, PartList
  <2>3. \A l \in Nat : l >= 1 => (IF 1 <= l - 1 THEN (l - 1) - 1 + 1 ELSE 0) = l - 1 OBVIOUS
  <2> QED BY <1>1, <2>2, <2>3
<1>9. {s[n] : n \in 1 .. Len(s) - 1} = Range(s) \ {s[Len(s)]}
  <2>1. \A n \in 1 .. Len(s) - 1 : n \in 1 .. Len(s) /\ Len(s) \in 1 .. Len(s) /\ n # Len(s) BY <1>1
  <2>2. \A n \in 1 .. Len(s) : n = Len(s) \/ n \in 1 .. Len(s) - 1 BY <1>1
  <2> QED BY <2>1, <2>2, <1>2, <1>4
<1>10. 1 \in 1 .. Len(s) /\ Len(s) \in 1 .. Len(s)
  BY <1>1
<1>11. s[1] \in Range(s) /\ s[Len(s)] \in Range(s)
  BY <1>2, <1>10
<1> QED BY <1>1, <1>2, <1>3, <1>5, <1>6, <1>7, <1>8, <1>9, <1>11 DEF Front

\* Taking a chunk off its list keeps the lists proper.
LEMMA TakeOff ==
  ASSUME NEW f, Proper(f), NEW i \in DOMAIN f, NEW k \in 1 .. Len(f[i])
  PROVE  /\ Proper(Put(f, i, RemoveAt(f[i], k)))
         /\ Members(Put(f, i, RemoveAt(f[i], k))) = Members(f) \ {f[i][k]}
<1> DEFINE s == f[i]
           r == RemoveAt(s, k)
<1>1. /\ IsList(s) /\ On(f, i) = Range(s) /\ Range(s) \subseteq Members(f)
  BY DEF Proper, At, On, Members
<1>2. s[k] \in Range(s)
  BY <1>1, InRange DEF IsList
<1> HIDE DEF s
<1>3. k \in 1 .. Len(s)
  BY DEF s
<1>4. IsList(r)
  BY <1>1, <1>3, RemoveList
<1>5. Range(r) = Range(s) \ {s[k]}
  BY <1>1, <1>3, RemoveList
<1> HIDE DEF r
<1>6. Range(r) \cap (Members(f) \ On(f, i)) = {}
  BY <1>1, <1>5
<1>7. Proper(Put(f, i, r))
  BY <1>4, <1>6, PutList
<1>8. Members(Put(f, i, r)) = (Members(f) \ On(f, i)) \cup Range(r)
  BY <1>4, <1>6, PutList
<1>9. Members(Put(f, i, r)) = Members(f) \ {s[k]}
  BY <1>1, <1>2, <1>5, <1>8
<1> QED BY <1>7, <1>9 DEF r, s

-----------------------------------------------------------------------------
(* The invariant of the arena.  u is what is to be said of the chunks that *)
(* are neither free nor top nor on a list, F the free chunks that are on   *)
(* no bin (there is one between unlink_chunk and split), t the tcache.     *)

Fields ==
  {"hdr", "fast", "bins", "heads", "binmap", "top", "last_remainder", "have_fastchunks",
   "contiguous", "system_mem", "max_system_mem", "tcache", "entries", "max_fast", "top_pad",
   "trim_threshold", "mmap_threshold", "n_mmaps", "n_mmaps_max", "no_dyn_threshold",
   "sbrk_base", "brk", "mapped", "touched", "abort"}
Rec(h) == DOMAIN h = Fields /\ h.abort \in BOOLEAN

\* h2 differs from h at most in the fields S.
Same(h, h2, S) == Rec(h2) /\ \A f \in Fields \ S : h2[f] = h[f]

\* The bytes that sbrk and mmap gave.
PageOf(x) == x - (x % Pagesize)
Space(brk, mapped) ==
  {x \in Nat : \/ BrkStart <= x /\ x < brk
               \/ MmapStart <= x /\ x < MmapEnd /\ PageOf(x) \in mapped}

\* What does not change while a chunk is in use.
Face(hd) ==
  [size |-> hd.size, mmapped |-> hd.mmapped, offset |-> IF hd.mmapped THEN hd.prev_size ELSE 0]
Plain(size_) == [size |-> size_, mmapped |-> FALSE, offset |-> 0]

\* Every chunk of the heap is free (B), on a list of chunks in use (L) or in
\* somebody's hands (u), and only one of that.
Owned(hdr, top, L, B, u) ==
  /\ Chunks(hdr, top) = B \cup L \cup {q \in DOMAIN u : ~u[q].mmapped}
  /\ B \cap L = {} /\ B \cap DOMAIN u = {} /\ L \cap DOMAIN u = {}
  /\ \A q \in DOMAIN u : q \in DOMAIN hdr /\ Face(hdr[q]) = u[q]
  /\ \A q \in DOMAIN hdr : hdr[q].mmapped => q \in DOMAIN u

Indexed(hdr, fast_, entries) ==
  /\ \A i \in DOMAIN fast_ : \A q \in Range(fast_[i]) : fastbin_index(hdr[q].size) = i
  /\ \A i \in DOMAIN entries : /\ Len(entries[i]) <= TcacheCount
                               /\ \A q \in Range(entries[i]) : csize2tidx(hdr[q].size) = i

\* The first chunk of a large bin is in the skip list, and no chunk of another is.
Binned(hdr, bins, heads, binmap) ==
  /\ \A i \in DOMAIN bins : i = UNSORTED \/ \A q \in Range(bins[i]) : bin_index(hdr[q].size) = i
  /\ \A i \in DOMAIN bins : i >= NSMALLBINS => bins[i][1] \in heads
  /\ \A q \in heads : \E i \in DOMAIN bins : i >= NSMALLBINS /\ q \in Range(bins[i])
  /\ binmap \subseteq 2 .. NBINS - 2

Mapped(hdr) ==
  \A q \in DOMAIN hdr : hdr[q].mmapped =>
    /\ Start(hdr, q) >= MmapStart /\ Start(hdr, q) % Pagesize = 0
    /\ (hdr[q].prev_size + hdr[q].size) % Pagesize = 0
    /\ aligned_OK(hdr[q].prev_size) /\ hdr[q].size >= MINSIZE

Bounds(h) ==
  /\ h.brk \in BrkStart .. HeapEnd
  /\ h.contiguous \in BOOLEAN
  /\ h.contiguous => End(h.hdr, h.top) <= h.brk
  /\ h.top = NIL => h.contiguous /\ h.system_mem = 0
  /\ h.contiguous /\ h.top # NIL => h.sbrk_base + h.system_mem = End(h.hdr, h.top)
  /\ h.sbrk_base \in Nat /\ (h.sbrk_base = 0 <=> h.top = NIL)
  /\ h.system_mem \in Int
  /\ h.top_pad \in Nat

Lists3(h) == Proper(h.bins) /\ Proper(h.fast) /\ Proper(h.entries)
Listed(h) == Members(h.fast) \cup Members(h.entries)

Laid(h, F) ==
  /\ Shape(h.hdr, h.top, Space(h.brk, h.mapped), h.contiguous, h.sbrk_base)
  /\ Tagged(h.hdr, h.top, Members(h.bins) \cup F)

HeapOK(h, u, F, t) ==
  /\ Rec(h)
  /\ Laid(h, F)
  /\ Lists3(h)
  /\ Members(h.fast) \cap Members(h.entries) = {}
  /\ F \cap Members(h.bins) = {}
  /\ Owned(h.hdr, h.top, Listed(h), Members(h.bins) \cup F, u)
  /\ Indexed(h.hdr, h.fast, h.entries)
  /\ Binned(h.hdr, h.bins, h.heads, h.binmap)
  /\ Mapped(h.hdr)
  /\ Bounds(h)
  /\ h.tcache = t

Loose == {"abort", "touched", "last_remainder", "have_fastchunks", "max_system_mem",
          "trim_threshold", "mmap_threshold", "n_mmaps", "n_mmaps_max", "no_dyn_threshold",
          "max_fast"}

\* None of this is about the fields Loose.
LEMMA SameHeap ==
  ASSUME NEW h, NEW u, NEW F, NEW t, HeapOK(h, u, F, t), NEW h2, Same(h, h2, Loose)
  PROVE  HeapOK(h2, u, F, t)
<1>1. /\ Rec(h2) /\ h2.hdr = h.hdr /\ h2.top = h.top /\ h2.bins = h.bins /\ h2.fast = h.fast
      /\ h2.entries = h.entries /\ h2.heads = h.heads /\ h2.binmap = h.binmap
      /\ h2.brk = h.brk /\ h2.mapped = h.mapped /\ h2.contiguous = h.contiguous
      /\ h2.sbrk_base = h.sbrk_base /\ h2.system_mem = h.system_mem /\ h2.top_pad = h.top_pad
      /\ h2.tcache = h.tcache
  BY DEF Same, Fields, Loose
<1> QED BY <1>1, Zenon DEF HeapOK, Laid, Lists3, Listed, Bounds

\* A check changes nothing but abort.
LEMMA RequireSame ==
  ASSUME NEW h, Rec(h), NEW c
  PROVE  /\ Same(h, Require(h, c), {"abort"}) /\ (h.abort => Require(h, c).abort)
         /\ ~c => Require(h, c).abort
BY DEF Rec, Same, Require, Fields

\* Most steps change the layout and the bins only.
LEMMA Relaid ==
  ASSUME NEW h, NEW u, NEW F, NEW t, HeapOK(h, u, F, t),
         NEW h2, Same(h, h2, Loose \cup {"hdr", "top", "bins", "heads", "binmap"}),
         NEW u2, NEW F2, Laid(h2, F2), Proper(h2.bins), F2 \cap Members(h2.bins) = {},
         Owned(h2.hdr, h2.top, Listed(h), Members(h2.bins) \cup F2, u2),
         \A q \in Listed(h) : h2.hdr[q].size = h.hdr[q].size,
         Binned(h2.hdr, h2.bins, h2.heads, h2.binmap),
         Mapped(h2.hdr),
         End(h2.hdr, h2.top) = End(h.hdr, h.top), h2.top = NIL <=> h.top = NIL
  PROVE  HeapOK(h2, u2, F2, t)
<1>1. /\ Rec(h2) /\ h2.fast = h.fast /\ h2.entries = h.entries
      /\ h2.brk = h.brk /\ h2.mapped = h.mapped /\ h2.contiguous = h.contiguous
      /\ h2.sbrk_base = h.sbrk_base /\ h2.system_mem = h.system_mem /\ h2.top_pad = h.top_pad
      /\ h2.tcache = h.tcache
  BY DEF Same, Fields, Loose
<1>2. Bounds(h2)
  BY <1>1 DEF HeapOK, Bounds
<1>3. Indexed(h2.hdr, h2.fast, h2.entries)
  <2>1. \A i \in DOMAIN h.fast : \A q \in Range(h.fast[i]) : q \in Listed(h)
    BY DEF Listed, Members
  <2>2. \A i \in DOMAIN h.entries : \A q \in Range(h.entries[i]) : q \in Listed(h)
    BY DEF Listed, Members
  <2>3. Indexed(h.hdr, h.fast, h.entries) BY DEF HeapOK
  <2> QED BY <1>1, <2>1, <2>2, <2>3 DEF Indexed
<1>4. Listed(h2) = Listed(h) /\ Lists3(h2)
  BY <1>1 DEF Listed, Lists3, HeapOK
<1> QED BY <1>1, <1>2, <1>3, <1>4 DEF HeapOK

-----------------------------------------------------------------------------
(* Bins.                                                                   *)

\* The header of a chunk of the heap,
LEMMA ChunkFacts ==
  ASSUME NEW h, NEW u, NEW F, NEW t, HeapOK(h, u, F, t), NEW p \in Chunks(h.hdr, h.top)
  PROVE  /\ p \in DOMAIN h.hdr /\ p \in Nat /\ p > 0 /\ aligned_OK(p) /\ p # h.top
         /\ h.hdr[p].size \in ChunkSizes /\ h.hdr[p].size \in Nat /\ h.hdr[p].size >= MINSIZE
         /\ ~h.hdr[p].mmapped /\ h.hdr[p] \in AnyHeader /\ h.hdr[p].prev_size <= p
         /\ bin_index(h.hdr[p].size) \in 2 .. NBINS - 2
<1>1. /\ p \in DOMAIN h.hdr /\ p # h.top /\ ~h.hdr[p].mmapped /\ h.hdr[p].size >= MINSIZE
  BY DEF Chunks
<1>2. /\ p \in Nat /\ p > 0 /\ aligned_OK(p) /\ h.hdr[p] \in AnyHeader /\ h.hdr[p].prev_size <= p
      /\ aligned_OK(h.hdr[p].size)
  BY <1>1 DEF HeapOK, Laid, Shape, Typed
<1>3. h.hdr[p].size \in Nat
  BY <1>2 DEF AnyHeader
<1>4. h.hdr[p].size \in ChunkSizes
  BY <1>1, <1>2, <1>3 DEF ChunkSizes
<1> QED BY <1>1, <1>2, <1>3, <1>4, BinExists

\* the numbers of the bins,
LEMMA BinNumbers ==
  ASSUME NEW h, NEW u, NEW F, NEW t, HeapOK(h, u, F, t), NEW i \in DOMAIN h.bins
  PROVE  i \in 1 .. NBINS - 2
<1>1. IsList(h.bins[i]) /\ h.bins[i] # << >>
  BY DEF HeapOK, Lists3, Proper
<1>2. PICK q \in Range(h.bins[i]) : TRUE
  BY <1>1, InRange DEF IsList
<1>3. q \in Chunks(h.hdr, h.top)
  BY DEF HeapOK, Laid, Tagged, Members
<1>4. bin_index(h.hdr[q].size) \in 2 .. NBINS - 2
  BY <1>3, ChunkFacts
<1>5. i = UNSORTED \/ bin_index(h.hdr[q].size) = i
  BY DEF HeapOK, Binned
<1> QED BY <1>4, <1>5 DEF UNSORTED, NBINS

\* The skip list without the chunk at k.
HeadsWithout(heads, s, k) ==
  IF s[k] \notin heads THEN heads
  ELSE (heads \ {s[k]}) \cup (IF k < Len(s) THEN {s[k + 1]} ELSE {})

\* A chunk that is taken off its bin is still marked free.
LEMMA UnlinkFrom ==
  ASSUME NEW h, NEW u, NEW t, HeapOK(h, u, {}, t),
         NEW i \in DOMAIN h.bins, NEW k \in 1 .. Len(h.bins[i]), NEW p, h.bins[i][k] = p,
         NEW h2, Rec(h2), Same(h, h2, Loose \cup {"bins", "heads"}),
         h2.bins = Put(h.bins, i, RemoveAt(h.bins[i], k)),
         \/ h2.heads = HeadsWithout(h.heads, h.bins[i], k)
         \/ h2.heads = h.heads /\ i < NSMALLBINS
  PROVE  /\ HeapOK(h2, u, {p}, t)
         /\ p \in Chunks(h.hdr, h.top)
<1> DEFINE s == h.bins[i]
           r == RemoveAt(s, k)
<1>1. /\ IsList(s) /\ s # << >> /\ At(h.bins, i) = s /\ On(h.bins, i) = Range(s)
      /\ Proper(h.bins) /\ p \in Range(s) /\ Range(s) \subseteq Members(h.bins)
  <2>1. Proper(h.bins) BY DEF HeapOK, Lists3
  <2>2. IsList(s) /\ s # << >> /\ At(h.bins, i) = s BY <2>1 DEF Proper, At
  <2>3. s \in Seq(Nat) BY <2>2 DEF IsList
  <2>4. p \in Range(s) BY <2>3, InRange
  <2> QED BY <2>1, <2>2, <2>4 DEF On, Members
<1>2. /\ IsList(r) /\ Range(r) = Range(s) \ {p} /\ Len(r) = Len(s) - 1
      /\ \A n \in 1 .. Len(s) - 1 : r[n] = IF n < k THEN s[n] ELSE s[n + 1]
  BY <1>1, RemoveList
<1>3. \A j \in DOMAIN h.bins : j # i => Range(h.bins[j]) \cap Range(s) = {}
  BY <1>1 DEF Proper
<1> HIDE DEF r, s
<1>4. Range(r) \cap (Members(h.bins) \ On(h.bins, i)) = {}
  BY <1>1, <1>2
<1>5. /\ Proper(h2.bins)
      /\ Members(h2.bins) = (Members(h.bins) \ On(h.bins, i)) \cup Range(r)
      /\ DOMAIN h2.bins = IF r = << >> THEN DOMAIN h.bins \ {i} ELSE DOMAIN h.bins \cup {i}
      /\ \A j \in DOMAIN h.bins : j # i => h2.bins[j] = h.bins[j]
      /\ r # << >> => h2.bins[i] = r
  <2>1. h2.bins = Put(h.bins, i, r) BY DEF r, s
  <2>2. /\ Proper(Put(h.bins, i, r))
        /\ Members(Put(h.bins, i, r)) = (Members(h.bins) \ On(h.bins, i)) \cup Range(r)
    BY <1>1, <1>2, <1>4, PutList
  <2>3. /\ DOMAIN Put(h.bins, i, r) = IF r = << >> THEN DOMAIN h.bins \ {i} ELSE DOMAIN h.bins \cup {i}
        /\ \A j \in DOMAIN h.bins : j # i => Put(h.bins, i, r)[j] = h.bins[j]
        /\ r # << >> => Put(h.bins, i, r)[i] = r
    BY DEF Put, With, Restrict
  <2> QED BY <2>1, <2>2, <2>3, Zenon
<1>6. Members(h2.bins) = Members(h.bins) \ {p}
  BY <1>1, <1>2, <1>5
<1>7. Members(h2.bins) \cup {p} = Members(h.bins)
  BY <1>1, <1>6
<1>8. /\ h2.hdr = h.hdr /\ h2.top = h.top /\ h2.brk = h.brk /\ h2.mapped = h.mapped
      /\ h2.contiguous = h.contiguous /\ h2.sbrk_base = h.sbrk_base /\ h2.binmap = h.binmap
  BY DEF Same, Fields, Loose
<1>9. Binned(h2.hdr, h2.bins, h2.heads, h2.binmap)
  <2> USE DEF HeadsWithout
  <2>0. Binned(h.hdr, h.bins, h.heads, h.binmap) BY DEF HeapOK
  <2>1. ASSUME NEW j \in DOMAIN h2.bins
        PROVE  j \in DOMAIN h.bins /\ Range(h2.bins[j]) \subseteq Range(h.bins[j])
    BY <1>2, <1>5 DEF s
  <2>2. ASSUME NEW j \in DOMAIN h2.bins, j >= NSMALLBINS PROVE h2.bins[j][1] \in h2.heads
    <3>1. h.bins[j][1] \in h.heads BY <2>0, <2>1, <2>2 DEF Binned
    <3>2. CASE j # i
      <4>1. h2.bins[j] = h.bins[j] BY <2>1, <3>2, <1>5
      <4>2. h.bins[j][1] \in Range(h.bins[j])
        <5>1. h.bins[j] \in Seq(Nat) /\ h.bins[j] # << >> BY <2>1, <1>1 DEF Proper, IsList
        <5> QED BY <5>1, InRange
      <4>3. h.bins[j][1] # p BY <4>2, <2>1, <3>2, <1>1, <1>3
      <4> QED BY <3>1, <4>1, <4>3
    <3>3. CASE j = i
      <4>0. Len(s) \in Nat BY <1>1 DEF IsList
      <4>1. r # << >> /\ h2.bins[j] = r BY <3>3, <1>5
      <4>2. Len(r) >= 1
        <5>1. r \in Seq(Nat) BY <1>2 DEF IsList
        <5> QED BY <5>1, <4>1
      <4>3. 1 \in 1 .. Len(s) - 1 /\ 1 \in 1 .. Len(s) BY <4>0, <4>2, <1>2
      <4>4. \A m, n \in 1 .. Len(s) : s[m] = s[n] => m = n BY <1>1 DEF IsList, Injective
      <4>5. CASE k = 1
        <5>1. r[1] = s[2] /\ p = s[1] BY <4>5, <4>3, <1>2 DEF s
        <5>2. k < Len(s) /\ k + 1 = 2 BY <4>5, <4>0, <4>3
        <5>3. ~(i < NSMALLBINS) BY <2>2, <3>3, BinNumbers DEF NSMALLBINS
        <5> QED BY <5>1, <5>2, <5>3, <3>1, <3>3, <4>1 DEF s
      <4>6. CASE k > 1
        <5>1. r[1] = s[1] BY <4>6, <4>3, <1>2
        <5>2. s[1] # p
          <6>1. k \in 1 .. Len(s) /\ k # 1 /\ s[k] = p BY <4>6 DEF s
          <6> QED BY <6>1, <4>3, <4>4
        <5> QED BY <5>1, <5>2, <3>1, <3>3, <4>1 DEF s
      <4>7. k \in Int /\ k >= 1 BY DEF s
      <4> QED BY <4>5, <4>6, <4>7
    <3> QED BY <3>2, <3>3
  <2>3. ASSUME NEW q \in h2.heads
        PROVE  \E j \in DOMAIN h2.bins : j >= NSMALLBINS /\ q \in Range(h2.bins[j])
    <3>1. CASE q \in h.heads /\ q # p
      <4>1. PICK j \in DOMAIN h.bins : j >= NSMALLBINS /\ q \in Range(h.bins[j])
        BY <3>1, <2>0 DEF Binned
      <4>2. CASE j # i BY <4>1, <4>2, <1>5
      <4>3. CASE j = i
        <5>1. q \in Range(r) BY <4>1, <4>3, <3>1, <1>2 DEF s
        <5>2. r # << >> BY <5>1 DEF Range
        <5> QED BY <4>1, <4>3, <5>1, <5>2, <1>5
      <4> QED BY <4>2, <4>3
    <3>2. CASE ~(q \in h.heads /\ q # p)
      <4>1. p \in h.heads => i >= NSMALLBINS
        <5>1. ASSUME p \in h.heads PROVE i >= NSMALLBINS
          <6>1. PICK j \in DOMAIN h.bins : j >= NSMALLBINS /\ p \in Range(h.bins[j])
            BY <5>1, <2>0 DEF Binned
          <6>2. j = i BY <6>1, <1>1, <1>3
          <6> QED BY <6>1, <6>2
        <5> QED BY <5>1
      <4>2. p \in h.heads => ~(i < NSMALLBINS)
        BY <4>1, BinNumbers DEF NSMALLBINS
      <4>3. p \in h.heads /\ k < Len(s) /\ q = s[k + 1] BY <3>2, <4>2 DEF s
      <4>4. Len(s) \in Nat /\ k \in Nat BY <1>1 DEF IsList, s
      <4>5. k + 1 \in 1 .. Len(s) /\ k \in 1 .. Len(s) /\ k + 1 # k BY <4>3, <4>4
      <4>6. q # p BY <4>3, <4>5, <1>1 DEF IsList, Injective, s
      <4>7. q \in Range(s)
        <5>1. s \in Seq(Nat) BY <1>1 DEF IsList
        <5> QED BY <5>1, <4>3, <4>5, InRange
      <4>8. q \in Range(r) BY <4>6, <4>7, <1>2
      <4>9. r # << >> BY <4>8 DEF Range
      <4> QED BY <4>1, <4>3, <4>8, <4>9, <1>5
    <3> QED BY <3>1, <3>2
  <2> QED BY <2>0, <2>1, <2>2, <2>3, <1>8 DEF Binned
<1>10. Laid(h2, {p})
  BY <1>7, <1>8 DEF HeapOK, Laid
<1>11. Owned(h2.hdr, h2.top, Listed(h), Members(h2.bins) \cup {p}, u)
  BY <1>7, <1>8 DEF HeapOK
<1>12. {p} \cap Members(h2.bins) = {}
  BY <1>6
<1>13. HeapOK(h2, u, {p}, t)
  <2>1. Same(h, h2, Loose \cup {"hdr", "top", "bins", "heads", "binmap"}) BY DEF Same
  <2>2. Mapped(h2.hdr) BY <1>8 DEF HeapOK
  <2> QED BY <2>1, <2>2, <1>5, <1>8, <1>9, <1>10, <1>11, <1>12, Relaid
<1>14. p \in Chunks(h.hdr, h.top)
  BY <1>1 DEF HeapOK, Laid, Tagged
<1> QED BY <1>13, <1>14

\* and unlink_chunk: the chunk is free and on no bin.
LEMMA Unlink ==
  ASSUME NEW h, NEW u, NEW t, HeapOK(h, u, {}, t), NEW p \in Members(h.bins),
         NEW h2, h2 = unlink_chunk(h, p)
  PROVE  /\ HeapOK(h2, u, {p}, t)
         /\ Members(h2.bins) = Members(h.bins) \ {p}
         /\ Same(h, h2, {"bins", "heads", "abort"})
         /\ h.abort => h2.abort
         /\ p \in Chunks(h.hdr, h.top)
<1>1. \E i \in DOMAIN h.bins : \E k \in 1 .. Len(h.bins[i]) :
        h.bins[i][k] = p /\ h2 = unlink_from(h, p, i, k)
  <2> DEFINE i == CHOOSE b \in DOMAIN h.bins : p \in Range(h.bins[b])
             k == CHOOSE n \in DOMAIN h.bins[i] : h.bins[i][n] = p
  <2>1. i \in DOMAIN h.bins /\ p \in Range(h.bins[i])
    BY DEF Members
  <2>2. h2 = unlink_from(h, p, i, k)
    BY DEF unlink_chunk
  <2> HIDE DEF i
  <2>3. h.bins[i] \in Seq(Nat)
    BY <2>1 DEF HeapOK, Lists3, Proper, IsList
  <2>4. k \in 1 .. Len(h.bins[i]) /\ h.bins[i][k] = p
    BY <2>1, <2>3, InRange DEF Range
  <2> QED BY <2>1, <2>2, <2>4
<1>a. PICK i \in DOMAIN h.bins : \E k \in 1 .. Len(h.bins[i]) :
        h.bins[i][k] = p /\ h2 = unlink_from(h, p, i, k)
  BY <1>1
<1>2. PICK k \in 1 .. Len(h.bins[i]) : h.bins[i][k] = p /\ h2 = unlink_from(h, p, i, k)
  BY <1>a
<1>3. Rec(h)
  BY DEF HeapOK
<1>4. /\ Same(h, h2, {"bins", "heads", "abort"})
      /\ h.abort => h2.abort
      /\ h2.bins = Put(h.bins, i, RemoveAt(h.bins[i], k))
      /\ h2.heads = HeadsWithout(h.heads, h.bins[i], k)
  BY <1>2, <1>3 DEF unlink_from, Require, Rec, Same, Fields, HeadsWithout
<1>5. Rec(h2) /\ Same(h, h2, Loose \cup {"bins", "heads"})
  BY <1>4 DEF Same, Loose
<1>6. HeapOK(h2, u, {p}, t) /\ p \in Chunks(h.hdr, h.top)
  BY ONLY HeapOK(h, u, {}, t), <1>2, <1>4, <1>5, UnlinkFrom
<1>7. Members(h2.bins) = Members(h.bins) \ {p}
  <2>1. Proper(h.bins) BY DEF HeapOK, Lists3
  <2> QED BY <1>2, <1>4, <2>1, TakeOff
<1> QED BY <1>4, <1>6, <1>7

\* A chunk is put first into the unsorted bin.
LEMMA LinkUnsorted ==
  ASSUME NEW hdr, NEW bins, NEW heads, NEW binmap, Binned(hdr, bins, heads, binmap), Proper(bins),
         NEW p \in Nat, p \notin Members(bins),
         NEW hdr2, \A q \in Members(bins) : hdr2[q].size = hdr[q].size,
         NEW bins2, bins2 = Put(bins, UNSORTED, <<p>> \o At(bins, UNSORTED))
  PROVE  /\ Proper(bins2)
         /\ Members(bins2) = Members(bins) \cup {p}
         /\ Binned(hdr2, bins2, heads, binmap)
<1> DEFINE s == At(bins, UNSORTED)
           r == <<p>> \o s
<1>1. IsList(s) /\ Range(s) \subseteq Members(bins) /\ On(bins, UNSORTED) = Range(s)
  BY AtList DEF On
<1> HIDE DEF s
<1>2. p \notin Range(s)
  BY <1>1
<1>3. IsList(r)
  BY <1>1, <1>2, ConsList
<1>4. Range(r) = Range(s) \cup {p}
  BY <1>1, <1>2, ConsList
<1>5. r # << >>
  BY <1>1, <1>2, ConsList
<1>6. bins2 = Put(bins, UNSORTED, r)
  BY DEF s
<1> HIDE DEF r
<1>7. Range(r) \cap (Members(bins) \ On(bins, UNSORTED)) = {}
  BY <1>1, <1>4
<1>8. Proper(bins2)
  BY <1>3, <1>6, <1>7, PutList
<1>9. Members(bins2) = (Members(bins) \ On(bins, UNSORTED)) \cup Range(r)
  BY <1>3, <1>6, <1>7, PutList
<1>10. Members(bins2) = Members(bins) \cup {p}
  BY <1>1, <1>4, <1>9
<1>11. /\ DOMAIN bins2 = DOMAIN bins \cup {UNSORTED}
       /\ \A j \in DOMAIN bins : j # UNSORTED => bins2[j] = bins[j]
  BY <1>5, <1>6 DEF Put, With
<1>12. \A j \in DOMAIN bins : Range(bins[j]) \subseteq Members(bins)
  BY DEF Members
<1>13. Binned(hdr2, bins2, heads, binmap)
  <2>1. \A i \in DOMAIN bins2 : i = UNSORTED \/ \A q \in Range(bins2[i]) : bin_index(hdr2[q].size) = i
    BY <1>11, <1>12 DEF Binned
  <2>2. \A i \in DOMAIN bins2 : i >= NSMALLBINS => i # UNSORTED
    BY DEF NSMALLBINS, UNSORTED
  <2>3. \A i \in DOMAIN bins2 : i >= NSMALLBINS => bins2[i][1] \in heads
    BY <1>11, <2>2 DEF Binned
  <2>4. ASSUME NEW q \in heads
        PROVE  \E i \in DOMAIN bins2 : i >= NSMALLBINS /\ q \in Range(bins2[i])
    <3>1. PICK i \in DOMAIN bins : i >= NSMALLBINS /\ q \in Range(bins[i])
      BY DEF Binned
    <3>2. i # UNSORTED BY <3>1 DEF NSMALLBINS, UNSORTED
    <3> QED BY <3>1, <3>2, <1>11
  <2> QED BY <2>1, <2>3, <2>4 DEF Binned
<1> QED BY <1>8, <1>10, <1>13

\* The bins are ordered as before while the sizes in them stay,
LEMMA SameBinned ==
  ASSUME NEW hdr, NEW bins, NEW heads, NEW binmap, Binned(hdr, bins, heads, binmap),
         NEW hdr2, \A q \in Members(bins) : hdr2[q].size = hdr[q].size
  PROVE  Binned(hdr2, bins, heads, binmap)
<1>1. \A j \in DOMAIN bins : Range(bins[j]) \subseteq Members(bins)
  BY DEF Members
<1> QED BY <1>1 DEF Binned

\* and what mmap gave is as before.
LEMMA SameMapped ==
  ASSUME NEW hdr, Mapped(hdr), NEW hdr2,
         \A q \in DOMAIN hdr2 : hdr2[q].mmapped => q \in DOMAIN hdr /\ hdr2[q] = hdr[q]
  PROVE  Mapped(hdr2)
BY DEF Mapped, Start

\* The header of a chunk of the heap.
LEMMA PlainHd ==
  ASSUME NEW hd \in AnyHeader, ~hd.mmapped
  PROVE  hd = Hd(hd.size, hd.prev_inuse, hd.prev_size, FALSE)
<1>1. hd = Hd(hd.size, hd.prev_inuse, hd.prev_size, hd.mmapped)
  BY HeaderTypes
<1>2. hd.mmapped = FALSE
  BY DEF AnyHeader
<1> QED BY <1>1, <1>2

\* One of its fields changed.
LEMMA NewSize ==
  ASSUME NEW hd \in AnyHeader, ~hd.mmapped, NEW s
  PROVE  [hd EXCEPT !.size = s] = Hd(s, hd.prev_inuse, hd.prev_size, FALSE)
<1> DEFINE a == hd.size
           b == hd.prev_inuse
           c == hd.prev_size
           d == hd.mmapped
<1>1. hd = Hd(a, b, c, d)
  BY HeaderTypes
<1>2. d = FALSE
  BY DEF AnyHeader
<1> HIDE DEF a, b, c, d
<1>3. [hd EXCEPT !.size = s] = Hd(s, b, c, d)
  BY <1>1 DEF Hd
<1> QED BY <1>2, <1>3 DEF b, c

\* A header with another prev_size,
LEMMA NewFoot ==
  ASSUME NEW hd \in AnyHeader, ~hd.mmapped, NEW s
  PROVE  [hd EXCEPT !.prev_size = s] = Hd(hd.size, hd.prev_inuse, s, FALSE)
<1> DEFINE a == hd.size
           b == hd.prev_inuse
           c == hd.prev_size
           d == hd.mmapped
<1>1. hd = Hd(a, b, c, d)
  BY HeaderTypes
<1>2. d = FALSE
  BY DEF AnyHeader
<1> HIDE DEF a, b, c, d
<1>3. [hd EXCEPT !.prev_size = s] = Hd(a, b, s, d)
  BY <1>1 DEF Hd
<1> QED BY <1>2, <1>3 DEF a, b

Inuse(hd) == [hd EXCEPT !.prev_inuse = TRUE, !.prev_size = 0]

\* with PREV_INUSE set,
LEMMA NewInuse ==
  ASSUME NEW hd \in AnyHeader, ~hd.mmapped
  PROVE  Inuse(hd) = Hd(hd.size, TRUE, 0, FALSE)
<1> DEFINE x == [hd EXCEPT !.prev_inuse = TRUE, !.prev_size = 0]
<1>1. x \in AnyHeader
  BY DEF AnyHeader
<1>2. x.size = hd.size /\ (x.prev_inuse <=> TRUE) /\ x.prev_size = 0 /\ ~x.mmapped
  BY DEF AnyHeader
<1>3. x.prev_inuse = TRUE
  BY <1>1, <1>2 DEF AnyHeader
<1> HIDE DEF x
<1>4. x = Hd(x.size, x.prev_inuse, x.prev_size, FALSE)
  BY <1>1, <1>2, PlainHd
<1> QED BY <1>2, <1>3, <1>4 DEF x, Inuse

\* and with PREV_INUSE clear.
LEMMA NewFree ==
  ASSUME NEW hd \in AnyHeader, ~hd.mmapped
  PROVE  [hd EXCEPT !.prev_inuse = FALSE] = Hd(hd.size, FALSE, hd.prev_size, FALSE)
<1> DEFINE x == [hd EXCEPT !.prev_inuse = FALSE]
<1>1. x \in AnyHeader
  BY DEF AnyHeader
<1>2. x.size = hd.size /\ (x.prev_inuse <=> FALSE) /\ x.prev_size = hd.prev_size /\ ~x.mmapped
  BY DEF AnyHeader
<1>3. x.prev_inuse = FALSE
  BY <1>1, <1>2 DEF AnyHeader
<1> HIDE DEF x
<1>4. x = Hd(x.size, x.prev_inuse, x.prev_size, FALSE)
  BY <1>1, <1>2, PlainHd
<1> QED BY <1>2, <1>3, <1>4 DEF x

\* What is to be said of a chunk of the heap is its size,
LEMMA SetFace ==
  ASSUME NEW s, NEW b, NEW x
  PROVE  Face(Hd(s, b, x, FALSE)) = Plain(s)
BY DEF Hd, Face, Plain

\* which writing the other fields keeps,
LEMMA KeepsFace ==
  ASSUME NEW hd, ~hd.mmapped, hd.mmapped \in BOOLEAN, NEW hd2, NEW b, NEW x,
         hd2 = Hd(hd.size, b, x, FALSE)
  PROVE  Face(hd2) = Face(hd)
BY DEF Hd, Face

\* and nothing else is.
LEMMA PlainFace ==
  ASSUME NEW hd, ~hd.mmapped, hd.mmapped \in BOOLEAN
  PROVE  Face(hd) = Plain(hd.size)
BY DEF Face, Plain

Without(u, p) == [q \in DOMAIN u \ {p} |-> u[q]]

\* A chunk in somebody's hands is no chunk of a list and not free.
LEMMA HeldFacts ==
  ASSUME NEW h, NEW u, NEW F, NEW t, HeapOK(h, u, F, t), NEW p \in DOMAIN u, ~u[p].mmapped
  PROVE  /\ p \in Chunks(h.hdr, h.top)
         /\ p \notin Members(h.bins) /\ p \notin F /\ p \notin Listed(h)
         /\ u[p] = Plain(h.hdr[p].size)
<1>1. p \in DOMAIN h.hdr /\ Face(h.hdr[p]) = u[p]
  BY DEF HeapOK, Owned
<1>2. h.hdr[p] \in AnyHeader /\ ~h.hdr[p].mmapped
  BY <1>1 DEF HeapOK, Laid, Shape, Typed, Face
<1>3. u[p] = Plain(h.hdr[p].size)
  <2>1. h.hdr[p].mmapped \in BOOLEAN BY <1>2 DEF AnyHeader
  <2>2. Face(h.hdr[p]) = Plain(h.hdr[p].size) BY <1>2, <2>1, PlainFace
  <2> QED BY <1>1, <2>2
<1> QED BY <1>3 DEF HeapOK, Owned

\* The header of top.
LEMMA TopFacts ==
  ASSUME NEW h, NEW u, NEW F, NEW t, HeapOK(h, u, F, t)
  PROVE  /\ h.top \in DOMAIN h.hdr /\ h.top \in Nat /\ ~h.hdr[h.top].mmapped
         /\ h.hdr[h.top] \in AnyHeader /\ h.hdr[h.top].prev_inuse /\ aligned_OK(h.top)
         /\ h.hdr[h.top].size \in Nat
         /\ h.top # NIL => h.hdr[h.top].size >= MINSIZE
         /\ h.top = NIL => h.hdr[h.top].size = 0
         /\ h.sbrk_base \in Nat
<1>1. h.top \in DOMAIN h.hdr /\ h.top \in Nat /\ h.hdr[h.top] \in AnyHeader /\ aligned_OK(h.top)
  BY DEF HeapOK, Laid, Shape, Typed
<1>2. h.hdr[h.top].size \in Nat
  BY <1>1 DEF AnyHeader
<1> QED BY <1>1, <1>2 DEF HeapOK, Laid, Shape, Typed, Tagged, Bounds

-----------------------------------------------------------------------------
(* Headers are written, and forgotten, one at a time.                      *)

Wrote(h, h2, p, hd) ==
  /\ Same(h, h2, {"hdr"})
  /\ DOMAIN h2.hdr = DOMAIN h.hdr \cup {p}
  /\ h2.hdr[p] = hd
  /\ \A x \in DOMAIN h.hdr : x # p => h2.hdr[x] = h.hdr[x]

\* What set_head writes,
LEMMA SetHead ==
  ASSUME NEW h, Rec(h), NEW p, NEW s, NEW h2, h2 = set_head(h, p, s)
  PROVE  Wrote(h, h2, p, Hd(s, TRUE, 0, FALSE))
<1>1. Header(s, 0, FALSE) = Hd(s, TRUE, 0, FALSE)
  BY DEF Header, Hd
<1>2. h2 = [h EXCEPT !.hdr = With(h.hdr, p, Hd(s, TRUE, 0, FALSE))]
  BY <1>1 DEF set_head
<1>3. h2.hdr = With(h.hdr, p, Hd(s, TRUE, 0, FALSE)) /\ Same(h, h2, {"hdr"})
  BY <1>2 DEF Same, Rec, Fields
<1> QED BY <1>3 DEF Wrote, With

\* any header written over another,
LEMMA Update ==
  ASSUME NEW h, Rec(h), NEW p \in DOMAIN h.hdr, NEW hd,
         NEW h2, h2 = [h EXCEPT !.hdr = [h.hdr EXCEPT ![p] = hd]]
  PROVE  Wrote(h, h2, p, hd)
BY DEF Wrote, Same, Rec, Fields

\* set_head_size,
LEMMA SetHeadSize ==
  ASSUME NEW h, Rec(h), NEW p \in DOMAIN h.hdr, h.hdr[p] \in AnyHeader, ~h.hdr[p].mmapped, NEW s,
         NEW h2, h2 = set_head_size(h, p, s)
  PROVE  Wrote(h, h2, p, Hd(s, h.hdr[p].prev_inuse, h.hdr[p].prev_size, FALSE))
<1>1. h2 = [h EXCEPT !.hdr = [h.hdr EXCEPT ![p] = [h.hdr[p] EXCEPT !.size = s]]]
  BY DEF set_head_size
<1>2. [h.hdr[p] EXCEPT !.size = s] = Hd(s, h.hdr[p].prev_inuse, h.hdr[p].prev_size, FALSE)
  BY NewSize
<1> QED BY <1>1, <1>2, Update

\* set_foot,
LEMMA SetFoot ==
  ASSUME NEW h, Rec(h), NEW p, NEW s, NEW e, e = p + s,
         e \in DOMAIN h.hdr, h.hdr[e] \in AnyHeader, ~h.hdr[e].mmapped,
         NEW h2, h2 = set_foot(h, p, s)
  PROVE  Wrote(h, h2, e, Hd(h.hdr[e].size, h.hdr[e].prev_inuse, s, FALSE))
<1>1. h2 = [h EXCEPT !.hdr = [h.hdr EXCEPT ![e] = [h.hdr[e] EXCEPT !.prev_size = s]]]
  BY DEF set_foot
<1>2. [h.hdr[e] EXCEPT !.prev_size = s] = Hd(h.hdr[e].size, h.hdr[e].prev_inuse, s, FALSE)
  BY NewFoot
<1> QED BY <1>1, <1>2, Update

\* set_inuse_bit,
LEMMA SetInuse ==
  ASSUME NEW h, Rec(h), NEW e \in DOMAIN h.hdr, h.hdr[e] \in AnyHeader, ~h.hdr[e].mmapped,
         NEW h2, h2 = set_inuse_bit(h, e)
  PROVE  Wrote(h, h2, e, Hd(h.hdr[e].size, TRUE, 0, FALSE))
<1>1. h2 = [h EXCEPT !.hdr = [h.hdr EXCEPT ![e] = Inuse(h.hdr[e])]]
  <2>1. h2.hdr = [h.hdr EXCEPT ![e] = Inuse(h.hdr[e])]
    BY DEF set_inuse_bit, Inuse, Rec, Fields
  <2>2. h2 = [h EXCEPT !.hdr = h2.hdr]
    BY DEF set_inuse_bit, Inuse, Rec, Fields
  <2> QED BY <2>1, <2>2
<1>2. Inuse(h.hdr[e]) = Hd(h.hdr[e].size, TRUE, 0, FALSE)
  BY NewInuse
<1> QED BY <1>1, <1>2, Update

\* clear_inuse_bit,
LEMMA ClearInuse ==
  ASSUME NEW h, Rec(h), NEW e \in DOMAIN h.hdr, h.hdr[e] \in AnyHeader, ~h.hdr[e].mmapped,
         NEW h2, h2 = clear_inuse_bit(h, e)
  PROVE  Wrote(h, h2, e, Hd(h.hdr[e].size, FALSE, h.hdr[e].prev_size, FALSE))
<1>1. h2 = [h EXCEPT !.hdr = [h.hdr EXCEPT ![e] = [h.hdr[e] EXCEPT !.prev_inuse = FALSE]]]
  BY DEF clear_inuse_bit
<1>2. [h.hdr[e] EXCEPT !.prev_inuse = FALSE] = Hd(h.hdr[e].size, FALSE, h.hdr[e].prev_size, FALSE)
  BY NewFree
<1> QED BY <1>1, <1>2, Update

Forgot(h, h2, q) ==
  /\ Same(h, h2, {"hdr"})
  /\ DOMAIN h2.hdr = DOMAIN h.hdr \ {q}
  /\ \A x \in DOMAIN h2.hdr : h2.hdr[x] = h.hdr[x]

\* and what Forget leaves.
LEMMA Forgotten ==
  ASSUME NEW h, Rec(h), NEW q, NEW h2, h2 = Forget(h, q)
  PROVE  Forgot(h, h2, q)
BY DEF Forget, Restrict, Forgot, Same, Rec, Fields

-----------------------------------------------------------------------------
(* What a step leaves alone, and what it must say of the chunks T that it  *)
(* takes apart or puts together.                                           *)

Others(h, B, u, h2, B2, u2, T) ==
  \A x : x \notin T =>
    /\ x \in DOMAIN h2.hdr <=> x \in DOMAIN h.hdr
    /\ x \in DOMAIN h.hdr => Face(h2.hdr[x]) = Face(h.hdr[x])
    /\ x = h2.top <=> x = h.top
    /\ x \in B2 <=> x \in B
    /\ x \in DOMAIN u2 <=> x \in DOMAIN u
    /\ x \in DOMAIN u => u2[x] = u[x]

\* A chunk is free or held, and nothing else is.
Settled(h2, B2, u2, T) ==
  \A x \in T :
    /\ x \in DOMAIN h2.hdr => ~h2.hdr[x].mmapped
    /\ x \in Chunks(h2.hdr, h2.top) <=> (x \in B2 \/ x \in DOMAIN u2)
    /\ x \in DOMAIN u2 => x \notin B2 /\ u2[x] = Face(h2.hdr[x])

\* Two headers that look alike.
LEMMA SameFace ==
  ASSUME NEW hd, NEW hd2, Face(hd2) = Face(hd)
  PROVE  hd2.size = hd.size /\ hd2.mmapped = hd.mmapped /\ (hd.mmapped => hd2.prev_size = hd.prev_size)
BY DEF Face

\* Who owns what, after the chunks T have changed hands.
LEMMA Changed ==
  ASSUME NEW h, NEW u, NEW F, NEW t, HeapOK(h, u, F, t),
         NEW h2, NEW u2, NEW B2, NEW T, T \cap Listed(h) = {},
         Others(h, Members(h.bins) \cup F, u, h2, B2, u2, T), Settled(h2, B2, u2, T)
  PROVE  /\ Owned(h2.hdr, h2.top, Listed(h), B2, u2)
         /\ \A q \in Listed(h) : h2.hdr[q].size = h.hdr[q].size
         /\ Mapped(h2.hdr)
<1> DEFINE B == Members(h.bins) \cup F
           L == Listed(h)
<1>1. Owned(h.hdr, h.top, L, B, u) /\ Mapped(h.hdr)
  BY DEF HeapOK
<1>2. T \cap L = {} /\ Others(h, B, u, h2, B2, u2, T)
  OBVIOUS
<1> HIDE DEF B, L
<1>3. ASSUME NEW x, x \notin T
      PROVE  x \in Chunks(h2.hdr, h2.top) <=> x \in Chunks(h.hdr, h.top)
  <2>1. /\ x \in DOMAIN h2.hdr <=> x \in DOMAIN h.hdr
        /\ x \in DOMAIN h.hdr => Face(h2.hdr[x]) = Face(h.hdr[x])
        /\ x = h2.top <=> x = h.top
    BY <1>2, <1>3 DEF Others
  <2>2. x \in DOMAIN h.hdr => h2.hdr[x].size = h.hdr[x].size /\ h2.hdr[x].mmapped = h.hdr[x].mmapped
    BY <2>1, SameFace
  <2> QED BY <2>1, <2>2 DEF Chunks
<1>4. ASSUME NEW x
      PROVE  /\ x \in Chunks(h2.hdr, h2.top) <=> x \in B2 \/ x \in L \/ (x \in DOMAIN u2 /\ ~u2[x].mmapped)
             /\ x \in DOMAIN u2 => x \in DOMAIN h2.hdr /\ Face(h2.hdr[x]) = u2[x] /\ x \notin B2 /\ x \notin L
             /\ x \in L => x \notin B2
             /\ x \in DOMAIN h2.hdr /\ h2.hdr[x].mmapped => x \in DOMAIN u2
  <2>1. CASE x \in T
    <3>1. x \notin L BY <1>2, <2>1
    <3>2. /\ x \in DOMAIN h2.hdr => ~h2.hdr[x].mmapped
          /\ x \in Chunks(h2.hdr, h2.top) <=> (x \in B2 \/ x \in DOMAIN u2)
          /\ x \in DOMAIN u2 => x \notin B2 /\ u2[x] = Face(h2.hdr[x])
      BY <2>1 DEF Settled
    <3>3. x \in DOMAIN u2 => x \in DOMAIN h2.hdr /\ ~u2[x].mmapped
      BY <3>2 DEF Chunks, Face
    <3> QED BY <3>1, <3>2, <3>3
  <2>2. CASE x \notin T
    <3>1. /\ x \in DOMAIN h2.hdr <=> x \in DOMAIN h.hdr
          /\ x \in DOMAIN h.hdr => Face(h2.hdr[x]) = Face(h.hdr[x])
          /\ x \in B2 <=> x \in B
          /\ x \in DOMAIN u2 <=> x \in DOMAIN u
          /\ x \in DOMAIN u => u2[x] = u[x]
      BY <1>2, <2>2 DEF Others
    <3>2. x \in DOMAIN h.hdr => h2.hdr[x].mmapped = h.hdr[x].mmapped
      BY <3>1, SameFace
    <3>3. x \in Chunks(h2.hdr, h2.top) <=> x \in Chunks(h.hdr, h.top)
      BY <2>2, <1>3
    <3>4. /\ x \in Chunks(h.hdr, h.top) <=> x \in B \/ x \in L \/ (x \in DOMAIN u /\ ~u[x].mmapped)
          /\ x \in DOMAIN u => x \in DOMAIN h.hdr /\ Face(h.hdr[x]) = u[x] /\ x \notin B /\ x \notin L
          /\ x \in L => x \notin B
          /\ x \in DOMAIN h.hdr /\ h.hdr[x].mmapped => x \in DOMAIN u
      BY <1>1 DEF Owned
    <3> QED BY <3>1, <3>2, <3>3, <3>4
  <2> QED BY <2>1, <2>2
<1>5. Owned(h2.hdr, h2.top, L, B2, u2)
  BY <1>4 DEF Owned
<1>6. ASSUME NEW q \in L PROVE h2.hdr[q].size = h.hdr[q].size
  <2>1. q \notin T /\ q \in DOMAIN h.hdr BY <1>1, <1>2 DEF Owned, Chunks
  <2>2. Face(h2.hdr[q]) = Face(h.hdr[q]) BY <2>1, <1>2 DEF Others
  <2> QED BY <2>2, SameFace
<1>7. ASSUME NEW q \in DOMAIN h2.hdr, h2.hdr[q].mmapped
      PROVE  q \in DOMAIN h.hdr /\ h.hdr[q].mmapped /\ h2.hdr[q].size = h.hdr[q].size
             /\ h2.hdr[q].prev_size = h.hdr[q].prev_size
  <2>1. q \notin T BY <1>7 DEF Settled
  <2>2. q \in DOMAIN h.hdr /\ Face(h2.hdr[q]) = Face(h.hdr[q]) BY <2>1, <1>2 DEF Others
  <2> QED BY <1>7, <2>2, SameFace
<1>8. Mapped(h2.hdr)
  BY <1>1, <1>7 DEF Mapped, Start
<1> QED BY <1>5, <1>6, <1>8 DEF L

\* What is left to show of a step that changes the layout and the bins.
LEMMA Relaying ==
  ASSUME NEW h, NEW u, NEW F, NEW t, HeapOK(h, u, F, t),
         NEW h2, Same(h, h2, Loose \cup {"hdr", "top", "bins", "heads", "binmap"}),
         NEW u2, NEW F2, Laid(h2, F2), Proper(h2.bins), F2 \cap Members(h2.bins) = {},
         Binned(h2.hdr, h2.bins, h2.heads, h2.binmap),
         NEW T, T \cap Listed(h) = {},
         Others(h, Members(h.bins) \cup F, u, h2, Members(h2.bins) \cup F2, u2, T),
         Settled(h2, Members(h2.bins) \cup F2, u2, T),
         End(h2.hdr, h2.top) = End(h.hdr, h.top), h2.top = NIL <=> h.top = NIL
  PROVE  HeapOK(h2, u2, F2, t)
<1> DEFINE B2 == Members(h2.bins) \cup F2
<1>1. /\ Others(h, Members(h.bins) \cup F, u, h2, B2, u2, T)
      /\ Settled(h2, B2, u2, T)
  OBVIOUS
<1> HIDE DEF B2
<1>2. /\ Owned(h2.hdr, h2.top, Listed(h), B2, u2)
      /\ \A q \in Listed(h) : h2.hdr[q].size = h.hdr[q].size
      /\ Mapped(h2.hdr)
  BY <1>1, Changed
<1>3. Owned(h2.hdr, h2.top, Listed(h), Members(h2.bins) \cup F2, u2)
  BY <1>2 DEF B2
<1> QED BY <1>2, <1>3, Relaid

\* A check changes nothing else.
LEMMA Required ==
  ASSUME NEW h, NEW u, NEW F, NEW t, HeapOK(h, u, F, t), NEW c, NEW h2, h2 = Require(h, c)
  PROVE  /\ HeapOK(h2, u, F, t)
         /\ Same(h, h2, {"abort"})
         /\ h.abort => h2.abort
         /\ ~c => h2.abort
<1>1. Rec(h)
  BY DEF HeapOK
<1>2. Same(h, h2, {"abort"}) /\ (h.abort => h2.abort) /\ (~c => h2.abort)
  BY <1>1, RequireSame
<1>3. Same(h, h2, Loose)
  BY <1>2 DEF Same, Loose
<1> QED BY <1>2, <1>3, SameHeap

\* The types of a header of the heap.
LEMMA HeaderFacts ==
  ASSUME NEW h, NEW u, NEW F, NEW t, HeapOK(h, u, F, t), NEW x \in DOMAIN h.hdr
  PROVE  /\ x \in Nat /\ h.hdr[x] \in AnyHeader /\ h.hdr[x].size \in Nat
         /\ h.hdr[x].prev_inuse \in BOOLEAN /\ h.hdr[x].mmapped \in BOOLEAN
         /\ h.hdr[x].prev_size \in Nat /\ h.hdr[x].prev_size <= x /\ aligned_OK(x)
<1>1. x \in Nat /\ h.hdr[x] \in AnyHeader /\ h.hdr[x].prev_size <= x /\ aligned_OK(x)
  BY DEF HeapOK, Laid, Shape, Typed
<1> QED BY <1>1, HeaderTypes

\* What follows a chunk.
LEMMA NextChunk ==
  ASSUME NEW h, NEW u, NEW F, NEW t, HeapOK(h, u, F, t),
         NEW q \in Chunks(h.hdr, h.top), NEW n, n = End(h.hdr, q)
  PROVE  /\ n \in DOMAIN h.hdr /\ n \in Nat /\ ~h.hdr[n].mmapped
         /\ q < n /\ n = q + h.hdr[q].size /\ q \in Nat /\ h.hdr[q].size \in Nat
<1>1. Shape(h.hdr, h.top, Space(h.brk, h.mapped), h.contiguous, h.sbrk_base)
  BY DEF HeapOK, Laid
<1> QED BY <1>1, Follower

\* What a heap with no other free chunks says of itself.
LEMMA LaidOut ==
  ASSUME NEW h, NEW u, NEW t, HeapOK(h, u, {}, t)
  PROVE  /\ Shape(h.hdr, h.top, Space(h.brk, h.mapped), h.contiguous, h.sbrk_base)
         /\ Tagged(h.hdr, h.top, Members(h.bins))
         /\ Rec(h) /\ h.sbrk_base \in Nat
<1>1. Members(h.bins) \cup {} = Members(h.bins)
  OBVIOUS
<1> QED BY <1>1 DEF HeapOK, Laid, Bounds

-----------------------------------------------------------------------------
(* Merging.                                                                *)

\* malloc-impl.c:4300: a free chunk before p grows by p.
LEMMA Backward ==
  ASSUME NEW h, NEW u, NEW t, HeapOK(h, u, {}, t), NEW p \in DOMAIN u, ~u[p].mmapped,
         ~h.hdr[p].prev_inuse, NEW q, q = p - h.hdr[p].prev_size,
         NEW e, e = End(h.hdr, p),
         NEW h2, h2 = consolidate_backward(h, p, q),
         NEW u2, u2 = With(Without(u, p), q, Plain(e - q))
  PROVE  /\ HeapOK(h2, u2, {}, t)
         /\ q \notin DOMAIN u /\ q # p /\ q \notin Listed(h)
         /\ h2.hdr[q].prev_inuse /\ End(h2.hdr, q) = e
         /\ Same(h, h2, {"hdr", "bins", "heads", "abort"})
         /\ h.abort => h2.abort
<1> DEFINE B == Members(h.bins)
<1>1. /\ p \in Chunks(h.hdr, h.top) /\ p \notin B /\ p \notin Listed(h)
  BY HeldFacts
<1>2. p \in DOMAIN h.hdr /\ ~h.hdr[p].mmapped /\ p \in Nat /\ p # h.top
  BY <1>1, ChunkFacts
<1>3. /\ Shape(h.hdr, h.top, Space(h.brk, h.mapped), h.contiguous, h.sbrk_base)
      /\ Tagged(h.hdr, h.top, B)
  <2>1. B \cup {} = B OBVIOUS
  <2> QED BY <2>1 DEF HeapOK, Laid
<1>4. q \in B /\ End(h.hdr, q) = p
  BY <1>2, <1>3 DEF Tagged
<1>5. q \in Chunks(h.hdr, h.top)
  BY <1>3, <1>4 DEF Tagged
<1>6. /\ q \in DOMAIN h.hdr /\ q \in Nat /\ ~h.hdr[q].mmapped /\ h.hdr[q] \in AnyHeader
      /\ q < p /\ h.hdr[q].prev_size <= q /\ q # h.top
  BY <1>3, <1>4, <1>5, ChunkFacts, Follower
<1>7. /\ e \in DOMAIN h.hdr /\ e \in Nat /\ ~h.hdr[e].mmapped /\ p < e
  BY <1>1, <1>3, Follower
<1>8. /\ h.hdr[e] \in AnyHeader /\ h.hdr[e].prev_size <= e /\ h.hdr[e].prev_size \in Nat
      /\ h.hdr[q].prev_size \in Nat /\ h.hdr[q].prev_inuse \in BOOLEAN
  BY <1>6, <1>7, HeaderFacts
<1> DEFINE h0 == Require(h, chunksize(h, q) = p - q)
           h1 == unlink_chunk(h0, q)
           hA == set_head_size(h1, q, e - q)
<1>9. HeapOK(h0, u, {}, t) /\ Same(h, h0, {"abort"}) /\ (h.abort => h0.abort)
  BY Required
<1>10. h2 = Forget(hA, p)
  <2>1. h0.hdr = h.hdr BY <1>9 DEF Same, Fields
  <2> QED BY <1>6 DEF consolidate_backward, next_chunk, chunksize, End
<1> HIDE DEF h0
<1>11. h0.bins = h.bins /\ h0.hdr = h.hdr /\ h0.top = h.top
  BY <1>9 DEF Same, Fields
<1>12. /\ HeapOK(h1, u, {q}, t)
       /\ Members(h1.bins) = B \ {q}
       /\ Same(h0, h1, {"bins", "heads", "abort"})
       /\ h0.abort => h1.abort
  <2>1. q \in Members(h0.bins) BY <1>4, <1>11
  <2> QED BY <1>9, <1>11, <2>1, Unlink
<1> HIDE DEF h1
<1>13. Same(h, h1, {"bins", "heads", "abort"}) /\ h1.hdr = h.hdr /\ h1.top = h.top /\ Rec(h1)
  BY <1>9, <1>12 DEF Same, Fields
<1>14. Wrote(h1, hA, q, Hd(e - q, h.hdr[q].prev_inuse, h.hdr[q].prev_size, FALSE))
  BY <1>6, <1>13, SetHeadSize
<1> HIDE DEF hA
<1>15. Forgot(hA, h2, p)
  <2>1. Rec(hA) BY <1>14 DEF Wrote, Same
  <2> QED BY <1>10, <2>1, Forgotten
<1>16. /\ Same(h1, h2, {"hdr"})
       /\ DOMAIN h2.hdr = DOMAIN h.hdr \ {p}
       /\ h2.hdr[q] = Hd(e - q, h.hdr[q].prev_inuse, h.hdr[q].prev_size, FALSE)
       /\ \A x \in DOMAIN h.hdr \ {p} : x # q => h2.hdr[x] = h.hdr[x]
  <2>1. DOMAIN hA.hdr = DOMAIN h.hdr
    BY ONLY <1>6, <1>13, <1>14 DEF Wrote
  <2>2. DOMAIN h2.hdr = DOMAIN h.hdr \ {p}
    BY ONLY <2>1, <1>15 DEF Forgot
  <2>3. q \in DOMAIN h2.hdr
    BY ONLY <2>2, <1>6, <1>2
  <2>4. h2.hdr[q] = Hd(e - q, h.hdr[q].prev_inuse, h.hdr[q].prev_size, FALSE)
    BY ONLY <2>3, <1>14, <1>15 DEF Wrote, Forgot
  <2>5. \A x \in DOMAIN h.hdr \ {p} : x # q => h2.hdr[x] = h.hdr[x]
    BY ONLY <2>2, <1>13, <1>14, <1>15 DEF Wrote, Forgot
  <2>6. Same(h1, h2, {"hdr"})
    BY ONLY <1>14, <1>15 DEF Wrote, Forgot, Same
  <2> QED BY ONLY <2>2, <2>4, <2>5, <2>6
<1>17. /\ h2.bins = h1.bins /\ h2.heads = h1.heads /\ h2.binmap = h1.binmap /\ h2.top = h.top
       /\ h2.brk = h.brk /\ h2.mapped = h.mapped
       /\ h2.contiguous = h.contiguous /\ h2.sbrk_base = h.sbrk_base
       /\ Listed(h1) = Listed(h) /\ Members(h2.bins) = B \ {q}
  BY <1>12, <1>13, <1>16 DEF Same, Fields, Listed
<1>18. h2.hdr[e] = Hd(h.hdr[e].size, TRUE, h.hdr[e].prev_size, FALSE)
  <2>1. e # p /\ e # q BY <1>2, <1>6, <1>7
  <2>2. h2.hdr[e] = h.hdr[e] BY <1>7, <1>16, <2>1
  <2>3. h.hdr[e].prev_inuse BY <1>1, <1>3 DEF Tagged
  <2>4. h.hdr[e].prev_inuse = TRUE BY <1>8, <2>3, HeaderTypes
  <2>5. h.hdr[e] = Hd(h.hdr[e].size, h.hdr[e].prev_inuse, h.hdr[e].prev_size, FALSE)
    BY <1>7, <1>8, PlainHd
  <2> QED BY <2>2, <2>4, <2>5
<1>19. /\ Shape(h2.hdr, h.top, Space(h.brk, h.mapped), h.contiguous, h.sbrk_base)
       /\ Tagged(h2.hdr, h.top, B \ {q})
  <2> DEFINE B2 == B \ {q}
             x == h.hdr[e].prev_size
             y == h.hdr[q].prev_size
  <2>1. B2 \ {q} = B \ {q, p} BY <1>1
  <2>2. q \notin B2 /\ (q \notin B2) = TRUE OBVIOUS
  <2>3. p = End(h.hdr, q) BY <1>4
  <2>4. x \in Nat /\ x <= e /\ y \in Nat /\ y <= q /\ y = h.hdr[q].prev_size BY <1>6, <1>8
  <2>5. h2.hdr[e] = Hd(h.hdr[e].size, q \notin B2, x, FALSE)
    BY <2>2, <1>18
  <2>6. \A z \in DOMAIN h.hdr \ {p} : z # q /\ z # e => h2.hdr[z] = h.hdr[z]
    BY ONLY <1>16
  <2>7. h2.hdr[q] = Hd(e - q, h.hdr[q].prev_inuse, y, FALSE) /\ DOMAIN h2.hdr = DOMAIN h.hdr \ {p}
    BY <1>16
  <2> HIDE DEF B2, x, y, B
  <2>8. e = End(h.hdr, p)
    OBVIOUS
  <2>9. Joins(h.hdr, h.top, B, q, p, e, B2, x, y, h2.hdr)
    BY ONLY <1>1, <1>5, <2>1, <2>2, <2>3, <2>4, <2>5, <2>6, <2>7, <2>8 DEF Joins
  <2>10. /\ Shape(h2.hdr, h.top, Space(h.brk, h.mapped), h.contiguous, h.sbrk_base)
         /\ Tagged(h2.hdr, h.top, B2)
    BY ONLY <1>3, <2>9, Join
  <2> QED BY <2>10 DEF B2
<1>20. Laid(h2, {})
  <2>1. Members(h2.bins) \cup {} = B \ {q} BY <1>17
  <2> QED BY <1>17, <1>19, <2>1 DEF Laid
<1>21. q \notin DOMAIN u /\ q \notin Listed(h)
  BY <1>4 DEF HeapOK, Owned
<1>22. /\ DOMAIN u2 = (DOMAIN u \ {p}) \cup {q} /\ u2[q] = Plain(e - q)
       /\ \A x \in DOMAIN u \ {p} : u2[x] = u[x]
  BY <1>21 DEF With, Without
<1>23. Face(h2.hdr[q]) = Plain(e - q) /\ ~h2.hdr[q].mmapped /\ h2.hdr[q].size = e - q
  BY <1>16, SetFace DEF Hd
<1>24. Others(h1, Members(h1.bins) \cup {q}, u, h2, Members(h2.bins) \cup {}, u2, {p, q})
  <2>1. Members(h1.bins) = Members(h2.bins) BY ONLY <1>12, <1>17
  <2>2. h1.hdr = h.hdr /\ h1.top = h2.top BY ONLY <1>13, <1>17
  <2> QED BY ONLY <1>16, <1>22, <2>1, <2>2 DEF Others
<1>25. Settled(h2, Members(h2.bins) \cup {}, u2, {p, q})
  <2>1. e - q >= MINSIZE
    <3>1. h.hdr[q].size >= MINSIZE /\ h.hdr[q].size \in Nat BY <1>5, ChunkFacts
    <3>2. p = q + h.hdr[q].size BY <1>4 DEF End
    <3>3. MINSIZE \in Nat BY Units
    <3> QED BY ONLY <3>1, <3>2, <3>3, <1>2, <1>6, <1>7
  <2>2. q \in Chunks(h2.hdr, h2.top)
    <3>1. q \in DOMAIN h2.hdr /\ q # h2.top BY ONLY <1>2, <1>6, <1>16, <1>17
    <3> QED BY ONLY <3>1, <1>23, <2>1 DEF Chunks
  <2>3. p \notin DOMAIN h2.hdr /\ p \notin Chunks(h2.hdr, h2.top)
    <3>1. p \notin DOMAIN h2.hdr BY ONLY <1>16
    <3> QED BY ONLY <3>1 DEF Chunks
  <2>4. p \notin DOMAIN u2 /\ q \in DOMAIN u2 BY <1>6, <1>22
  <2>5. p \notin Members(h2.bins) /\ q \notin Members(h2.bins) BY <1>1, <1>17
  <2> QED BY <2>2, <2>3, <2>4, <2>5, <1>22, <1>23 DEF Settled
<1>26. Binned(h2.hdr, h2.bins, h2.heads, h2.binmap)
  <2>1. Binned(h1.hdr, h1.bins, h1.heads, h1.binmap) BY <1>12 DEF HeapOK
  <2>2. B \subseteq Chunks(h.hdr, h.top) BY <1>3 DEF Tagged
  <2>3. \A x \in Members(h1.bins) : h2.hdr[x].size = h1.hdr[x].size
    BY <2>2, <1>1, <1>12, <1>13, <1>16 DEF Chunks
  <2> QED BY <2>1, <2>3, <1>17, SameBinned
<1>27. End(h2.hdr, h2.top) = End(h1.hdr, h1.top) /\ (h2.top = NIL <=> h1.top = NIL)
  <2>1. h.top \in DOMAIN h.hdr BY TopFacts
  <2>2. h2.hdr[h.top] = h.hdr[h.top] BY <2>1, <1>2, <1>6, <1>16
  <2> QED BY <2>2, <1>13, <1>17 DEF End
<1>28. HeapOK(h2, u2, {}, t)
  <2>1. Same(h1, h2, Loose \cup {"hdr", "top", "bins", "heads", "binmap"}) BY <1>16 DEF Same
  <2>2. Proper(h2.bins) /\ {} \cap Members(h2.bins) = {}
    BY <1>12, <1>17 DEF HeapOK, Lists3
  <2>3. {p, q} \cap Listed(h1) = {} BY <1>1, <1>17, <1>21
  <2> QED BY ONLY <1>12, <1>20, <1>24, <1>25, <1>26, <1>27, <2>1, <2>2, <2>3, Relaying
<1>29. h2.hdr[q].prev_inuse /\ End(h2.hdr, q) = e
  <2>1. h.hdr[q].prev_inuse BY <1>3, <1>4 DEF Tagged
  <2> QED BY <2>1, <1>6, <1>7, <1>16 DEF Hd, End
<1>30. Same(h, h2, {"hdr", "bins", "heads", "abort"}) /\ (h.abort => h2.abort)
  BY <1>9, <1>12, <1>13, <1>16 DEF Same, Fields
<1> QED BY <1>6, <1>21, <1>28, <1>29, <1>30

\* q becomes the first chunk of the unsorted bin.
Unsorted(h, h2, q, s, e) ==
  /\ Same(h, h2, {"hdr", "bins"})
  /\ h2.bins = Put(h.bins, UNSORTED, <<q>> \o At(h.bins, UNSORTED))
  /\ DOMAIN h2.hdr = DOMAIN h.hdr
  /\ h2.hdr[q] = Hd(s, TRUE, 0, FALSE)
  /\ h2.hdr[e] = Hd(h.hdr[e].size, h.hdr[e].prev_inuse, s, FALSE)
  /\ \A x \in DOMAIN h.hdr : x # q /\ x # e => h2.hdr[x] = h.hdr[x]

\* What into_unsorted writes.
LEMMA IntoUnsorted ==
  ASSUME NEW h, Rec(h), NEW q \in DOMAIN h.hdr, NEW s, s = h.hdr[q].size,
         NEW e, e = q + s, e # q, e \in DOMAIN h.hdr, h.hdr[e] \in AnyHeader, ~h.hdr[e].mmapped,
         NEW h2, h2 = into_unsorted(h, q)
  PROVE  Unsorted(h, h2, q, s, e)
<1> DEFINE hA == link_unsorted(h, q)
           hB == set_head(hA, q, s)
<1>1. /\ Same(h, hA, {"bins"})
      /\ hA.bins = Put(h.bins, UNSORTED, <<q>> \o At(h.bins, UNSORTED))
  <2>1. hA = [h EXCEPT !.bins = Put(h.bins, UNSORTED, <<q>> \o At(h.bins, UNSORTED))]
    BY DEF link_unsorted
  <2> QED BY ONLY <2>1, Rec(h) DEF Rec, Same, Fields
<1>2. h2 = set_foot(hB, q, s)
  BY DEF into_unsorted, chunksize
<1> HIDE DEF hA
<1>3. hA.hdr = h.hdr /\ Rec(hA)
  BY ONLY <1>1 DEF Same, Fields
<1>4. Wrote(hA, hB, q, Hd(s, TRUE, 0, FALSE))
  BY <1>3, SetHead
<1> HIDE DEF hB
<1>5. Rec(hB) /\ e \in DOMAIN hB.hdr /\ hB.hdr[e] = h.hdr[e] /\ DOMAIN hB.hdr = DOMAIN h.hdr
  BY <1>3, <1>4 DEF Wrote, Same
<1>6. Wrote(hB, h2, e, Hd(h.hdr[e].size, h.hdr[e].prev_inuse, s, FALSE))
  BY <1>2, <1>5, SetFoot
<1>7. /\ Same(h, h2, {"hdr", "bins"})
      /\ h2.bins = Put(h.bins, UNSORTED, <<q>> \o At(h.bins, UNSORTED))
  BY ONLY <1>1, <1>4, <1>6 DEF Wrote, Same, Fields
<1>8. DOMAIN h2.hdr = DOMAIN h.hdr
  BY ONLY <1>5, <1>6 DEF Wrote
<1>9. h2.hdr[q] = Hd(s, TRUE, 0, FALSE)
  <2>1. q \in DOMAIN hB.hdr /\ q # e BY <1>5
  <2> QED BY ONLY <2>1, <1>4, <1>6 DEF Wrote
<1>10. \A x \in DOMAIN h.hdr : x # q /\ x # e => h2.hdr[x] = h.hdr[x]
  BY ONLY <1>3, <1>4, <1>5, <1>6 DEF Wrote
<1>11. h2.hdr[e] = Hd(h.hdr[e].size, h.hdr[e].prev_inuse, s, FALSE)
  BY ONLY <1>6 DEF Wrote
<1> QED BY ONLY <1>7, <1>8, <1>9, <1>10, <1>11 DEF Unsorted

\* What is in common where the free chunk q goes to the unsorted bin.
LEMMA UnsortedBins ==
  ASSUME NEW h, NEW u, NEW F, NEW t, HeapOK(h, u, F, t), NEW q \in Nat, q \notin Members(h.bins),
         NEW h2, h2.heads = h.heads, h2.binmap = h.binmap,
         h2.bins = Put(h.bins, UNSORTED, <<q>> \o At(h.bins, UNSORTED)),
         \A x \in Members(h.bins) : h2.hdr[x].size = h.hdr[x].size
  PROVE  /\ Proper(h2.bins)
         /\ Members(h2.bins) = Members(h.bins) \cup {q}
         /\ Binned(h2.hdr, h2.bins, h2.heads, h2.binmap)
<1>1. Binned(h.hdr, h.bins, h.heads, h.binmap) /\ Proper(h.bins)
  BY DEF HeapOK, Lists3
<1> QED BY <1>1, LinkUnsorted

\* The chunk n after q is in use: q is marked free.
LEMMA ForwardInuse ==
  ASSUME NEW h, NEW u, NEW t, HeapOK(h, u, {}, t), NEW q \in DOMAIN u, ~u[q].mmapped,
         h.hdr[q].prev_inuse, NEW n, n = End(h.hdr, q), n # h.top, inuse(h, n),
         NEW h2, h2 = into_unsorted(clear_inuse_bit(h, n), q),
         NEW u2, u2 = Without(u, q)
  PROVE  HeapOK(h2, u2, {}, t) /\ Same(h, h2, {"hdr", "bins"})
<1> DEFINE B == Members(h.bins)
           s == h.hdr[q].size
           hA == clear_inuse_bit(h, n)
<1>1. q \in Chunks(h.hdr, h.top) /\ q \notin B /\ q \notin Listed(h)
  BY HeldFacts
<1>2. /\ q \in DOMAIN h.hdr /\ ~h.hdr[q].mmapped /\ q \in Nat /\ q # h.top
      /\ s \in Nat /\ s >= MINSIZE
  BY <1>1, ChunkFacts
<1>3. /\ Shape(h.hdr, h.top, Space(h.brk, h.mapped), h.contiguous, h.sbrk_base)
      /\ Tagged(h.hdr, h.top, B)
  <2>1. B \cup {} = B OBVIOUS
  <2> QED BY <2>1 DEF HeapOK, Laid
<1>4. n \in DOMAIN h.hdr /\ n \in Nat /\ ~h.hdr[n].mmapped /\ q < n
  BY <1>1, <1>3, Follower
<1>5. h.hdr[n] \in AnyHeader /\ h.hdr[n].mmapped \in BOOLEAN /\ h.hdr[n].prev_size \in Nat
  BY <1>4, HeaderFacts
<1>6. n = q + s
  BY DEF End
<1>7. n \notin B
  <2>1. inuse(h, n) <=> h.hdr[End(h.hdr, n)].prev_inuse BY DEF inuse, next_chunk, chunksize, End
  <2> QED BY <2>1, <1>3 DEF Tagged
<1>8. Rec(h)
  BY DEF HeapOK
<1>9. Wrote(h, hA, n, Hd(h.hdr[n].size, FALSE, h.hdr[n].prev_size, FALSE))
  BY <1>4, <1>5, <1>8, ClearInuse
<1>10. h2 = into_unsorted(hA, q)
  OBVIOUS
<1> HIDE DEF hA
<1>11. DOMAIN hA.hdr = DOMAIN h.hdr /\ hA.hdr[q] = h.hdr[q] /\ Rec(hA)
  BY ONLY <1>2, <1>4, <1>9 DEF Wrote, Same
<1>12. hA.hdr[n].size = h.hdr[n].size /\ hA.hdr[n].prev_inuse = FALSE /\ ~hA.hdr[n].mmapped
       /\ hA.hdr[n] \in AnyHeader
  <2>1. hA.hdr[n] = Hd(h.hdr[n].size, FALSE, h.hdr[n].prev_size, FALSE) BY ONLY <1>9 DEF Wrote
  <2>2. h.hdr[n].size \in Nat BY <1>5, HeaderTypes
  <2> QED BY ONLY <2>1, <2>2, <1>5 DEF Hd, AnyHeader
<1> HIDE DEF s
<1>13. Unsorted(hA, h2, q, s, n)
  <2>1. s = hA.hdr[q].size BY <1>11 DEF s
  <2> QED BY ONLY <2>1, <1>2, <1>4, <1>6, <1>10, <1>11, <1>12, IntoUnsorted
<1>14. /\ Same(h, h2, {"hdr", "bins"})
       /\ h2.bins = Put(h.bins, UNSORTED, <<q>> \o At(h.bins, UNSORTED))
  BY ONLY <1>9, <1>13 DEF Wrote, Unsorted, Same, Fields
<1>15. /\ DOMAIN h2.hdr = DOMAIN h.hdr
       /\ h2.hdr[q] = Hd(s, TRUE, 0, FALSE)
       /\ h2.hdr[n] = Hd(h.hdr[n].size, FALSE, s, FALSE)
  BY ONLY <1>11, <1>12, <1>13 DEF Unsorted
<1>16. \A x \in DOMAIN h.hdr : x # q /\ x # n => h2.hdr[x] = h.hdr[x]
  BY ONLY <1>9, <1>11, <1>13 DEF Wrote, Unsorted
<1>17. /\ h2.top = h.top /\ h2.brk = h.brk /\ h2.mapped = h.mapped /\ h2.heads = h.heads
       /\ h2.contiguous = h.contiguous /\ h2.sbrk_base = h.sbrk_base /\ h2.binmap = h.binmap
  BY ONLY <1>14 DEF Same, Fields
<1>18. \A x \in DOMAIN h.hdr : Face(h2.hdr[x]) = Face(h.hdr[x])
  <2>1. Face(h2.hdr[q]) = Face(h.hdr[q])
    <3>1. h.hdr[q].mmapped \in BOOLEAN BY <1>2, HeaderFacts
    <3>2. h2.hdr[q] = Hd(h.hdr[q].size, TRUE, 0, FALSE) BY <1>15 DEF s
    <3> QED BY ONLY <3>1, <3>2, <1>2, KeepsFace
  <2>2. Face(h2.hdr[n]) = Face(h.hdr[n])
    BY ONLY <1>4, <1>5, <1>15, KeepsFace
  <2> QED BY ONLY <2>1, <2>2, <1>16
<1>19. B \subseteq DOMAIN h.hdr
  BY ONLY <1>3 DEF Tagged, Chunks
<1>20. \A x \in B : h2.hdr[x].size = h.hdr[x].size
  BY ONLY <1>18, <1>19, SameFace
<1>21. /\ Proper(h2.bins)
       /\ Members(h2.bins) = B \cup {q}
       /\ Binned(h2.hdr, h2.bins, h2.heads, h2.binmap)
  BY ONLY HeapOK(h, u, {}, t), <1>1, <1>2, <1>14, <1>17, <1>20, UnsortedBins
<1>22. /\ Shape(h2.hdr, h.top, Space(h.brk, h.mapped), h.contiguous, h.sbrk_base)
       /\ Tagged(h2.hdr, h.top, B \cup {q})
  <2> DEFINE B2 == B \cup {q}
  <2>1. B2 \ {q} = B \ {q} /\ q \in B2 /\ (q \notin B2) = FALSE
    OBVIOUS
  <2>2. h2.hdr[q] = Hd(h.hdr[q].size, h.hdr[q].prev_inuse, 0, FALSE)
    <3>1. h.hdr[q].prev_inuse \in BOOLEAN BY <1>2, HeaderFacts
    <3>2. h.hdr[q].prev_inuse = TRUE BY <3>1
    <3> QED BY ONLY <3>2, <1>15 DEF s
  <2>3. h2.hdr[n] = Hd(h.hdr[n].size, q \notin B2, s, FALSE)
    BY ONLY <2>1, <1>15
  <2>4. n = End(h.hdr, q) /\ n # h.top /\ h.hdr[q].prev_inuse
    OBVIOUS
  <2>5. s \in Nat /\ s <= n /\ s = h.hdr[q].size /\ 0 \in Nat /\ 0 <= q
    <3>1. s = h.hdr[q].size BY DEF s
    <3> QED BY ONLY <3>1, <1>2, <1>6
  <2> HIDE DEF B, B2
  <2>6. Retags(h.hdr, h.top, B, q, n, B2, s, 0, h2.hdr)
    BY ONLY <1>1, <1>7, <1>15, <1>16, <2>1, <2>2, <2>3, <2>4, <2>5 DEF Retags
  <2>7. /\ Shape(h2.hdr, h.top, Space(h.brk, h.mapped), h.contiguous, h.sbrk_base)
        /\ Tagged(h2.hdr, h.top, B2)
    BY ONLY <1>3, <2>6, Retag
  <2> QED BY ONLY <2>7 DEF B2
<1>23. Laid(h2, {})
  <2>1. Members(h2.bins) \cup {} = B \cup {q} BY ONLY <1>21
  <2> QED BY ONLY <1>17, <1>22, <2>1 DEF Laid
<1>24. DOMAIN u2 = DOMAIN u \ {q} /\ \A x \in DOMAIN u2 : u2[x] = u[x]
  BY DEF Without
<1>25. Others(h, Members(h.bins) \cup {}, u, h2, Members(h2.bins) \cup {}, u2, {q})
  BY ONLY <1>15, <1>17, <1>18, <1>21, <1>24 DEF Others
<1>26. Settled(h2, Members(h2.bins) \cup {}, u2, {q})
  <2>1. ~h2.hdr[q].mmapped /\ h2.hdr[q].size = s BY ONLY <1>15 DEF Hd
  <2>2. q \in Chunks(h2.hdr, h2.top)
    BY ONLY <2>1, <1>2, <1>15, <1>17 DEF Chunks
  <2> QED BY ONLY <2>1, <2>2, <1>21, <1>24 DEF Settled
<1>27. End(h2.hdr, h2.top) = End(h.hdr, h.top) /\ (h2.top = NIL <=> h.top = NIL)
  <2>1. h.top \in DOMAIN h.hdr BY TopFacts
  <2>2. h2.hdr[h.top].size = h.hdr[h.top].size BY ONLY <2>1, <1>18, SameFace
  <2> QED BY ONLY <2>2, <1>17 DEF End
<1>28. Same(h, h2, Loose \cup {"hdr", "top", "bins", "heads", "binmap"})
  BY ONLY <1>14 DEF Same
<1>29. {} \cap Members(h2.bins) = {} /\ {q} \cap Listed(h) = {}
  BY ONLY <1>1
<1>30. HeapOK(h2, u2, {}, t)
  BY ONLY HeapOK(h, u, {}, t), <1>21, <1>23, <1>25, <1>26, <1>27, <1>28, <1>29, Relaying
<1> QED BY ONLY <1>14, <1>30

\* The chunk after q is top: top starts at q.
LEMMA ForwardTop ==
  ASSUME NEW h, NEW u, NEW t, HeapOK(h, u, {}, t), NEW q \in DOMAIN u, ~u[q].mmapped,
         h.hdr[q].prev_inuse, NEW n, n = End(h.hdr, q), n = h.top,
         NEW h2, h2 = into_top(h, q, n),
         NEW u2, u2 = Without(u, q)
  PROVE  HeapOK(h2, u2, {}, t) /\ Same(h, h2, {"hdr", "top"})
<1> DEFINE B == Members(h.bins)
           e == End(h.hdr, n)
           hA == [h EXCEPT !.top = q]
           hB == set_head(hA, q, e - q)
<1>1. q \in Chunks(h.hdr, h.top) /\ q \notin B /\ q \notin Listed(h)
  BY HeldFacts
<1>2. /\ q \in DOMAIN h.hdr /\ ~h.hdr[q].mmapped /\ q \in Nat /\ q # h.top /\ q > 0
      /\ h.hdr[q].size \in Nat /\ h.hdr[q].size >= MINSIZE
  BY <1>1, ChunkFacts
<1>3. /\ Shape(h.hdr, h.top, Space(h.brk, h.mapped), h.contiguous, h.sbrk_base)
      /\ Tagged(h.hdr, h.top, B)
  <2>1. B \cup {} = B OBVIOUS
  <2> QED BY <2>1 DEF HeapOK, Laid
<1>4. n \in DOMAIN h.hdr /\ n \in Nat /\ ~h.hdr[n].mmapped /\ q < n
  BY <1>1, NextChunk
<1>5. Rec(h) /\ h.sbrk_base \in Nat
  BY DEF HeapOK, Bounds
<1>6. h2 = Forget(hB, n)
  BY DEF into_top, next_chunk, chunksize, End
<1>7. Same(h, hA, {"top"}) /\ hA.top = q /\ hA.hdr = h.hdr /\ Rec(hA)
  BY ONLY <1>5 DEF Rec, Same, Fields
<1> HIDE DEF hA
<1>8. Wrote(hA, hB, q, Hd(e - q, TRUE, 0, FALSE))
  BY <1>7, SetHead
<1> HIDE DEF hB
<1>9. Forgot(hB, h2, n)
  <2>1. Rec(hB) BY ONLY <1>8 DEF Wrote, Same
  <2> QED BY ONLY <1>6, <2>1, Forgotten
<1>10. Same(h, h2, {"hdr", "top"}) /\ h2.top = q
  BY ONLY <1>7, <1>8, <1>9 DEF Wrote, Forgot, Same, Fields
<1>11. DOMAIN hB.hdr = DOMAIN h.hdr
  BY ONLY <1>2, <1>7, <1>8 DEF Wrote
<1>12. DOMAIN h2.hdr = DOMAIN h.hdr \ {n}
  BY ONLY <1>9, <1>11 DEF Forgot
<1>13. h2.hdr[q] = Hd(e - q, TRUE, 0, FALSE) /\ q \in DOMAIN h2.hdr
  <2>1. q \in DOMAIN h2.hdr BY ONLY <1>2, <1>4, <1>12
  <2> QED BY ONLY <2>1, <1>8, <1>9 DEF Wrote, Forgot
<1>14. \A x \in DOMAIN h.hdr \ {n} : x # q => h2.hdr[x] = h.hdr[x]
  BY ONLY <1>7, <1>8, <1>9, <1>12 DEF Wrote, Forgot
<1>15. /\ h2.bins = h.bins /\ h2.brk = h.brk /\ h2.mapped = h.mapped /\ h2.heads = h.heads
       /\ h2.contiguous = h.contiguous /\ h2.sbrk_base = h.sbrk_base /\ h2.binmap = h.binmap
  BY ONLY <1>10 DEF Same, Fields
<1>16. /\ Shape(h2.hdr, q, Space(h.brk, h.mapped), h.contiguous, h.sbrk_base)
       /\ Tagged(h2.hdr, q, B)
  <2>1. e = End(h.hdr, h.top) /\ h.top = End(h.hdr, q) /\ h.hdr[q].prev_inuse /\ n = h.top
    OBVIOUS
  <2>2. 0 \in Nat /\ 0 <= q BY ONLY <1>2
  <2> HIDE DEF e, B
  <2>3. JoinsTop(h.hdr, h.top, B, q, e, 0, h2.hdr)
    BY ONLY <1>1, <1>12, <1>13, <1>14, <2>1, <2>2 DEF JoinsTop
  <2> QED BY ONLY <1>3, <1>5, <2>3, JoinTop
<1>17. Laid(h2, {})
  <2>1. Members(h2.bins) \cup {} = B BY ONLY <1>15
  <2> QED BY ONLY <1>10, <1>15, <1>16, <2>1 DEF Laid
<1>18. DOMAIN u2 = DOMAIN u \ {q} /\ \A x \in DOMAIN u2 : u2[x] = u[x]
  BY DEF Without
<1>19. n \notin B /\ n \notin Listed(h) /\ n \notin DOMAIN u
  <2>1. n \notin Chunks(h.hdr, h.top) BY DEF Chunks
  <2>2. Chunks(h.hdr, h.top) = (B \cup {}) \cup Listed(h) \cup {x \in DOMAIN u : ~u[x].mmapped}
        /\ \A x \in DOMAIN u : Face(h.hdr[x]) = u[x]
    BY DEF HeapOK, Owned
  <2>3. n \in DOMAIN u => ~u[n].mmapped BY ONLY <2>2, <1>4 DEF Face
  <2> QED BY ONLY <2>1, <2>2, <2>3
<1>20. Others(h, Members(h.bins) \cup {}, u, h2, Members(h2.bins) \cup {}, u2, {q, n})
  <2>1. h.top = n OBVIOUS
  <2> QED BY ONLY <2>1, <1>10, <1>12, <1>14, <1>15, <1>18 DEF Others
<1>21. Settled(h2, Members(h2.bins) \cup {}, u2, {q, n})
  <2>1. ~h2.hdr[q].mmapped BY ONLY <1>13 DEF Hd
  <2>2. q \notin Chunks(h2.hdr, h2.top) /\ n \notin Chunks(h2.hdr, h2.top) /\ n \notin DOMAIN h2.hdr
    BY ONLY <1>10, <1>12 DEF Chunks
  <2> QED BY ONLY <2>1, <2>2, <1>1, <1>15, <1>18, <1>19 DEF Settled
<1>22. Binned(h2.hdr, h2.bins, h2.heads, h2.binmap)
  <2>1. Binned(h.hdr, h.bins, h.heads, h.binmap) BY DEF HeapOK
  <2>2. \A x \in B : h2.hdr[x].size = h.hdr[x].size
    BY ONLY <1>1, <1>3, <1>14, <1>19 DEF Tagged, Chunks
  <2> QED BY ONLY <2>1, <2>2, <1>15, SameBinned
<1>23. End(h2.hdr, h2.top) = End(h.hdr, h.top) /\ (h2.top = NIL <=> h.top = NIL)
  <2>1. q # NIL /\ h.top # NIL BY <1>2, <1>4 DEF NIL
  <2>2. h.hdr[n].size \in Nat BY <1>4, HeaderFacts
  <2>3. e = n + h.hdr[n].size BY DEF End
  <2>4. End(h2.hdr, q) = q + (e - q) BY ONLY <1>13 DEF End, Hd
  <2>5. End(h2.hdr, q) = e BY ONLY <2>2, <2>3, <2>4, <1>2, <1>4
  <2> QED BY <2>1, <2>5, <1>10
<1>24. Same(h, h2, Loose \cup {"hdr", "top", "bins", "heads", "binmap"})
  BY ONLY <1>10 DEF Same
<1>25. {} \cap Members(h2.bins) = {} /\ {q, n} \cap Listed(h) = {}
  BY ONLY <1>1, <1>19
<1>26. Proper(h2.bins)
  BY <1>15 DEF HeapOK, Lists3
<1>27. HeapOK(h2, u2, {}, t)
  BY ONLY HeapOK(h, u, {}, t), <1>17, <1>20, <1>21, <1>22, <1>23, <1>24, <1>25, <1>26, Relaying
<1> QED BY ONLY <1>10, <1>27

\* A chunk that is not in use and not top is in a bin.
LEMMA NextFree ==
  ASSUME NEW h, NEW u, NEW t, HeapOK(h, u, {}, t), NEW q \in Chunks(h.hdr, h.top),
         NEW n, n = End(h.hdr, q), n # h.top, ~inuse(h, n)
  PROVE  n \in Members(h.bins)
<1> DEFINE B == Members(h.bins)
           e == End(h.hdr, n)
           r == e - h.hdr[e].prev_size
<1>1. /\ Shape(h.hdr, h.top, Space(h.brk, h.mapped), h.contiguous, h.sbrk_base)
      /\ Tagged(h.hdr, h.top, B)
  <2>1. B \cup {} = B OBVIOUS
  <2> QED BY <2>1 DEF HeapOK, Laid
<1>2. n \in DOMAIN h.hdr /\ e \in DOMAIN h.hdr /\ ~h.hdr[e].mmapped
  BY <1>1, Follower
<1>3. ~h.hdr[e].prev_inuse
  BY DEF inuse, next_chunk, chunksize, End
<1>4. r \in B /\ End(h.hdr, r) = e
  BY ONLY <1>1, <1>2, <1>3 DEF Tagged
<1>5. r \in Chunks(h.hdr, h.top)
  BY ONLY <1>1, <1>4 DEF Tagged
<1>6. h.hdr[n].size > 0
  BY <1>1, <1>2 DEF Shape, Typed
<1> HIDE DEF r
<1>7. \A x \in DOMAIN h.hdr : End(h.hdr, x) = e /\ h.hdr[x].size > 0 => x = r
  BY ONLY <1>1, <1>4, <1>5, Follower
<1> QED BY <1>2, <1>4, <1>6, <1>7

\* The chunk n after q is free: q grows by it.
LEMMA ForwardFree ==
  ASSUME NEW h, NEW u, NEW t, HeapOK(h, u, {}, t), NEW q \in DOMAIN u, ~u[q].mmapped,
         h.hdr[q].prev_inuse, NEW n, n = End(h.hdr, q), n \in Members(h.bins),
         NEW e, e = End(h.hdr, n),
         NEW h2, h2 = into_unsorted(Forget(set_head_size(unlink_chunk(h, n), q, e - q), n), q),
         NEW u2, u2 = Without(u, q)
  PROVE  /\ HeapOK(h2, u2, {}, t)
         /\ Same(h, h2, {"hdr", "bins", "heads", "abort"}) /\ (h.abort => h2.abort)
<1> DEFINE B == Members(h.bins)
           s == e - q
           h1 == unlink_chunk(h, n)
           hA == set_head_size(h1, q, s)
           hB == Forget(hA, n)
<1>1. q \in Chunks(h.hdr, h.top) /\ q \notin B /\ q \notin Listed(h)
  BY HeldFacts
<1>2. /\ q \in DOMAIN h.hdr /\ ~h.hdr[q].mmapped /\ q \in Nat /\ q # h.top
      /\ h.hdr[q].size \in Nat /\ h.hdr[q].size >= MINSIZE /\ h.hdr[q] \in AnyHeader
  BY <1>1, ChunkFacts
<1>3. /\ Shape(h.hdr, h.top, Space(h.brk, h.mapped), h.contiguous, h.sbrk_base)
      /\ Tagged(h.hdr, h.top, B) /\ Rec(h)
  BY LaidOut
<1>4. n \in Chunks(h.hdr, h.top) /\ n # h.top
  BY <1>3 DEF Tagged, Chunks
<1>5. n \in DOMAIN h.hdr /\ n \in Nat /\ ~h.hdr[n].mmapped /\ q < n
  BY <1>1, NextChunk
<1>6. e \in DOMAIN h.hdr /\ e \in Nat /\ ~h.hdr[e].mmapped /\ n < e
  BY <1>4, NextChunk
<1>7. h.hdr[e] \in AnyHeader /\ h.hdr[e].mmapped \in BOOLEAN
  BY <1>6, HeaderFacts
<1>8. e # h.top /\ e \notin B /\ h.hdr[e].prev_inuse = FALSE /\ h.hdr[q].prev_inuse = TRUE
  <2>1. e # h.top /\ ~h.hdr[e].prev_inuse BY <1>3, <1>4 DEF Tagged
  <2>2. e \notin B BY <1>3, <2>1 DEF Tagged
  <2>3. h.hdr[e].prev_inuse = FALSE BY <1>6, <2>1, HeaderFacts
  <2>4. h.hdr[q].prev_inuse = TRUE BY <1>2, HeaderFacts
  <2> QED BY <2>1, <2>2, <2>3, <2>4
<1>9. /\ HeapOK(h1, u, {n}, t)
      /\ Members(h1.bins) = B \ {n}
      /\ Same(h, h1, {"bins", "heads", "abort"})
      /\ h.abort => h1.abort
  BY Unlink
<1>10. h2 = into_unsorted(hB, q)
  OBVIOUS
<1> HIDE DEF h1, s
<1>11. h1.hdr = h.hdr /\ h1.top = h.top /\ Rec(h1) /\ Listed(h1) = Listed(h)
  BY ONLY <1>9 DEF Same, Fields, Listed
<1>12. Wrote(h1, hA, q, Hd(s, TRUE, h.hdr[q].prev_size, FALSE))
  BY <1>2, <1>8, <1>11, SetHeadSize
<1> HIDE DEF hA
<1>13. Forgot(hA, hB, n)
  <2>1. Rec(hA) BY ONLY <1>12 DEF Wrote, Same
  <2> QED BY <2>1, Forgotten
<1> HIDE DEF hB
<1>14. DOMAIN hA.hdr = DOMAIN h.hdr /\ DOMAIN hB.hdr = DOMAIN h.hdr \ {n} /\ Rec(hB)
  <2>1. DOMAIN hA.hdr = DOMAIN h.hdr BY ONLY <1>2, <1>11, <1>12 DEF Wrote
  <2> QED BY ONLY <2>1, <1>13 DEF Forgot, Same
<1>15. q \in DOMAIN hB.hdr /\ e \in DOMAIN hB.hdr /\ q # e /\ q # n /\ e # n
  BY ONLY <1>2, <1>5, <1>6, <1>14
<1>16. hB.hdr[q] = Hd(s, TRUE, h.hdr[q].prev_size, FALSE) /\ hB.hdr[e] = h.hdr[e]
  BY ONLY <1>6, <1>11, <1>12, <1>13, <1>15 DEF Wrote, Forgot
<1>17. \A x \in DOMAIN h.hdr \ {n} : x # q => hB.hdr[x] = h.hdr[x]
  BY ONLY <1>11, <1>12, <1>13, <1>14 DEF Wrote, Forgot
<1>18. s \in Nat /\ s >= MINSIZE /\ e = q + s /\ s = e - q /\ s <= e
  <2>1. n = q + h.hdr[q].size BY DEF End
  <2>2. MINSIZE \in Nat BY Units
  <2> QED BY ONLY <2>1, <2>2, <1>2, <1>5, <1>6 DEF s
<1>19. Unsorted(hB, h2, q, s, e)
  <2>1. s = hB.hdr[q].size BY ONLY <1>16 DEF Hd
  <2> QED BY ONLY <2>1, <1>6, <1>7, <1>10, <1>14, <1>15, <1>16, <1>18, IntoUnsorted
<1>20. /\ Same(h1, h2, {"hdr", "bins"})
       /\ h2.bins = Put(h1.bins, UNSORTED, <<q>> \o At(h1.bins, UNSORTED))
  BY ONLY <1>12, <1>13, <1>19 DEF Wrote, Forgot, Unsorted, Same, Fields
<1>21. /\ DOMAIN h2.hdr = DOMAIN h.hdr \ {n}
       /\ h2.hdr[q] = Hd(s, TRUE, 0, FALSE)
       /\ h2.hdr[e] = Hd(h.hdr[e].size, FALSE, s, FALSE)
  BY ONLY <1>8, <1>14, <1>16, <1>19 DEF Unsorted
<1>22. \A x \in DOMAIN h.hdr \ {n} : x # q /\ x # e => h2.hdr[x] = h.hdr[x]
  BY ONLY <1>14, <1>17, <1>19 DEF Unsorted
<1>23. /\ h2.top = h.top /\ h2.brk = h.brk /\ h2.mapped = h.mapped /\ h2.heads = h1.heads
       /\ h2.contiguous = h.contiguous /\ h2.sbrk_base = h.sbrk_base /\ h2.binmap = h1.binmap
  BY ONLY <1>9, <1>20 DEF Same, Fields
<1>24. Face(h2.hdr[e]) = Face(h.hdr[e])
  BY ONLY <1>6, <1>7, <1>21, KeepsFace
<1>25. \A x \in DOMAIN h.hdr \ {q, n} : Face(h2.hdr[x]) = Face(h.hdr[x])
  BY ONLY <1>22, <1>24
<1>26. Members(h1.bins) \subseteq DOMAIN h.hdr \ {q, n}
  BY ONLY <1>1, <1>3, <1>9 DEF Tagged, Chunks
<1>27. \A x \in Members(h1.bins) : h2.hdr[x].size = h1.hdr[x].size
  <2>1. \A x \in Members(h1.bins) : Face(h2.hdr[x]) = Face(h.hdr[x]) BY ONLY <1>25, <1>26
  <2> QED BY ONLY <2>1, <1>11, SameFace
<1>28. /\ Proper(h2.bins)
       /\ Members(h2.bins) = Members(h1.bins) \cup {q}
       /\ Binned(h2.hdr, h2.bins, h2.heads, h2.binmap)
  <2>1. q \notin Members(h1.bins) BY ONLY <1>1, <1>9
  <2> QED BY ONLY <2>1, <1>2, <1>9, <1>20, <1>23, <1>27, UnsortedBins
<1>29. /\ Shape(h2.hdr, h.top, Space(h.brk, h.mapped), h.contiguous, h.sbrk_base)
       /\ Tagged(h2.hdr, h.top, (B \ {n}) \cup {q})
  <2> DEFINE B2 == (B \ {n}) \cup {q}
  <2>1. B2 \ {q} = B \ {q, n} /\ q \in B2 /\ (q \notin B2) = FALSE
    BY ONLY <1>1, <1>15
  <2>2. h2.hdr[q] = Hd(e - q, h.hdr[q].prev_inuse, 0, FALSE)
    BY ONLY <1>8, <1>18, <1>21
  <2>3. h2.hdr[e] = Hd(h.hdr[e].size, q \notin B2, s, FALSE)
    BY ONLY <2>1, <1>21
  <2>4. n = End(h.hdr, q) /\ e = End(h.hdr, n) /\ h.hdr[q].prev_inuse
    OBVIOUS
  <2>5. 0 \in Nat /\ 0 <= q
    BY ONLY <1>2
  <2> HIDE DEF B, B2
  <2>6. Joins(h.hdr, h.top, B, q, n, e, B2, s, 0, h2.hdr)
    BY ONLY <1>1, <1>4, <1>8, <1>18, <1>21, <1>22, <2>1, <2>2, <2>3, <2>4, <2>5 DEF Joins
  <2>7. /\ Shape(h2.hdr, h.top, Space(h.brk, h.mapped), h.contiguous, h.sbrk_base)
        /\ Tagged(h2.hdr, h.top, B2)
    BY ONLY <1>3, <2>6, Join
  <2> QED BY ONLY <2>7 DEF B2
<1>30. Laid(h2, {})
  <2>1. Members(h2.bins) \cup {} = (B \ {n}) \cup {q} BY ONLY <1>9, <1>28
  <2> QED BY ONLY <1>23, <1>29, <2>1 DEF Laid
<1>31. DOMAIN u2 = DOMAIN u \ {q} /\ \A x \in DOMAIN u2 : u2[x] = u[x]
  BY DEF Without
<1>32. n \notin DOMAIN u /\ n \notin Listed(h)
  BY DEF HeapOK, Owned
<1>33. Others(h1, Members(h1.bins) \cup {n}, u, h2, Members(h2.bins) \cup {}, u2, {q, n})
  BY ONLY <1>11, <1>21, <1>23, <1>25, <1>28, <1>31 DEF Others
<1>34. Settled(h2, Members(h2.bins) \cup {}, u2, {q, n})
  <2>1. ~h2.hdr[q].mmapped /\ h2.hdr[q].size = s BY ONLY <1>21 DEF Hd
  <2>2. q \in Chunks(h2.hdr, h2.top) /\ n \notin Chunks(h2.hdr, h2.top)
    BY ONLY <2>1, <1>2, <1>15, <1>18, <1>21, <1>23 DEF Chunks
  <2>3. n \notin DOMAIN h2.hdr /\ n \notin DOMAIN u2 /\ n \notin Members(h2.bins)
    BY ONLY <1>9, <1>15, <1>21, <1>28, <1>31, <1>32
  <2> QED BY ONLY <2>1, <2>2, <2>3, <1>28, <1>31 DEF Settled
<1>35. End(h2.hdr, h2.top) = End(h1.hdr, h1.top) /\ (h2.top = NIL <=> h1.top = NIL)
  <2>1. h.top \in DOMAIN h.hdr \ {q, n} BY <1>2, <1>4, TopFacts
  <2>2. Face(h2.hdr[h.top]) = Face(h.hdr[h.top]) BY ONLY <2>1, <1>25
  <2>3. h2.hdr[h.top].size = h.hdr[h.top].size BY ONLY <2>2, SameFace
  <2> QED BY ONLY <2>3, <1>11, <1>23 DEF End
<1>36. Same(h1, h2, Loose \cup {"hdr", "top", "bins", "heads", "binmap"})
  BY ONLY <1>20 DEF Same
<1>37. {} \cap Members(h2.bins) = {} /\ {q, n} \cap Listed(h1) = {}
  BY ONLY <1>1, <1>11, <1>32
<1>38. HeapOK(h2, u2, {}, t)
  BY ONLY <1>9, <1>28, <1>30, <1>33, <1>34, <1>35, <1>36, <1>37, Relaying
<1>39. Same(h, h2, {"hdr", "bins", "heads", "abort"}) /\ (h.abort => h2.abort)
  BY ONLY <1>9, <1>20 DEF Same, Fields
<1> QED BY ONLY <1>38, <1>39

\* malloc-impl.c:4317: q is merged with top or with a free chunk after it.
LEMMA Forward ==
  ASSUME NEW h, NEW u, NEW t, HeapOK(h, u, {}, t), NEW q \in DOMAIN u, ~u[q].mmapped,
         h.hdr[q].prev_inuse, NEW n, n = End(h.hdr, q),
         NEW h2, h2 = consolidate_forward(h, q, n),
         NEW u2, u2 = Without(u, q)
  PROVE  /\ HeapOK(h2, u2, {}, t)
         /\ Same(h, h2, {"hdr", "bins", "heads", "top", "abort"}) /\ (h.abort => h2.abort)
<1>1. CASE n = h.top
  <2>1. h2 = into_top(h, q, n) BY <1>1 DEF consolidate_forward
  <2>2. HeapOK(h2, u2, {}, t) /\ Same(h, h2, {"hdr", "top"}) BY <1>1, <2>1, ForwardTop
  <2> QED BY ONLY <2>2 DEF Same, Fields
<1>2. CASE n # h.top /\ inuse(h, n)
  <2>1. h2 = into_unsorted(clear_inuse_bit(h, n), q) BY <1>2 DEF consolidate_forward
  <2>2. HeapOK(h2, u2, {}, t) /\ Same(h, h2, {"hdr", "bins"}) BY <1>2, <2>1, ForwardInuse
  <2> QED BY ONLY <2>2 DEF Same, Fields
<1>3. CASE n # h.top /\ ~inuse(h, n)
  <2> DEFINE e == End(h.hdr, n)
  <2>1. q \in Chunks(h.hdr, h.top) BY HeldFacts
  <2>2. n \in Members(h.bins) BY <1>3, <2>1, NextFree
  <2>3. h2 = into_unsorted(Forget(set_head_size(unlink_chunk(h, n), q, e - q), n), q)
    BY <1>3 DEF consolidate_forward, next_chunk, chunksize, End
  <2> HIDE DEF e
  <2>4. e = End(h.hdr, n) BY DEF e
  <2>5. /\ HeapOK(h2, u2, {}, t)
        /\ Same(h, h2, {"hdr", "bins", "heads", "abort"}) /\ (h.abort => h2.abort)
    BY <2>2, <2>3, <2>4, ForwardFree
  <2> QED BY ONLY <2>5 DEF Same, Fields
<1> QED BY <1>1, <1>2, <1>3

\* Of u only its domain and its values matter.
LEMMA SameHeld ==
  ASSUME NEW h, NEW u, NEW F, NEW t, HeapOK(h, u, F, t),
         NEW u2, DOMAIN u2 = DOMAIN u, \A x \in DOMAIN u : u2[x] = u[x]
  PROVE  HeapOK(h, u2, F, t)
<1>1. Owned(h.hdr, h.top, Listed(h), Members(h.bins) \cup F, u)
  BY DEF HeapOK
<1>2. {q \in DOMAIN u2 : ~u2[q].mmapped} = {q \in DOMAIN u : ~u[q].mmapped}
  OBVIOUS
<1>3. Owned(h.hdr, h.top, Listed(h), Members(h.bins) \cup F, u2)
  BY ONLY <1>1, <1>2, DOMAIN u2 = DOMAIN u, \A x \in DOMAIN u : u2[x] = u[x] DEF Owned
<1> QED BY <1>3 DEF HeapOK

MergeFields == {"hdr", "bins", "heads", "top", "abort"}

\* A chunk that is merged is nobody's any more.
LEMMA Merged ==
  ASSUME NEW h, NEW u, NEW t, HeapOK(h, u, {}, t), NEW p \in DOMAIN u, ~u[p].mmapped,
         NEW h2, h2 = Merge(h, p), NEW u2, u2 = Without(u, p)
  PROVE  HeapOK(h2, u2, {}, t) /\ Same(h, h2, MergeFields) /\ (h.abort => h2.abort)
<1>1. p \in Chunks(h.hdr, h.top)
  BY HeldFacts
<1>2. CASE h.hdr[p].prev_inuse
  <2> DEFINE n == End(h.hdr, p)
  <2>1. h2 = consolidate_forward(h, p, n)
    BY <1>2 DEF Merge, merge_start, consolidate_backward, next_chunk, chunksize, End
  <2> HIDE DEF n
  <2>2. n = End(h.hdr, p) BY DEF n
  <2>3. /\ HeapOK(h2, u2, {}, t)
        /\ Same(h, h2, {"hdr", "bins", "heads", "top", "abort"}) /\ (h.abort => h2.abort)
    BY <1>2, <2>1, <2>2, Forward
  <2> QED BY ONLY <2>3 DEF MergeFields
<1>3. CASE ~h.hdr[p].prev_inuse
  <2> DEFINE q == p - h.hdr[p].prev_size
             e == End(h.hdr, p)
             hA == consolidate_backward(h, p, q)
             uA == With(Without(u, p), q, Plain(e - q))
  <2>1. h2 = consolidate_forward(hA, q, e)
    BY <1>3 DEF Merge, merge_start, next_chunk, chunksize, End
  <2>2. q = p - h.hdr[p].prev_size /\ e = End(h.hdr, p) /\ hA = consolidate_backward(h, p, q)
        /\ uA = With(Without(u, p), q, Plain(e - q))
    OBVIOUS
  <2> HIDE DEF q, e, hA, uA
  <2>3. /\ HeapOK(hA, uA, {}, t)
        /\ q \notin DOMAIN u /\ q # p /\ q \notin Listed(h)
        /\ hA.hdr[q].prev_inuse /\ End(hA.hdr, q) = e
        /\ Same(h, hA, {"hdr", "bins", "heads", "abort"})
        /\ h.abort => hA.abort
    BY <1>3, <2>2, Backward
  <2>4. /\ DOMAIN uA = (DOMAIN u \ {p}) \cup {q} /\ uA[q] = Plain(e - q)
        /\ \A x \in DOMAIN u \ {p} : uA[x] = u[x]
    BY <2>2, <2>3 DEF With, Without
  <2> DEFINE uB == Without(uA, q)
  <2>5. q \in DOMAIN uA /\ ~uA[q].mmapped
    BY ONLY <2>4 DEF Plain
  <2>6. /\ HeapOK(h2, uB, {}, t)
        /\ Same(hA, h2, {"hdr", "bins", "heads", "top", "abort"}) /\ (hA.abort => h2.abort)
    BY ONLY <2>1, <2>3, <2>5, uB = Without(uA, q), Forward
  <2>7. DOMAIN u2 = DOMAIN uB /\ \A x \in DOMAIN uB : u2[x] = uB[x]
    BY <2>3, <2>4 DEF Without
  <2> HIDE DEF uB
  <2>8. HeapOK(h2, u2, {}, t)
    BY ONLY <2>6, <2>7, SameHeld
  <2>9. Same(h, h2, MergeFields) /\ (h.abort => h2.abort)
    BY ONLY <2>3, <2>6 DEF Same, Fields, MergeFields
  <2> QED BY ONLY <2>8, <2>9
<1> QED BY <1>2, <1>3

\* What the recursive function of MergeAll is: there is one, step by step.
LEMMA MergeAllDef ==
  ASSUME NEW h, NEW s, Len(s) \in Nat
  PROVE  \E m : /\ m[0] = h
                /\ \A n \in 1 .. Len(s) : m[n] = Merge(m[n - 1], s[n])
                /\ MergeAll(h, s) = m[Len(s)]
<1> DEFINE N == Len(s)
           Is(g, k) == g = [n \in 0 .. k |-> IF n = 0 THEN h ELSE Merge(g[n - 1], s[n])]
           T == {k \in Nat : \E g : Is(g, k)}
<1>1. 0 \in T
  <2> DEFINE m0 == [n \in 0 .. 0 |-> h]
  <2>1. Is(m0, 0) OBVIOUS
  <2> QED BY <2>1
<1>2. ASSUME NEW k \in Nat, k \in T PROVE k + 1 \in T
  <2>1. PICK g : Is(g, k) BY <1>2
  <2> DEFINE f == [n \in 0 .. k + 1 |-> IF n = 0 THEN h ELSE Merge(g[n - 1], s[n])]
  <2>2. \A n \in 0 .. k : f[n] = g[n]
    <3>1. \A n \in 0 .. k : g[n] = IF n = 0 THEN h ELSE Merge(g[n - 1], s[n]) BY <2>1
    <3>2. \A n \in 0 .. k : n \in 0 .. k + 1 OBVIOUS
    <3>3. \A n \in 0 .. k + 1 : f[n] = IF n = 0 THEN h ELSE Merge(g[n - 1], s[n]) OBVIOUS
    <3> HIDE DEF f
    <3> QED BY <3>1, <3>2, <3>3
  <2>3. \A n \in 0 .. k + 1 : n # 0 => f[n - 1] = g[n - 1]
    <3>1. \A n \in 0 .. k + 1 : n # 0 => n - 1 \in 0 .. k OBVIOUS
    <3> HIDE DEF f
    <3> QED BY <2>2, <3>1
  <2>4. f = [n \in 0 .. k + 1 |-> IF n = 0 THEN h ELSE Merge(f[n - 1], s[n])]
    BY <2>3
  <2> HIDE DEF f
  <2>5. \E x : Is(x, k + 1)
    BY <2>4
  <2>6. k + 1 \in Nat
    OBVIOUS
  <2> HIDE DEF Is
  <2> QED BY <2>5, <2>6
<1>3. \E g : Is(g, N)
  <2>1. Nat \subseteq T
    <3> HIDE DEF T
    <3> QED BY <1>1, <1>2, Induction
  <2>2. N \in T BY <2>1
  <2> QED BY <2>2
<1> DEFINE m == CHOOSE g : g = [n \in 0 .. Len(s) |-> IF n = 0 THEN h ELSE Merge(g[n - 1], s[n])]
<1>4. m = [n \in 0 .. N |-> IF n = 0 THEN h ELSE Merge(m[n - 1], s[n])]
  BY <1>3
<1>5. MergeAll(h, s) = m[N]
  BY DEF MergeAll
<1> HIDE DEF m
<1>6. m[0] = h
  <2>1. 0 \in 0 .. N OBVIOUS
  <2> QED BY <2>1, <1>4
<1>7. \A n \in 1 .. N : m[n] = Merge(m[n - 1], s[n])
  <2>1. \A n \in 1 .. N : n \in 0 .. N /\ n # 0 OBVIOUS
  <2> HIDE DEF N
  <2> QED BY ONLY <2>1, <1>4
<1> QED BY <1>5, <1>6, <1>7

WithoutAll(u, S) == [q \in DOMAIN u \ S |-> u[q]]
Upto(s, n) == {s[i] : i \in 1 .. n}

\* The chunks of a list are merged one after the other.
LEMMA MergedAll ==
  ASSUME NEW h, NEW u, NEW t, HeapOK(h, u, {}, t),
         NEW s, IsList(s), Range(s) \subseteq DOMAIN u, \A q \in Range(s) : ~u[q].mmapped,
         NEW h2, h2 = MergeAll(h, s), NEW u2, u2 = WithoutAll(u, Range(s))
  PROVE  HeapOK(h2, u2, {}, t) /\ Same(h, h2, MergeFields) /\ (h.abort => h2.abort)
<1> DEFINE N == Len(s)
<1>1. s \in Seq(Nat) /\ N \in Nat
  BY DEF IsList
<1>2. PICK m : /\ m[0] = h
               /\ \A n \in 1 .. N : m[n] = Merge(m[n - 1], s[n])
               /\ h2 = m[N]
  BY <1>1, MergeAllDef
<1>3. /\ \A n \in 1 .. N : s[n] \in Range(s)
      /\ Range(s) = Upto(s, N)
  <2>1. \A x : x \in Range(s) <=> \E n \in 1 .. N : s[n] = x
    BY <1>1, InRange
  <2> QED BY <2>1 DEF Upto
<1>4. \A i, j \in 1 .. N : s[i] = s[j] => i = j
  BY DEF IsList, Injective
<1> DEFINE v(n) == WithoutAll(u, Upto(s, n))
           P(n) == /\ HeapOK(m[n], v(n), {}, t)
                   /\ Same(h, m[n], MergeFields) /\ (h.abort => m[n].abort)
           T == {n \in Nat : n <= N => P(n)}
<1> HIDE DEF N
<1>5. 0 \in T
  <2>1. Upto(s, 0) = {} BY DEF Upto
  <2>2. DOMAIN v(0) = DOMAIN u /\ \A x \in DOMAIN u : v(0)[x] = u[x]
    BY <2>1 DEF WithoutAll
  <2> HIDE DEF v
  <2>3. HeapOK(h, v(0), {}, t)
    BY ONLY HeapOK(h, u, {}, t), <2>2, SameHeld
  <2>4. Same(h, h, MergeFields)
    BY DEF HeapOK, Same
  <2>5. P(0) BY <1>2, <2>3, <2>4
  <2> QED BY <2>5
<1>6. ASSUME NEW n \in Nat, n \in T PROVE n + 1 \in T
  <2>1. CASE ~(n + 1 <= N)
    <3>1. n + 1 \in Nat OBVIOUS
    <3> HIDE DEF P
    <3> QED BY <2>1, <3>1
  <2>2. CASE n + 1 <= N
    <3>1. n <= N /\ n + 1 \in 1 .. N /\ n + 1 \in Nat /\ n + 1 - 1 = n
      BY <1>1, <2>2
    <3>2. P(n) BY <1>6, <3>1
    <3> DEFINE p == s[n + 1]
               uA == Without(v(n), p)
    <3>3. p \in Range(s) /\ p \in DOMAIN u /\ ~u[p].mmapped
      BY <1>3, <3>1
    <3>4. p \notin Upto(s, n)
      <4>1. \A i \in 1 .. n : i \in 1 .. N /\ i # n + 1 BY <1>1, <3>1
      <4>2. \A i \in 1 .. n : s[i] # s[n + 1] BY <1>4, <3>1, <4>1
      <4> QED BY <4>2 DEF Upto
    <3>5. p \in DOMAIN v(n) /\ ~v(n)[p].mmapped
      BY <3>3, <3>4 DEF WithoutAll
    <3>6. m[n + 1] = Merge(m[n], p)
      BY <1>2, <3>1
    <3>7. HeapOK(m[n], v(n), {}, t) /\ Same(h, m[n], MergeFields) /\ (h.abort => m[n].abort)
      BY <3>2
    <3>8. Upto(s, n + 1) = Upto(s, n) \cup {p}
      <4>1. \A i : i \in 1 .. n + 1 <=> i \in 1 .. n \/ i = n + 1 BY <3>1
      <4> QED BY <4>1 DEF Upto
    <3>9. DOMAIN v(n + 1) = DOMAIN uA /\ \A x \in DOMAIN uA : v(n + 1)[x] = uA[x]
      BY <3>8 DEF WithoutAll, Without
    <3>10. uA = Without(v(n), p) OBVIOUS
    <3> HIDE DEF p, uA, v
    <3>11. /\ HeapOK(m[n + 1], uA, {}, t)
           /\ Same(m[n], m[n + 1], MergeFields) /\ (m[n].abort => m[n + 1].abort)
      BY ONLY <3>5, <3>6, <3>7, <3>10, Merged
    <3>12. HeapOK(m[n + 1], v(n + 1), {}, t)
      BY ONLY <3>9, <3>11, SameHeld
    <3>13. Same(h, m[n + 1], MergeFields) /\ (h.abort => m[n + 1].abort)
      BY ONLY <3>7, <3>11 DEF Same
    <3>14. P(n + 1) BY <3>12, <3>13
    <3> HIDE DEF P
    <3> QED BY <3>1, <3>14
  <2> QED BY <2>1, <2>2
<1>7. P(N)
  <2>1. Nat \subseteq T
    <3> HIDE DEF T
    <3> QED BY <1>5, <1>6, Induction
  <2>2. N \in T BY <1>1, <2>1
  <2>3. N <= N BY <1>1
  <2> HIDE DEF P
  <2> QED BY <2>2, <2>3
<1> QED BY <1>2, <1>3, <1>7 DEF N

\* Lists of chunks in use and hands: a chunk goes from one to the other.
LEMMA Relisted ==
  ASSUME NEW h, NEW u, NEW F, NEW t, HeapOK(h, u, F, t),
         NEW h2, Same(h, h2, Loose \cup {"fast", "entries"}),
         Proper(h2.fast), Proper(h2.entries), Members(h2.fast) \cap Members(h2.entries) = {},
         Indexed(h2.hdr, h2.fast, h2.entries),
         NEW u2, \A x : x \in Listed(h2) \/ x \in DOMAIN u2 <=> x \in Listed(h) \/ x \in DOMAIN u,
         \A x \in DOMAIN u2 : x \notin Listed(h2),
         \A x \in DOMAIN u2 : x \in DOMAIN u => u2[x] = u[x],
         \A x \in DOMAIN u2 : x \notin DOMAIN u => u2[x] = Plain(h.hdr[x].size),
         \A x \in DOMAIN u : x \notin DOMAIN u2 => ~u[x].mmapped
  PROVE  HeapOK(h2, u2, F, t)
<1> DEFINE B == Members(h.bins) \cup F
<1>1. /\ Rec(h2) /\ h2.hdr = h.hdr /\ h2.top = h.top /\ h2.bins = h.bins
      /\ h2.heads = h.heads /\ h2.binmap = h.binmap
      /\ h2.brk = h.brk /\ h2.mapped = h.mapped /\ h2.contiguous = h.contiguous
      /\ h2.sbrk_base = h.sbrk_base /\ h2.system_mem = h.system_mem /\ h2.top_pad = h.top_pad
      /\ h2.tcache = h.tcache
  BY DEF Same, Fields, Loose
<1>2. Owned(h.hdr, h.top, Listed(h), B, u)
  BY DEF HeapOK
<1> HIDE DEF B
<1>3. ASSUME NEW x
      PROVE  /\ x \in Chunks(h.hdr, h.top) <=> x \in B \/ x \in Listed(h2) \/ (x \in DOMAIN u2 /\ ~u2[x].mmapped)
             /\ x \in DOMAIN u2 => x \in DOMAIN h.hdr /\ Face(h.hdr[x]) = u2[x] /\ x \notin B /\ x \notin Listed(h2)
             /\ x \in Listed(h2) => x \notin B
             /\ x \in DOMAIN h.hdr /\ h.hdr[x].mmapped => x \in DOMAIN u2
  <2>1. /\ x \in Chunks(h.hdr, h.top) <=> x \in B \/ x \in Listed(h) \/ (x \in DOMAIN u /\ ~u[x].mmapped)
        /\ x \in DOMAIN u => x \in DOMAIN h.hdr /\ Face(h.hdr[x]) = u[x] /\ x \notin B /\ x \notin Listed(h)
        /\ x \in Listed(h) => x \notin B
        /\ x \in DOMAIN h.hdr /\ h.hdr[x].mmapped => x \in DOMAIN u
    BY ONLY <1>2 DEF Owned
  <2>2. x \in DOMAIN u => u[x].mmapped = h.hdr[x].mmapped
    BY ONLY <2>1 DEF Face
  <2>3. x \in Chunks(h.hdr, h.top) => x \in DOMAIN h.hdr /\ ~h.hdr[x].mmapped
    BY ONLY TRUE DEF Chunks
  <2>4. x \in Listed(h) => Face(h.hdr[x]) = Plain(h.hdr[x].size) /\ ~h.hdr[x].mmapped
    <3>1. ASSUME x \in Listed(h) PROVE Face(h.hdr[x]) = Plain(h.hdr[x].size)
      <4>1. x \in DOMAIN h.hdr /\ ~h.hdr[x].mmapped BY <2>1, <2>3, <3>1
      <4>2. h.hdr[x].mmapped \in BOOLEAN BY <4>1, HeaderFacts
      <4> QED BY ONLY <4>1, <4>2, PlainFace
    <3> QED BY ONLY <2>1, <2>3, <3>1
  <2>5. /\ x \in Listed(h2) \/ x \in DOMAIN u2 <=> x \in Listed(h) \/ x \in DOMAIN u
        /\ x \in DOMAIN u2 => x \notin Listed(h2)
        /\ x \in DOMAIN u2 => (x \in DOMAIN u => u2[x] = u[x])
        /\ x \in DOMAIN u2 => (x \notin DOMAIN u => u2[x] = Plain(h.hdr[x].size))
        /\ x \in DOMAIN u => (x \notin DOMAIN u2 => ~u[x].mmapped)
    OBVIOUS
  <2>6. ~Plain(h.hdr[x].size).mmapped
    BY ONLY TRUE DEF Plain
  <2> QED BY ONLY <2>1, <2>2, <2>3, <2>4, <2>5, <2>6
<1>4. Owned(h2.hdr, h2.top, Listed(h2), Members(h2.bins) \cup F, u2)
  <2>1. Owned(h.hdr, h.top, Listed(h2), B, u2)
    BY ONLY <1>3 DEF Owned
  <2> QED BY ONLY <1>1, <2>1 DEF B
<1>5. Bounds(h2) /\ Laid(h2, F)
  BY <1>1 DEF HeapOK, Bounds, Laid
<1>6. Lists3(h2)
  BY <1>1 DEF HeapOK, Lists3
<1> QED BY <1>1, <1>4, <1>5, <1>6 DEF HeapOK

-----------------------------------------------------------------------------
(* Fast bins and the tcache.                                               *)

\* f2 has parts of the lists of f, and of list i what s adds to it.
Gained(f, f2, i, s) ==
  /\ Proper(f2)
  /\ \A x : x \in Members(f2) <=> x \in Members(f) \/ x \in Range(s)
  /\ \A j \in DOMAIN f2 : j # i => j \in DOMAIN f /\ f2[j] = f[j]
  /\ i \in DOMAIN f2 => /\ Len(f2[i]) = Len(s) + Len(At(f, i))
                        /\ \A q \in Range(f2[i]) : q \in Range(s) \/ q \in Range(At(f, i))

Lost(f, f2, i, r) ==
  /\ Proper(f2)
  /\ \A x : x \in Members(f2) <=> x \in Members(f) /\ (x \in Range(At(f, i)) => x \in Range(r))
  /\ \A j \in DOMAIN f2 : j # i => j \in DOMAIN f /\ f2[j] = f[j]
  /\ i \in DOMAIN f2 => f2[i] = r

\* What Put leaves alone.
LEMMA PutDomain ==
  ASSUME NEW f, NEW i, NEW s, NEW f2, f2 = Put(f, i, s)
  PROVE  /\ \A j \in DOMAIN f2 : j # i => j \in DOMAIN f /\ f2[j] = f[j]
         /\ i \in DOMAIN f2 => f2[i] = s
BY DEF Put, With, Restrict

\* A list that gets the chunks s in front,
LEMMA Gains ==
  ASSUME NEW f, Proper(f), NEW i, NEW s, IsList(s), \A x \in Range(s) : x \notin Members(f),
         NEW f2, f2 = Put(f, i, s \o At(f, i))
  PROVE  Gained(f, f2, i, s)
<1> DEFINE a == At(f, i)
           r == s \o a
<1>1. IsList(a) /\ Range(a) \subseteq Members(f) /\ On(f, i) = Range(a)
  BY AtList DEF On
<1>2. f2 = Put(f, i, r)
  OBVIOUS
<1> HIDE DEF a
<1>3. Range(s) \cap Range(a) = {}
  BY <1>1
<1>4. IsList(r) /\ Range(r) = Range(s) \cup Range(a) /\ Len(r) = Len(s) + Len(a)
  BY <1>1, <1>3, JoinList
<1> HIDE DEF r
<1>5. Range(r) \cap (Members(f) \ On(f, i)) = {}
  BY <1>1, <1>4
<1>6. Proper(f2) /\ Members(f2) = (Members(f) \ On(f, i)) \cup Range(r)
  BY <1>2, <1>4, <1>5, PutList
<1>7. \A x : x \in Members(f2) <=> x \in Members(f) \/ x \in Range(s)
  BY ONLY <1>1, <1>4, <1>6
<1>8. /\ \A j \in DOMAIN f2 : j # i => j \in DOMAIN f /\ f2[j] = f[j]
      /\ i \in DOMAIN f2 => f2[i] = r
  BY ONLY <1>2, PutDomain
<1> QED BY <1>4, <1>6, <1>7, <1>8 DEF Gained, a

\* and one that keeps only the chunks r.
LEMMA Loses ==
  ASSUME NEW f, Proper(f), NEW i, NEW r, IsList(r), Range(r) \subseteq Range(At(f, i)),
         NEW f2, f2 = Put(f, i, r)
  PROVE  Lost(f, f2, i, r)
<1> DEFINE a == At(f, i)
<1>1. IsList(a) /\ Range(a) \subseteq Members(f) /\ On(f, i) = Range(a)
  BY AtList DEF On
<1> HIDE DEF a
<1>2. Range(r) \cap (Members(f) \ On(f, i)) = {}
  BY <1>1 DEF a
<1>3. Proper(f2) /\ Members(f2) = (Members(f) \ On(f, i)) \cup Range(r)
  BY <1>2, PutList
<1>4. \A x : x \in Members(f2) <=> x \in Members(f) /\ (x \in Range(a) => x \in Range(r))
  BY <1>1, <1>3 DEF a
<1>5. /\ \A j \in DOMAIN f2 : j # i => j \in DOMAIN f /\ f2[j] = f[j]
      /\ i \in DOMAIN f2 => f2[i] = r
  BY PutDomain
<1> QED BY ONLY <1>3, <1>4, <1>5 DEF Lost, a

\* What is to be shown of the lists for Indexed.
LEMMA FastGained ==
  ASSUME NEW hdr, NEW fast_, NEW entries, Indexed(hdr, fast_, entries), Proper(fast_),
         NEW fast2, NEW i, NEW s, Gained(fast_, fast2, i, s),
         \A q \in Range(s) : fastbin_index(hdr[q].size) = i
  PROVE  Indexed(hdr, fast2, entries)
<1>1. \A q \in Range(At(fast_, i)) : fastbin_index(hdr[q].size) = i
  BY AtList DEF Indexed, Range
<1>2. \A j \in DOMAIN fast2 : \A q \in Range(fast2[j]) : fastbin_index(hdr[q].size) = j
  BY ONLY <1>1, Gained(fast_, fast2, i, s), \A q \in Range(s) : fastbin_index(hdr[q].size) = i,
          Indexed(hdr, fast_, entries) DEF Gained, Indexed
<1> QED BY ONLY <1>2, Indexed(hdr, fast_, entries) DEF Indexed

\* The fast bins stay ordered when one loses chunks,
LEMMA FastLost ==
  ASSUME NEW hdr, NEW fast_, NEW entries, Indexed(hdr, fast_, entries), Proper(fast_),
         NEW fast2, NEW i, NEW r, Lost(fast_, fast2, i, r), Range(r) \subseteq Range(At(fast_, i))
  PROVE  Indexed(hdr, fast2, entries)
<1>1. \A q \in Range(At(fast_, i)) : fastbin_index(hdr[q].size) = i
  BY AtList DEF Indexed, Range
<1>2. \A j \in DOMAIN fast2 : \A q \in Range(fast2[j]) : fastbin_index(hdr[q].size) = j
  BY ONLY <1>1, Lost(fast_, fast2, i, r), Range(r) \subseteq Range(At(fast_, i)),
          Indexed(hdr, fast_, entries) DEF Lost, Indexed
<1> QED BY ONLY <1>2, Indexed(hdr, fast_, entries) DEF Indexed

\* the thread cache when an entry gets chunks of its size,
LEMMA EntriesGained ==
  ASSUME NEW hdr, NEW fast_, NEW entries, Indexed(hdr, fast_, entries), Proper(entries),
         NEW entries2, NEW i, NEW s, Gained(entries, entries2, i, s),
         \A q \in Range(s) : csize2tidx(hdr[q].size) = i,
         Len(s) + Len(At(entries, i)) <= TcacheCount
  PROVE  Indexed(hdr, fast_, entries2)
<1>1. \A q \in Range(At(entries, i)) : csize2tidx(hdr[q].size) = i
  BY AtList DEF Indexed, Range
<1>2. \A j \in DOMAIN entries2 : /\ Len(entries2[j]) <= TcacheCount
                                 /\ \A q \in Range(entries2[j]) : csize2tidx(hdr[q].size) = j
  BY ONLY <1>1, Gained(entries, entries2, i, s), \A q \in Range(s) : csize2tidx(hdr[q].size) = i,
          Len(s) + Len(At(entries, i)) <= TcacheCount, Indexed(hdr, fast_, entries)
     DEF Gained, Indexed
<1> QED BY ONLY <1>2, Indexed(hdr, fast_, entries) DEF Indexed

\* and when one loses some.
LEMMA EntriesLost ==
  ASSUME NEW hdr, NEW fast_, NEW entries, Indexed(hdr, fast_, entries), Proper(entries),
         NEW entries2, NEW i, NEW r, Lost(entries, entries2, i, r), IsList(r),
         Range(r) \subseteq Range(At(entries, i)), Len(r) <= Len(At(entries, i))
  PROVE  Indexed(hdr, fast_, entries2)
<1>1. \A q \in Range(At(entries, i)) : csize2tidx(hdr[q].size) = i
  BY AtList DEF Indexed, Range
<1>2. ASSUME r # << >> PROVE Len(r) <= TcacheCount
  <2>1. At(entries, i) # << >> /\ IsList(At(entries, i))
    <3>1. Range(r) # {} BY <1>2, InRange DEF IsList
    <3>2. IsList(At(entries, i)) BY AtList
    <3> QED BY <3>1, <3>2 DEF Range
  <2>2. i \in DOMAIN entries /\ At(entries, i) = entries[i]
    BY <2>1, AtList
  <2>3. Len(entries[i]) <= TcacheCount BY <2>2 DEF Indexed
  <2>4. Len(entries[i]) \in Nat /\ Len(r) \in Nat /\ TcacheCount \in Nat
    <3>1. TcacheCount \in Nat BY SystemAssumption
    <3>2. Len(r) \in Nat BY DEF IsList
    <3>3. Len(entries[i]) \in Nat BY <2>1, <2>2 DEF IsList
    <3> QED BY ONLY <3>1, <3>2, <3>3
  <2>5. Len(r) <= Len(entries[i]) BY <2>2
  <2> QED BY ONLY <2>3, <2>4, <2>5
<1>3. i \in DOMAIN entries2 => entries2[i] = r /\ r # << >>
  BY DEF Lost, Proper
<1>4. \A j \in DOMAIN entries2 : /\ Len(entries2[j]) <= TcacheCount
                                 /\ \A q \in Range(entries2[j]) : csize2tidx(hdr[q].size) = j
  BY ONLY <1>1, <1>2, <1>3, Lost(entries, entries2, i, r), Range(r) \subseteq Range(At(entries, i)),
          Indexed(hdr, fast_, entries) DEF Lost, Indexed
<1> QED BY ONLY <1>4, Indexed(hdr, fast_, entries) DEF Indexed

Taking(h, u, X) == [q \in DOMAIN u \cup X |-> IF q \in X THEN Plain(h.hdr[q].size) ELSE u[q]]

\* Chunks from somebody's hands go to the lists.
LEMMA Shelved ==
  ASSUME NEW h, NEW u, NEW F, NEW t, HeapOK(h, u, F, t),
         NEW h2, Same(h, h2, Loose \cup {"fast", "entries"}),
         Proper(h2.fast), Proper(h2.entries), Members(h2.fast) \cap Members(h2.entries) = {},
         Indexed(h2.hdr, h2.fast, h2.entries),
         NEW X, X \subseteq DOMAIN u, \A x \in X : ~u[x].mmapped,
         \A x : x \in Listed(h2) <=> x \in Listed(h) \/ x \in X,
         NEW u2, u2 = WithoutAll(u, X)
  PROVE  HeapOK(h2, u2, F, t)
<1>1. DOMAIN u2 = DOMAIN u \ X /\ \A x \in DOMAIN u \ X : u2[x] = u[x]
  BY DEF WithoutAll
<1>2. \A x : x \in Listed(h2) \/ x \in DOMAIN u2 <=> x \in Listed(h) \/ x \in DOMAIN u
  BY ONLY <1>1, X \subseteq DOMAIN u, \A x : x \in Listed(h2) <=> x \in Listed(h) \/ x \in X
<1>3. \A x \in DOMAIN u2 : x \notin Listed(h2)
  <2>1. \A x \in DOMAIN u : x \notin Listed(h) BY DEF HeapOK, Owned
  <2> QED BY ONLY <1>1, <2>1, \A x : x \in Listed(h2) <=> x \in Listed(h) \/ x \in X
<1>4. \A x \in DOMAIN u2 : x \in DOMAIN u => u2[x] = u[x]
  BY ONLY <1>1
<1>5. \A x \in DOMAIN u2 : x \notin DOMAIN u => u2[x] = Plain(h.hdr[x].size)
  BY ONLY <1>1
<1>6. \A x \in DOMAIN u : x \notin DOMAIN u2 => ~u[x].mmapped
  BY ONLY <1>1, \A x \in X : ~u[x].mmapped
<1> QED BY <1>2, <1>3, <1>4, <1>5, <1>6, Relisted

\* Chunks of the lists are taken.
LEMMA Unshelved ==
  ASSUME NEW h, NEW u, NEW F, NEW t, HeapOK(h, u, F, t),
         NEW h2, Same(h, h2, Loose \cup {"fast", "entries"}),
         Proper(h2.fast), Proper(h2.entries), Members(h2.fast) \cap Members(h2.entries) = {},
         Indexed(h2.hdr, h2.fast, h2.entries),
         NEW X, X \subseteq Listed(h),
         \A x : x \in Listed(h2) <=> x \in Listed(h) /\ x \notin X,
         NEW u2, u2 = Taking(h, u, X)
  PROVE  HeapOK(h2, u2, F, t)
<1>1. /\ DOMAIN u2 = DOMAIN u \cup X
      /\ \A x \in X : u2[x] = Plain(h.hdr[x].size)
      /\ \A x \in DOMAIN u : x \notin X => u2[x] = u[x]
  BY DEF Taking
<1>2. \A x \in DOMAIN u : x \notin Listed(h)
  BY DEF HeapOK, Owned
<1>3. \A x \in DOMAIN u : x \notin X
  BY ONLY <1>2, X \subseteq Listed(h)
<1>4. \A x : x \in Listed(h2) \/ x \in DOMAIN u2 <=> x \in Listed(h) \/ x \in DOMAIN u
  BY ONLY <1>1, X \subseteq Listed(h), \A x : x \in Listed(h2) <=> x \in Listed(h) /\ x \notin X
<1>5. \A x \in DOMAIN u2 : x \notin Listed(h2)
  BY ONLY <1>1, <1>2, \A x : x \in Listed(h2) <=> x \in Listed(h) /\ x \notin X
<1>6. \A x \in DOMAIN u2 : x \in DOMAIN u => u2[x] = u[x]
  BY ONLY <1>1, <1>3
<1>7. \A x \in DOMAIN u2 : x \notin DOMAIN u => u2[x] = Plain(h.hdr[x].size)
  BY ONLY <1>1
<1>8. \A x \in DOMAIN u : x \notin DOMAIN u2 => ~u[x].mmapped
  BY ONLY <1>1
<1> QED BY <1>4, <1>5, <1>6, <1>7, <1>8, Relisted

\* The list of one chunk.
LEMMA OneList ==
  ASSUME NEW p \in Nat
  PROVE  IsList(<<p>>) /\ Range(<<p>>) = {p} /\ Len(<<p>>) = 1
<1>1. IsList(<<p>>) BY DEF IsList, Injective
<1>2. Range(<<p>>) = {p} BY DEF Range
<1> QED BY <1>1, <1>2

\* What the lists of a good heap are.
LEMMA ListFacts ==
  ASSUME NEW h, NEW u, NEW F, NEW t, HeapOK(h, u, F, t)
  PROVE  /\ Proper(h.fast) /\ Proper(h.entries) /\ Proper(h.bins)
         /\ Members(h.fast) \cap Members(h.entries) = {}
         /\ Indexed(h.hdr, h.fast, h.entries)
         /\ \A x : x \in Listed(h) <=> x \in Members(h.fast) \/ x \in Members(h.entries)
         /\ Rec(h) /\ h.tcache = t
BY Zenon DEF HeapOK, Lists3, Listed

\* tcache_put.
LEMMA Caches ==
  ASSUME NEW h, NEW u, NEW F, NEW t, HeapOK(h, u, F, t), NEW p \in DOMAIN u, ~u[p].mmapped,
         Len(At(h.entries, csize2tidx(h.hdr[p].size))) + 1 <= TcacheCount,
         NEW h2, h2 = tcache_put(h, p), NEW u2, u2 = Without(u, p)
  PROVE  HeapOK(h2, u2, F, t) /\ Same(h, h2, {"entries"})
<1> DEFINE i == csize2tidx(h.hdr[p].size)
<1>1. h2 = [h EXCEPT !.entries = Put(h.entries, i, <<p>> \o At(h.entries, i))]
  BY DEF tcache_put, chunksize
<1>2. Len(At(h.entries, i)) + 1 <= TcacheCount OBVIOUS
<1>i. i = csize2tidx(h.hdr[p].size) OBVIOUS
<1> HIDE DEF i
<1>3. p \in Nat /\ p \notin Listed(h) /\ p \in Chunks(h.hdr, h.top)
  BY HeldFacts, ChunkFacts
<1>4. /\ Proper(h.fast) /\ Proper(h.entries)
      /\ Members(h.fast) \cap Members(h.entries) = {}
      /\ Indexed(h.hdr, h.fast, h.entries)
      /\ \A x : x \in Listed(h) <=> x \in Members(h.fast) \/ x \in Members(h.entries)
      /\ Rec(h)
  BY ListFacts
<1>5. Same(h, h2, {"entries"}) /\ h2.entries = Put(h.entries, i, <<p>> \o At(h.entries, i))
  BY ONLY <1>1, <1>4 DEF Rec, Same, Fields
<1>6. IsList(<<p>>) /\ Range(<<p>>) = {p} /\ Len(<<p>>) = 1
  BY <1>3, OneList
<1>7. Gained(h.entries, h2.entries, i, <<p>>)
  <2>1. \A x \in Range(<<p>>) : x \notin Members(h.entries) BY ONLY <1>3, <1>4, <1>6
  <2> QED BY ONLY <1>4, <1>5, <1>6, <2>1, Gains
<1>8. Indexed(h.hdr, h.fast, h2.entries)
  <2>1. \A q \in Range(<<p>>) : csize2tidx(h.hdr[q].size) = i BY ONLY <1>6, <1>i
  <2>2. Len(<<p>>) + Len(At(h.entries, i)) <= TcacheCount
    <3>1. IsList(At(h.entries, i)) BY <1>4, AtList
    <3>2. Len(At(h.entries, i)) \in Nat BY <3>1 DEF IsList
    <3> QED BY ONLY <1>2, <1>6, <3>2
  <2> QED BY ONLY <1>4, <1>7, <2>1, <2>2, EntriesGained
<1>9. h2.hdr = h.hdr /\ h2.fast = h.fast
  BY ONLY <1>5 DEF Same, Fields
<1>10. /\ Proper(h2.entries) /\ Members(h2.fast) \cap Members(h2.entries) = {}
       /\ \A x : x \in Listed(h2) <=> x \in Listed(h) \/ x \in {p}
  BY ONLY <1>3, <1>4, <1>6, <1>7, <1>9 DEF Gained, Listed
<1>11. Same(h, h2, Loose \cup {"fast", "entries"})
  BY ONLY <1>5 DEF Same, Fields
<1>12. u2 = WithoutAll(u, {p}) BY DEF Without, WithoutAll
<1>13. {p} \subseteq DOMAIN u /\ \A x \in {p} : ~u[x].mmapped OBVIOUS
<1>14. HeapOK(h2, u2, F, t)
  BY ONLY <1>4, <1>8, <1>9, <1>10, <1>11, <1>12, <1>13, HeapOK(h, u, F, t), Shelved
<1> QED BY <1>5, <1>14

\* tcache_get.
LEMMA Uncaches ==
  ASSUME NEW h, NEW u, NEW F, NEW t, HeapOK(h, u, F, t), NEW i \in DOMAIN h.entries,
         NEW p, p = Head(h.entries[i]),
         NEW h2, h2 = tcache_get(h, i), NEW u2, u2 = Taking(h, u, {p})
  PROVE  /\ HeapOK(h2, u2, F, t) /\ Same(h, h2, {"entries"})
         /\ p \in Listed(h) /\ csize2tidx(h.hdr[p].size) = i
<1> DEFINE s == h.entries[i]
           r == Tail(s)
<1>1. h2 = [h EXCEPT !.entries = Put(h.entries, i, r)]
  BY DEF tcache_get
<1>2. /\ Proper(h.fast) /\ Proper(h.entries)
      /\ Members(h.fast) \cap Members(h.entries) = {}
      /\ Indexed(h.hdr, h.fast, h.entries)
      /\ \A x : x \in Listed(h) <=> x \in Members(h.fast) \/ x \in Members(h.entries)
      /\ Rec(h)
  BY ListFacts
<1>3. At(h.entries, i) = s /\ IsList(s) /\ s # << >> /\ p = Head(s)
  BY <1>2 DEF At, Proper
<1>4. IsList(r) /\ Range(r) = Range(s) \ {p} /\ Len(r) = Len(s) - 1 /\ p \in Range(s)
      /\ Len(s) \in Nat
  BY ONLY <1>3, r = Tail(s), EndsList
<1>5. Range(s) \subseteq Members(h.entries) BY DEF Members
<1>s. csize2tidx(h.hdr[p].size) = i BY <1>2, <1>4 DEF Indexed
<1> HIDE DEF s, r
<1>6. Same(h, h2, {"entries"}) /\ h2.entries = Put(h.entries, i, r)
  BY ONLY <1>1, <1>2 DEF Rec, Same, Fields
<1>7. Range(r) \subseteq Range(At(h.entries, i)) BY ONLY <1>3, <1>4
<1>8. Lost(h.entries, h2.entries, i, r)
  BY ONLY <1>2, <1>4, <1>6, <1>7, Loses
<1>9. Indexed(h.hdr, h.fast, h2.entries)
  <2>1. Len(r) <= Len(At(h.entries, i)) BY ONLY <1>3, <1>4
  <2> QED BY ONLY <1>2, <1>4, <1>7, <1>8, <2>1, EntriesLost
<1>10. h2.hdr = h.hdr /\ h2.fast = h.fast
  BY ONLY <1>6 DEF Same, Fields
<1>11. \A x : x \in Members(h2.entries) <=> x \in Members(h.entries) /\ x # p
  <2>1. \A x : x \in Members(h2.entries) <=> x \in Members(h.entries) /\ (x \in Range(s) => x \in Range(r))
    BY ONLY <1>3, <1>8 DEF Lost
  <2> QED BY ONLY <2>1, <1>4
<1>12. p \in Members(h.entries) /\ p \notin Members(h.fast)
  BY ONLY <1>2, <1>4, <1>5
<1>13. /\ Proper(h2.entries) /\ Members(h2.fast) \cap Members(h2.entries) = {}
       /\ \A x : x \in Listed(h2) <=> x \in Listed(h) /\ x \notin {p}
  <2>1. Proper(h2.entries) BY ONLY <1>8 DEF Lost
  <2> QED BY ONLY <1>2, <2>1, <1>10, <1>11, <1>12 DEF Listed
<1>14. Same(h, h2, Loose \cup {"fast", "entries"})
  BY ONLY <1>6 DEF Same, Fields
<1>15. {p} \subseteq Listed(h) BY <1>2, <1>12
<1>16. HeapOK(h2, u2, F, t)
  BY ONLY <1>2, <1>9, <1>10, <1>13, <1>14, <1>15, HeapOK(h, u, F, t), u2 = Taking(h, u, {p}), Unshelved
<1> QED BY <1>6, <1>15, <1>16, <1>s

\* The chunk becomes the first of its fast bin.
LEMMA ToFast ==
  ASSUME NEW h, NEW u, NEW F, NEW t, HeapOK(h, u, F, t), NEW p \in DOMAIN u, ~u[p].mmapped,
         NEW i, i = fastbin_index(h.hdr[p].size),
         NEW h2, h2 = free_to_fastbin(h, p, i), NEW u2, u2 = Without(u, p)
  PROVE  /\ HeapOK(h2, u2, F, t) /\ Same(h, h2, {"fast", "have_fastchunks", "abort"})
         /\ h.abort => h2.abort
<1> DEFINE c == NextSizeOK(h, p) /\ (At(h.fast, i) # << >> => Head(h.fast[i]) # p)
           hA == Require(h, c)
<1>1. h2 = [hA EXCEPT !.have_fastchunks = TRUE, !.fast = Put(@, i, <<p>> \o At(@, i))]
  BY DEF free_to_fastbin
<1>2. hA = Require(h, c) OBVIOUS
<1> HIDE DEF hA, c
<1>3. HeapOK(hA, u, F, t) /\ Same(h, hA, {"abort"}) /\ (h.abort => hA.abort)
  BY ONLY <1>2, HeapOK(h, u, F, t), Required
<1>4. i = fastbin_index(hA.hdr[p].size)
  BY <1>3 DEF Same, Fields
<1>5. p \in Nat /\ p \notin Listed(hA) /\ p \in Chunks(hA.hdr, hA.top)
  <2>1. p \in Chunks(hA.hdr, hA.top) /\ p \notin Listed(hA)
    BY ONLY <1>3, p \in DOMAIN u, ~u[p].mmapped, HeldFacts
  <2>2. p \in Nat BY ONLY <1>3, <2>1, ChunkFacts
  <2> QED BY <2>1, <2>2
<1>6. /\ Proper(hA.fast) /\ Proper(hA.entries)
      /\ Members(hA.fast) \cap Members(hA.entries) = {}
      /\ Indexed(hA.hdr, hA.fast, hA.entries)
      /\ \A x : x \in Listed(hA) <=> x \in Members(hA.fast) \/ x \in Members(hA.entries)
      /\ Rec(hA)
  BY ONLY <1>3, ListFacts
<1>7. /\ Same(hA, h2, {"fast", "have_fastchunks"})
      /\ h2.fast = Put(hA.fast, i, <<p>> \o At(hA.fast, i))
  BY ONLY <1>1, <1>6 DEF Rec, Same, Fields
<1>8. IsList(<<p>>) /\ Range(<<p>>) = {p}
  BY <1>5, OneList
<1>9. Gained(hA.fast, h2.fast, i, <<p>>)
  <2>1. \A x \in Range(<<p>>) : x \notin Members(hA.fast) BY ONLY <1>5, <1>6, <1>8
  <2> QED BY ONLY <1>6, <1>7, <1>8, <2>1, Gains
<1>10. Indexed(hA.hdr, h2.fast, hA.entries)
  <2>1. \A q \in Range(<<p>>) : fastbin_index(hA.hdr[q].size) = i BY ONLY <1>8, <1>4
  <2> QED BY ONLY <1>6, <1>9, <2>1, FastGained
<1>11. h2.hdr = hA.hdr /\ h2.entries = hA.entries
  BY ONLY <1>7 DEF Same, Fields
<1>12. /\ Proper(h2.fast) /\ Members(h2.fast) \cap Members(h2.entries) = {}
       /\ \A x : x \in Listed(h2) <=> x \in Listed(hA) \/ x \in {p}
  BY ONLY <1>5, <1>6, <1>8, <1>9, <1>11 DEF Gained, Listed
<1>13. Same(hA, h2, Loose \cup {"fast", "entries"})
  BY ONLY <1>7 DEF Same, Fields, Loose
<1>14. u2 = WithoutAll(u, {p}) BY DEF Without, WithoutAll
<1>15. {p} \subseteq DOMAIN u /\ \A x \in {p} : ~u[x].mmapped OBVIOUS
<1>16. HeapOK(h2, u2, F, t)
  BY ONLY <1>3, <1>6, <1>10, <1>11, <1>12, <1>13, <1>14, <1>15, Shelved
<1>17. Same(h, h2, {"fast", "have_fastchunks", "abort"}) /\ (h.abort => h2.abort)
  BY ONLY <1>3, <1>7 DEF Same, Fields
<1> QED BY <1>16, <1>17

\* Induction up to a bound,
LEMMA Reached ==
  ASSUME NEW N \in Nat, NEW T, 0 \in T, \A n \in Nat : n < N /\ n \in T => n + 1 \in T
  PROVE  N \in T
<1> DEFINE V == {n \in Nat : n <= N => n \in T}
<1>1. 0 \in V OBVIOUS
<1>2. \A n \in Nat : n \in V => n + 1 \in V OBVIOUS
<1> HIDE DEF V
<1>3. Nat \subseteq V BY <1>1, <1>2, Induction
<1> QED BY <1>3 DEF V

\* the empty list,
LEMMA NoList ==
  IsList(<< >>) /\ Range(<< >>) = {} /\ Len(<< >>) = 0
BY DEF IsList, Injective, Range

\* What the fast bins are left to after a bin is emptied.
LEMMA EmptiedBin ==
  ASSUME NEW h, NEW u, NEW t, HeapOK(h, u, {}, t), NEW i, NEW s, s = At(h.fast, i),
         NEW h2, Same(h, h2, {"fast"}), h2.fast = Put(h.fast, i, << >>)
  PROVE  /\ HeapOK(h2, Taking(h, u, Range(s)), {}, t)
         /\ IsList(s) /\ Range(s) \subseteq Listed(h)
<1>1. /\ Proper(h.fast) /\ Proper(h.entries)
      /\ Members(h.fast) \cap Members(h.entries) = {}
      /\ Indexed(h.hdr, h.fast, h.entries)
      /\ \A x : x \in Listed(h) <=> x \in Members(h.fast) \/ x \in Members(h.entries)
      /\ Rec(h)
  BY ListFacts
<1>2. Same(h, h2, {"fast"}) /\ h2.fast = Put(h.fast, i, << >>)
  OBVIOUS
<1>3. IsList(s) /\ Range(s) \subseteq Members(h.fast)
  BY <1>1, AtList DEF On
<1>4. IsList(<< >>) /\ Range(<< >>) = {} /\ Range(<< >>) \subseteq Range(At(h.fast, i))
  BY NoList
<1>5. Lost(h.fast, h2.fast, i, << >>)
  BY ONLY <1>1, <1>2, <1>4, Loses
<1>6. Indexed(h.hdr, h2.fast, h.entries)
  BY ONLY <1>1, <1>4, <1>5, FastLost
<1>7. h2.hdr = h.hdr /\ h2.entries = h.entries
  BY ONLY <1>2 DEF Same, Fields
<1>8. Proper(h2.fast) /\ \A x : x \in Members(h2.fast) <=> x \in Members(h.fast) /\ x \notin Range(s)
  <2>1. Proper(h2.fast) BY ONLY <1>5 DEF Lost
  <2>2. \A x : x \in Members(h2.fast) <=> x \in Members(h.fast) /\ (x \in Range(s) => x \in Range(<< >>))
    BY ONLY <1>5, s = At(h.fast, i) DEF Lost
  <2> QED BY ONLY <2>1, <2>2, <1>4
<1>9. /\ Members(h2.fast) \cap Members(h2.entries) = {}
      /\ \A x : x \in Listed(h2) <=> x \in Listed(h) /\ x \notin Range(s)
      /\ Range(s) \subseteq Listed(h)
  BY ONLY <1>1, <1>3, <1>7, <1>8 DEF Listed
<1>10. Same(h, h2, Loose \cup {"fast", "entries"})
  BY ONLY <1>2 DEF Same, Fields
<1>11. HeapOK(h2, Taking(h, u, Range(s)), {}, t)
  BY ONLY <1>1, <1>6, <1>7, <1>8, <1>9, <1>10, HeapOK(h, u, {}, t), Unshelved
<1> QED BY <1>2, <1>3, <1>9, <1>11

ConsolidateFields == {"hdr", "bins", "heads", "top", "fast", "have_fastchunks", "abort"}

\* One fast bin is emptied, its chunks are merged.
LEMMA ConsolidatedBin ==
  ASSUME NEW h, NEW u, NEW t, HeapOK(h, u, {}, t), NEW i, NEW h2, h2 = consolidate_bin(h, i)
  PROVE  HeapOK(h2, u, {}, t) /\ Same(h, h2, ConsolidateFields) /\ (h.abort => h2.abort)
<1> DEFINE s == At(h.fast, i)
           hA == [h EXCEPT !.fast = Put(@, i, << >>)]
           uA == Taking(h, u, Range(s))
           uB == WithoutAll(uA, Range(s))
<1>1. h2 = MergeAll(hA, s) BY DEF consolidate_bin
<1>2. s = At(h.fast, i) /\ hA = [h EXCEPT !.fast = Put(@, i, << >>)] /\ uA = Taking(h, u, Range(s))
      /\ uB = WithoutAll(uA, Range(s))
  OBVIOUS
<1> HIDE DEF s, hA, uA, uB
<1>a. Rec(h) BY DEF HeapOK
<1>b. Same(h, hA, {"fast"}) /\ hA.fast = Put(h.fast, i, << >>)
  BY ONLY <1>2, <1>a DEF Rec, Same, Fields
<1>c. s = At(h.fast, i) /\ uA = Taking(h, u, Range(s)) BY <1>2
<1>3. HeapOK(hA, uA, {}, t) /\ IsList(s) /\ Range(s) \subseteq Listed(h)
  <2>1. HeapOK(hA, Taking(h, u, Range(s)), {}, t) /\ IsList(s) /\ Range(s) \subseteq Listed(h)
    BY ONLY <1>b, <1>c, HeapOK(h, u, {}, t), EmptiedBin
  <2> QED BY ONLY <2>1, <1>c
<1>4. /\ DOMAIN uA = DOMAIN u \cup Range(s)
      /\ \A q \in Range(s) : ~uA[q].mmapped
      /\ \A q \in DOMAIN u : q \notin Range(s) => uA[q] = u[q]
  BY ONLY <1>2 DEF Taking, Plain
<1>5. \A q \in DOMAIN u : q \notin Range(s)
  <2>1. \A q \in DOMAIN u : q \notin Listed(h) BY DEF HeapOK, Owned
  <2> QED BY ONLY <1>3, <2>1
<1>6. Range(s) \subseteq DOMAIN uA BY ONLY <1>4
<1>7. HeapOK(h2, uB, {}, t) /\ Same(hA, h2, MergeFields) /\ (hA.abort => h2.abort)
  <2>1. \A q \in Range(s) : ~uA[q].mmapped BY <1>4
  <2>2. uB = WithoutAll(uA, Range(s)) BY <1>2
  <2> QED BY ONLY <1>1, <1>3, <1>6, <2>1, <2>2, MergedAll
<1>8. DOMAIN u = DOMAIN uB /\ \A q \in DOMAIN uB : u[q] = uB[q]
  BY ONLY <1>2, <1>4, <1>5 DEF WithoutAll
<1>9. HeapOK(h2, u, {}, t)
  BY ONLY <1>7, <1>8, SameHeld
<1>10. Same(h, h2, ConsolidateFields) /\ (h.abort => h2.abort)
  BY ONLY <1>b, <1>7 DEF Same, Fields, MergeFields, ConsolidateFields
<1> QED BY <1>9, <1>10

\* and how many fast bins there are.
LEMMA FastBinCount == NFASTBINS \in Nat
<1>1. request2size(MAX_FAST_SIZE) \in Nat /\ request2size(MAX_FAST_SIZE) >= 32
  <2>1. MAX_FAST_SIZE \in Nat /\ MAX_FAST_SIZE + SIZE_SZ >= 32 BY Builds DEF MAX_FAST_SIZE
  <2>2. request2size(MAX_FAST_SIZE) \in ChunkSizes /\ request2size(MAX_FAST_SIZE) >= MAX_FAST_SIZE + SIZE_SZ
    BY <2>1, RequestServed
  <2>3. SIZE_SZ \in Nat BY Builds
  <2> QED BY <2>1, <2>2, <2>3 DEF ChunkSizes
<1> DEFINE s == request2size(MAX_FAST_SIZE)
<1> HIDE DEF s
<1>2. NFASTBINS = s \div (IF SIZE_SZ = 8 THEN 16 ELSE 8) - 2 + 1
  BY DEF NFASTBINS, fastbin_index, s
<1>3. s \in Nat /\ s >= 32 BY <1>1 DEF s
<1>4. s \div 16 >= 1 /\ s \div 8 >= 1 /\ s \div 16 \in Nat /\ s \div 8 \in Nat BY <1>3
<1> QED BY <1>2, <1>4

\* One fast bin after the other.
LEMMA ConsolidateDef ==
  ASSUME NEW h
  PROVE  \E m : /\ m[0] = [h EXCEPT !.have_fastchunks = FALSE]
                /\ \A n \in 1 .. NFASTBINS : m[n] = consolidate_bin(m[n - 1], n - 1)
                /\ malloc_consolidate(h) = m[NFASTBINS]
<1> DEFINE N == NFASTBINS
           Is(g, k) == g = [n \in 0 .. k |-> IF n = 0 THEN [h EXCEPT !.have_fastchunks = FALSE] ELSE consolidate_bin(g[n - 1], n - 1)]
           T == {k \in Nat : \E g : Is(g, k)}
<1>0. N \in Nat
  BY FastBinCount
<1>1. 0 \in T
  <2> DEFINE m0 == [n \in 0 .. 0 |-> [h EXCEPT !.have_fastchunks = FALSE]]
  <2>1. Is(m0, 0) OBVIOUS
  <2> QED BY <2>1
<1>2. ASSUME NEW k \in Nat, k \in T PROVE k + 1 \in T
  <2>1. PICK g : Is(g, k) BY <1>2
  <2> DEFINE f == [n \in 0 .. k + 1 |-> IF n = 0 THEN [h EXCEPT !.have_fastchunks = FALSE] ELSE consolidate_bin(g[n - 1], n - 1)]
  <2>2. \A n \in 0 .. k : f[n] = g[n]
    <3>1. \A n \in 0 .. k : g[n] = IF n = 0 THEN [h EXCEPT !.have_fastchunks = FALSE] ELSE consolidate_bin(g[n - 1], n - 1) BY <2>1
    <3>2. \A n \in 0 .. k : n \in 0 .. k + 1 OBVIOUS
    <3>3. \A n \in 0 .. k + 1 : f[n] = IF n = 0 THEN [h EXCEPT !.have_fastchunks = FALSE] ELSE consolidate_bin(g[n - 1], n - 1) OBVIOUS
    <3> HIDE DEF f
    <3> QED BY <3>1, <3>2, <3>3
  <2>3. \A n \in 0 .. k + 1 : n # 0 => f[n - 1] = g[n - 1]
    <3>1. \A n \in 0 .. k + 1 : n # 0 => n - 1 \in 0 .. k OBVIOUS
    <3> HIDE DEF f
    <3> QED BY <2>2, <3>1
  <2>4. f = [n \in 0 .. k + 1 |-> IF n = 0 THEN [h EXCEPT !.have_fastchunks = FALSE] ELSE consolidate_bin(f[n - 1], n - 1)]
    BY <2>3
  <2> HIDE DEF f
  <2>5. \E x : Is(x, k + 1)
    BY <2>4
  <2>6. k + 1 \in Nat
    OBVIOUS
  <2> HIDE DEF Is
  <2> QED BY <2>5, <2>6
<1>3. \E g : Is(g, N)
  <2>1. Nat \subseteq T
    <3> HIDE DEF T
    <3> QED BY <1>1, <1>2, Induction
  <2>2. N \in T BY <1>0, <2>1
  <2> QED BY <2>2
<1> DEFINE m == CHOOSE g : g = [n \in 0 .. NFASTBINS |-> IF n = 0 THEN [h EXCEPT !.have_fastchunks = FALSE] ELSE consolidate_bin(g[n - 1], n - 1)]
<1>4. m = [n \in 0 .. N |-> IF n = 0 THEN [h EXCEPT !.have_fastchunks = FALSE] ELSE consolidate_bin(m[n - 1], n - 1)]
  BY <1>3
<1>5. malloc_consolidate(h) = m[N]
  BY DEF malloc_consolidate
<1> HIDE DEF m
<1>6. m[0] = [h EXCEPT !.have_fastchunks = FALSE]
  <2>1. 0 \in 0 .. N BY <1>0
  <2> QED BY <2>1, <1>4
<1>7. \A n \in 1 .. N : m[n] = consolidate_bin(m[n - 1], n - 1)
  <2>1. \A n \in 1 .. N : n \in 0 .. N /\ n # 0 BY <1>0
  <2> HIDE DEF N
  <2> QED BY ONLY <2>1, <1>4
<1> QED BY <1>5, <1>6, <1>7

\* malloc_consolidate keeps what the invariant says; nobody's chunk changes.
LEMMA Consolidated ==
  ASSUME NEW h, NEW u, NEW t, HeapOK(h, u, {}, t), NEW h2, h2 = malloc_consolidate(h)
  PROVE  HeapOK(h2, u, {}, t) /\ Same(h, h2, ConsolidateFields) /\ (h.abort => h2.abort)
<1>1. PICK m : /\ m[0] = [h EXCEPT !.have_fastchunks = FALSE]
               /\ \A n \in 1 .. NFASTBINS : m[n] = consolidate_bin(m[n - 1], n - 1)
               /\ h2 = m[NFASTBINS]
  BY ConsolidateDef
<1> DEFINE P(g) == HeapOK(g, u, {}, t) /\ Same(h, g, ConsolidateFields) /\ (h.abort => g.abort)
           T == {n \in Nat : P(m[n])}
<1>2. 0 \in T
  <2> DEFINE g == [h EXCEPT !.have_fastchunks = FALSE]
  <2>1. Rec(h) BY DEF HeapOK
  <2>2. Same(h, g, {"have_fastchunks"}) BY ONLY <2>1 DEF Rec, Same, Fields
  <2> HIDE DEF g
  <2>3. Same(h, g, Loose) BY ONLY <2>2 DEF Same, Loose
  <2>4. HeapOK(g, u, {}, t) BY ONLY <2>3, HeapOK(h, u, {}, t), SameHeap
  <2>5. P(g) BY ONLY <2>2, <2>4 DEF Same, Fields, ConsolidateFields
  <2>6. m[0] = g BY <1>1 DEF g
  <2> HIDE DEF P
  <2> QED BY <2>5, <2>6
<1>3. ASSUME NEW n \in Nat, n < NFASTBINS, n \in T PROVE n + 1 \in T
  <2>1. n + 1 \in 1 .. NFASTBINS /\ n + 1 - 1 = n BY <1>3, FastBinCount
  <2>2. m[n + 1] = consolidate_bin(m[n], n) BY <1>1, <2>1
  <2>3. P(m[n]) BY <1>3
  <2>4. HeapOK(m[n + 1], u, {}, t) /\ Same(m[n], m[n + 1], ConsolidateFields)
        /\ (m[n].abort => m[n + 1].abort)
    BY ONLY <2>2, <2>3, ConsolidatedBin
  <2>5. P(m[n + 1]) BY ONLY <2>3, <2>4 DEF Same
  <2>6. n + 1 \in Nat OBVIOUS
  <2> HIDE DEF P
  <2> QED BY <2>5, <2>6
<1> HIDE DEF T
<1>4. NFASTBINS \in T BY <1>2, <1>3, FastBinCount, Reached
<1>5. P(m[NFASTBINS]) BY <1>4 DEF T
<1> QED BY <1>1, <1>5

-----------------------------------------------------------------------------
(* Memory goes back to the system: release, systrim and free.              *)

\* What is assumed of the system, one fact at a time.
LEMMA System ==
  /\ Pagesize \in Nat /\ Pagesize > 0 /\ Pagesize >= 2 * MINSIZE /\ aligned_OK(Pagesize)
  /\ BrkStart \in Nat /\ HeapEnd \in Nat /\ MmapStart \in Nat /\ MmapEnd \in Nat
  /\ 0 < BrkStart /\ BrkStart <= HeapEnd /\ HeapEnd <= MmapStart /\ MmapStart <= MmapEnd
  /\ MmapStart % Pagesize = 0
  /\ TcacheCount \in Nat /\ TcacheBins \in Nat
BY SystemAssumption, Units DEF aligned_OK

\* Rounding down to a page.
LEMMA RoundDown ==
  ASSUME NEW x \in Int
  PROVE  /\ ALIGN_DOWN(x, Pagesize) \in Int
         /\ ALIGN_DOWN(x, Pagesize) <= x
         /\ x < ALIGN_DOWN(x, Pagesize) + Pagesize
<1>1. Pagesize \in Nat /\ Pagesize > 0 BY System
<1>2. x % Pagesize \in 0 .. Pagesize - 1 BY ONLY <1>1, x \in Int
<1> QED BY ONLY <1>1, <1>2, x \in Int DEF ALIGN_DOWN

\* Top ends at the break: what is around it when both move to top + s.
LEMMA TopAtBrk ==
  ASSUME NEW h, NEW u, NEW t, HeapOK(h, u, {}, t), h.top # NIL, End(h.hdr, h.top) = h.brk,
         NEW s \in Nat, s >= MINSIZE, NEW b, b = h.top + s, b <= HeapEnd,
         NEW W2, W2 = Space(b, h.mapped)
  PROVE  /\ BrkStart <= h.top
         /\ \A q \in DOMAIN h.hdr : h.top < q => h.top + s <= Start(h.hdr, q)
         /\ \A z \in Nat : h.top <= z /\ z < h.top + s => z \in W2
         /\ \A q \in DOMAIN h.hdr : q # h.top =>
              \A z \in Nat : Start(h.hdr, q) <= z /\ z < End(h.hdr, q) => z \in W2
<1>1. /\ h.top \in DOMAIN h.hdr /\ h.top \in Nat /\ ~h.hdr[h.top].mmapped
      /\ h.hdr[h.top].size \in Nat /\ h.hdr[h.top].size >= MINSIZE
  BY TopFacts
<1>2. MINSIZE > 0 /\ MINSIZE \in Nat BY Units
<1>3. h.brk \in Nat /\ h.brk <= HeapEnd BY System DEF HeapOK, Bounds
<1>4. Start(h.hdr, h.top) = h.top /\ h.brk = h.top + h.hdr[h.top].size
  BY <1>1 DEF Start, End
<1>5. \A q \in DOMAIN h.hdr : \A z \in Nat : Start(h.hdr, q) <= z /\ z < End(h.hdr, q) =>
        \/ BrkStart <= z /\ z < h.brk
        \/ MmapStart <= z /\ z < MmapEnd /\ PageOf(z) \in h.mapped
  BY DEF HeapOK, Laid, Shape, Inside, Space
<1>6. BrkStart <= h.top
  <2>1. \/ BrkStart <= h.top /\ h.top < h.brk
        \/ MmapStart <= h.top /\ h.top < MmapEnd /\ PageOf(h.top) \in h.mapped
    <3>1. Start(h.hdr, h.top) <= h.top /\ h.top < End(h.hdr, h.top) BY <1>1, <1>2, <1>4
    <3> QED BY <3>1, <1>1, <1>5
  <2> QED BY ONLY <2>1, <1>1, <1>2, <1>3, <1>4, System
<1>7. ASSUME NEW q \in DOMAIN h.hdr
      PROVE  /\ q \in Nat /\ h.hdr[q].size \in Nat /\ Start(h.hdr, q) \in Nat
             /\ q # h.top => Start(h.hdr, q) < End(h.hdr, q)
             /\ q < h.top => End(h.hdr, q) <= h.top
             /\ h.top < q => h.brk <= Start(h.hdr, q)
  <2>1. /\ q \in Nat /\ h.hdr[q].size \in Nat /\ h.hdr[q].mmapped \in BOOLEAN
        /\ h.hdr[q].prev_size \in Nat /\ h.hdr[q].prev_size <= q
    BY HeaderFacts
  <2>2. q # h.top => h.hdr[q].size > 0 BY DEF HeapOK, Laid, Shape, Typed
  <2>3. Start(h.hdr, q) \in Nat /\ Start(h.hdr, q) <= q /\ End(h.hdr, q) = q + h.hdr[q].size
    BY ONLY <2>1 DEF Start, End
  <2>4. Apart(h.hdr) BY DEF HeapOK, Laid, Shape
  <2>5. q < h.top => End(h.hdr, q) <= Start(h.hdr, h.top) BY ONLY <2>4, <1>1, q \in DOMAIN h.hdr DEF Apart
  <2>6. h.top < q => End(h.hdr, h.top) <= Start(h.hdr, q) BY ONLY <2>4, <1>1, q \in DOMAIN h.hdr DEF Apart
  <2> QED BY ONLY <2>1, <2>2, <2>3, <2>5, <2>6, <1>4, End(h.hdr, h.top) = h.brk
<1>8. b \in Nat /\ b = h.top + s /\ b > h.top
  BY <1>1, <1>2
<1>9. \A q \in DOMAIN h.hdr : h.top < q => h.top + s <= Start(h.hdr, q)
  <2>1. ASSUME NEW q \in DOMAIN h.hdr, h.top < q PROVE b <= Start(h.hdr, q)
    <3>1. Start(h.hdr, q) \in Nat /\ Start(h.hdr, q) < End(h.hdr, q) /\ h.brk <= Start(h.hdr, q)
      BY <1>1, <1>7, <2>1
    <3>2. \/ BrkStart <= Start(h.hdr, q) /\ Start(h.hdr, q) < h.brk
          \/ MmapStart <= Start(h.hdr, q)
      <4>1. Start(h.hdr, q) <= Start(h.hdr, q) BY ONLY <3>1
      <4> QED BY <1>5, <3>1, <4>1
    <3> QED BY ONLY <3>1, <3>2, <1>3, <1>8, b <= HeapEnd, System
  <2> QED BY <2>1
<1>10. ASSUME NEW z \in Nat, h.top <= z, z < h.top + s PROVE z \in W2
  <2>1. BrkStart <= z /\ z < b BY ONLY <1>1, <1>6, <1>8, <1>10, System
  <2> QED BY <2>1 DEF Space
<1>11. ASSUME NEW q \in DOMAIN h.hdr, q # h.top, NEW z \in Nat,
              Start(h.hdr, q) <= z, z < End(h.hdr, q)
       PROVE  z \in W2
  <2>1. \/ BrkStart <= z /\ z < h.brk
        \/ MmapStart <= z /\ z < MmapEnd /\ PageOf(z) \in h.mapped
    BY <1>5, <1>11
  <2>2. z < h.brk => z < b
    <3>1. /\ q \in Nat /\ q # h.top
          /\ q < h.top => End(h.hdr, q) <= h.top
          /\ h.top < q => h.brk <= Start(h.hdr, q)
      BY <1>7, <1>11
    <3>2. h.hdr[q].size \in Nat /\ End(h.hdr, q) \in Nat /\ Start(h.hdr, q) \in Nat BY <1>7 DEF End
    <3> QED BY ONLY <1>1, <1>8, <1>11, <1>3, <3>1, <3>2
  <2> QED BY <2>1, <2>2 DEF Space
<1> QED BY <1>6, <1>9, <1>10, <1>11

\* Nothing but the size of top changes, the break and system_mem.
LEMMA TopResized ==
  ASSUME NEW h, NEW u, NEW t, HeapOK(h, u, {}, t),
         NEW h2, Same(h, h2, Loose \cup {"hdr", "brk", "system_mem"}),
         NEW s, ResizesTop(h.hdr, h.top, s, Space(h2.brk, h2.mapped), h2.hdr),
         Bounds(h2)
  PROVE  HeapOK(h2, u, {}, t)
<1>1. /\ Shape(h.hdr, h.top, Space(h.brk, h.mapped), h.contiguous, h.sbrk_base)
      /\ Tagged(h.hdr, h.top, Members(h.bins))
      /\ Rec(h) /\ h.sbrk_base \in Nat
  BY LaidOut
<1>2. /\ Rec(h2) /\ h2.top = h.top /\ h2.bins = h.bins /\ h2.fast = h.fast
      /\ h2.entries = h.entries /\ h2.heads = h.heads /\ h2.binmap = h.binmap
      /\ h2.contiguous = h.contiguous /\ h2.sbrk_base = h.sbrk_base /\ h2.tcache = h.tcache
  BY DEF Same, Fields, Loose
<1>3. /\ Shape(h2.hdr, h.top, Space(h2.brk, h2.mapped), h.contiguous, h.sbrk_base)
      /\ Tagged(h2.hdr, h.top, Members(h.bins))
      /\ Chunks(h2.hdr, h.top) = Chunks(h.hdr, h.top)
  BY ONLY <1>1, ResizesTop(h.hdr, h.top, s, Space(h2.brk, h2.mapped), h2.hdr), ResizeTop
<1>4. /\ DOMAIN h2.hdr = DOMAIN h.hdr
      /\ h2.hdr[h.top] = Hd(s, h.hdr[h.top].prev_inuse, h.hdr[h.top].prev_size, FALSE)
      /\ \A q \in DOMAIN h.hdr : q # h.top => h2.hdr[q] = h.hdr[q]
  BY DEF ResizesTop
<1>5. Owned(h.hdr, h.top, Listed(h), Members(h.bins), u)
  BY DEF HeapOK
<1>6. /\ h.top \in DOMAIN h.hdr /\ h.top \notin Chunks(h.hdr, h.top) /\ ~h.hdr[h.top].mmapped
  BY TopFacts DEF Chunks
<1>7. h.top \notin Listed(h) /\ h.top \notin Members(h.bins) /\ h.top \notin DOMAIN u
  <2>1. h.top \notin Listed(h) /\ h.top \notin Members(h.bins) BY ONLY <1>5, <1>6 DEF Owned
  <2>2. h.top \in DOMAIN u => ~u[h.top].mmapped BY ONLY <1>5, <1>6 DEF Owned, Face
  <2>3. h.top \in DOMAIN u => h.top \in Chunks(h.hdr, h.top) BY ONLY <1>5, <2>2 DEF Owned
  <2> QED BY ONLY <2>1, <2>3, <1>6
<1> DEFINE T == {h.top}
<1>8. T \cap Listed(h) = {} BY <1>7
<1>9. Others(h, Members(h.bins) \cup {}, u, h2, Members(h.bins), u, T)
  <2>1. \A x : x \notin T => x # h.top OBVIOUS
  <2> HIDE DEF T
  <2> QED BY ONLY <1>2, <1>4, <2>1 DEF Others
<1>10. Settled(h2, Members(h.bins), u, T)
  <2>1. ~h2.hdr[h.top].mmapped BY ONLY <1>4 DEF Hd
  <2>2. \A x \in T : x = h.top OBVIOUS
  <2>3. h.top \notin Chunks(h2.hdr, h2.top) BY ONLY <1>2, <1>3, <1>6
  <2> HIDE DEF T
  <2> QED BY ONLY <2>1, <2>2, <2>3, <1>7 DEF Settled
<1> HIDE DEF T
<1>11. /\ Owned(h2.hdr, h2.top, Listed(h), Members(h.bins), u)
       /\ \A q \in Listed(h) : h2.hdr[q].size = h.hdr[q].size
       /\ Mapped(h2.hdr)
  BY ONLY <1>8, <1>9, <1>10, HeapOK(h, u, {}, t), Changed
<1>12. Indexed(h2.hdr, h2.fast, h2.entries)
  <2>1. \A i \in DOMAIN h.fast : \A q \in Range(h.fast[i]) : q \in Listed(h) BY DEF Listed, Members
  <2>2. \A i \in DOMAIN h.entries : \A q \in Range(h.entries[i]) : q \in Listed(h) BY DEF Listed, Members
  <2>3. Indexed(h.hdr, h.fast, h.entries) BY DEF HeapOK
  <2> QED BY ONLY <1>2, <1>11, <2>1, <2>2, <2>3 DEF Indexed
<1>13. Binned(h2.hdr, h2.bins, h2.heads, h2.binmap)
  <2>1. \A q \in Members(h.bins) : h2.hdr[q].size = h.hdr[q].size
    <3>1. Members(h.bins) \subseteq DOMAIN h.hdr BY ONLY <1>1 DEF Tagged, Chunks
    <3> QED BY ONLY <1>4, <1>7, <3>1
  <2>2. Binned(h.hdr, h.bins, h.heads, h.binmap) BY DEF HeapOK
  <2> QED BY ONLY <1>2, <2>1, <2>2, SameBinned
<1>14. /\ Lists3(h2) /\ Listed(h2) = Listed(h) /\ Members(h2.fast) \cap Members(h2.entries) = {}
       /\ h2.tcache = t
  BY ONLY <1>2, HeapOK(h, u, {}, t) DEF HeapOK, Lists3, Listed
<1>15. Laid(h2, {})
  BY ONLY <1>2, <1>3 DEF Laid
<1> QED BY ONLY <1>2, <1>11, <1>12, <1>13, <1>14, <1>15, Bounds(h2) DEF HeapOK

\* Top becomes x bytes smaller, or larger.
LEMMA Released ==
  ASSUME NEW h, NEW u, NEW t, HeapOK(h, u, {}, t), NEW x \in Int,
         h.top # NIL => h.hdr[h.top].size - x >= MINSIZE,
         NEW h2, h2 = release(h, x)
  PROVE  HeapOK(h2, u, {}, t) /\ Same(h, h2, {"hdr", "brk", "system_mem"})
<1>1. CASE h.brk # next_chunk(h, h.top) \/ h.brk - x > HeapEnd
  <2>1. h2 = h BY <1>1 DEF release
  <2>2. Same(h, h, {"hdr", "brk", "system_mem"}) BY DEF Same, HeapOK
  <2> QED BY <2>1, <2>2
<1>2. CASE ~(h.brk # next_chunk(h, h.top) \/ h.brk - x > HeapEnd)
  <2> DEFINE s == h.hdr[h.top].size - x
             hA == set_head_size(h, h.top, s)
  <2>1. h2 = [hA EXCEPT !.brk = @ - x, !.system_mem = @ - x]
    BY <1>2 DEF release, chunksize
  <2>2. hA = set_head_size(h, h.top, s) OBVIOUS
  <2>3. h.brk = End(h.hdr, h.top) /\ h.brk - x <= HeapEnd /\ h.brk \in Nat /\ h.brk > 0
        /\ h.system_mem \in Int /\ h.brk = h.top + h.hdr[h.top].size
    <3>1. h.brk \in Nat /\ h.brk > 0 /\ h.system_mem \in Int BY System DEF HeapOK, Bounds
    <3> QED BY <1>2, <3>1, System DEF End, next_chunk, chunksize
  <2>4. /\ h.top \in DOMAIN h.hdr /\ h.top \in Nat /\ ~h.hdr[h.top].mmapped
        /\ h.hdr[h.top] \in AnyHeader /\ h.hdr[h.top].size \in Nat
        /\ h.top = NIL => h.hdr[h.top].size = 0
    BY TopFacts
  <2>5. h.top # NIL
    <3>1. SUFFICES ASSUME h.top = NIL PROVE FALSE OBVIOUS
    <3>2. h.brk = 0 + 0 BY ONLY <2>3, <2>4, <3>1 DEF NIL
    <3> QED BY <2>3, <3>2
  <2>6. s \in Nat /\ s >= MINSIZE
    <3>1. s \in Int /\ s >= MINSIZE BY <2>4, <2>5
    <3> HIDE DEF s
    <3> QED BY ONLY <3>1, Units
  <2>7. Rec(h) BY DEF HeapOK
  <2>s. s = h.hdr[h.top].size - x OBVIOUS
  <2> HIDE DEF s, hA
  <2>8. Wrote(h, hA, h.top, Hd(s, h.hdr[h.top].prev_inuse, h.hdr[h.top].prev_size, FALSE))
    BY ONLY <2>2, <2>4, <2>7, SetHeadSize
  <2>9. /\ Same(hA, h2, {"brk", "system_mem"}) /\ h2.brk = hA.brk - x
        /\ h2.system_mem = hA.system_mem - x
    <3>1. Rec(hA) BY ONLY <2>8 DEF Wrote, Same
    <3> QED BY ONLY <2>1, <3>1 DEF Rec, Same, Fields
  <2>10. /\ Same(h, h2, {"hdr", "brk", "system_mem"}) /\ h2.hdr = hA.hdr
         /\ h2.brk = h.brk - x /\ h2.system_mem = h.system_mem - x
         /\ h2.mapped = h.mapped /\ h2.top = h.top /\ h2.contiguous = h.contiguous
         /\ h2.sbrk_base = h.sbrk_base /\ h2.top_pad = h.top_pad
    BY ONLY <2>8, <2>9 DEF Wrote, Same, Fields
  <2>11. h2.brk = h.top + s /\ h2.brk <= HeapEnd
    BY ONLY <2>3, <2>4, <2>10, <2>s, x \in Int
  <2> DEFINE W2 == Space(h2.brk, h.mapped)
  <2>12. /\ BrkStart <= h.top
         /\ \A q \in DOMAIN h.hdr : h.top < q => h.top + s <= Start(h.hdr, q)
         /\ \A z \in Nat : h.top <= z /\ z < h.top + s => z \in W2
         /\ \A q \in DOMAIN h.hdr : q # h.top =>
              \A z \in Nat : Start(h.hdr, q) <= z /\ z < End(h.hdr, q) => z \in W2
    BY ONLY <2>3, <2>5, <2>6, <2>11, HeapOK(h, u, {}, t), W2 = Space(h2.brk, h.mapped), TopAtBrk
  <2>13. h2.hdr[h.top] = Hd(s, h.hdr[h.top].prev_inuse, h.hdr[h.top].prev_size, FALSE)
         /\ DOMAIN h2.hdr = DOMAIN h.hdr /\ \A q \in DOMAIN h.hdr : q # h.top => h2.hdr[q] = h.hdr[q]
    BY ONLY <2>8, <2>10, <2>4 DEF Wrote
  <2>w. W2 = Space(h2.brk, h2.mapped) BY <2>10
  <2> HIDE DEF W2
  <2>14. ResizesTop(h.hdr, h.top, s, Space(h2.brk, h2.mapped), h2.hdr)
    BY ONLY <2>5, <2>6, <2>12, <2>13, <2>w DEF ResizesTop
  <2>15. Bounds(h2)
    <3>1. End(h2.hdr, h2.top) = h.top + s BY ONLY <2>10, <2>13 DEF End, Hd
    <3>2. h2.brk \in BrkStart .. HeapEnd
      <4>1. MINSIZE \in Nat BY Units
      <4>2. h2.brk \in Nat BY ONLY <2>11, <2>4, <2>6
      <4> QED BY ONLY <4>1, <4>2, <2>11, <2>12, <2>4, <2>6, System
    <3>3. Bounds(h) BY DEF HeapOK
    <3>4. h2.system_mem \in Int BY <2>3, <2>10
    <3>5. h2.contiguous /\ h2.top # NIL => h2.sbrk_base + h2.system_mem = End(h2.hdr, h2.top)
      <4>1. h.contiguous => h.sbrk_base + h.system_mem = h.brk /\ h.sbrk_base \in Nat
        BY ONLY <3>3, <2>3, <2>5 DEF Bounds
      <4> QED BY ONLY <4>1, <3>1, <2>10, <2>11, <2>3, x \in Int
    <3>6. h2.contiguous => End(h2.hdr, h2.top) <= h2.brk
      BY ONLY <3>1, <2>11, <2>4, <2>6
    <3> QED BY ONLY <3>1, <3>2, <3>3, <3>4, <3>5, <3>6, <2>10, <2>5 DEF Bounds
  <2>16. Same(h, h2, Loose \cup {"hdr", "brk", "system_mem"})
    BY ONLY <2>10 DEF Same
  <2>17. HeapOK(h2, u, {}, t)
    BY ONLY <2>14, <2>15, <2>16, HeapOK(h, u, {}, t), TopResized
  <2> QED BY ONLY <2>10, <2>17
<1> QED BY <1>1, <1>2

\* systrim gives memory back from top only,
LEMMA Systrimmed ==
  ASSUME NEW h, NEW u, NEW t, HeapOK(h, u, {}, t), NEW pad \in Nat, NEW h2, h2 = systrim(h, pad)
  PROVE  HeapOK(h2, u, {}, t) /\ Same(h, h2, {"hdr", "brk", "system_mem"})
<1> DEFINE a == h.hdr[h.top].size - MINSIZE - 1
           x == ALIGN_DOWN(a - pad, Pagesize)
<1>1. h.hdr[h.top].size \in Nat /\ MINSIZE \in Nat BY TopFacts, Units
<1>2. a \in Int /\ a - pad \in Int BY <1>1
<1>3. h2 = IF a \in 0 .. pad THEN h ELSE release(h, x)
  BY DEF systrim, chunksize
<1>4. x \in Int /\ x <= a - pad
  <2> HIDE DEF a
  <2> QED BY <1>2, RoundDown
<1>5. Same(h, h, {"hdr", "brk", "system_mem"}) BY DEF Same, HeapOK
<1>6. h.top # NIL => h.hdr[h.top].size >= MINSIZE BY TopFacts
<1>a. a = h.hdr[h.top].size - MINSIZE - 1 OBVIOUS
<1> HIDE DEF a, x
<1>7. a \notin 0 .. pad => (h.top # NIL => h.hdr[h.top].size - x >= MINSIZE)
  BY ONLY <1>1, <1>2, <1>4, <1>6, <1>a, pad \in Nat
<1> QED BY <1>3, <1>4, <1>5, <1>7, Released

TrimFields == ConsolidateFields \cup {"brk", "system_mem"}

\* and so does _int_free after it has made top large.
LEMMA TrimmedLarge ==
  ASSUME NEW h, NEW u, NEW t, HeapOK(h, u, {}, t), NEW h2, h2 = trim_large_top(h)
  PROVE  HeapOK(h2, u, {}, t) /\ Same(h, h2, {"hdr", "brk", "system_mem"})
<1>1. h.top_pad \in Nat /\ Rec(h) BY DEF HeapOK, Bounds
<1>2. Same(h, h, {"hdr", "brk", "system_mem"}) BY <1>1 DEF Same
<1>3. h2 = h \/ h2 = systrim(h, h.top_pad) BY DEF trim_large_top
<1> QED BY <1>1, <1>2, <1>3, Systrimmed

\* What free does when the merged chunk is large.
LEMMA TrimmedAfter ==
  ASSUME NEW h, NEW u, NEW t, HeapOK(h, u, {}, t), NEW q, NEW h2, h2 = trim_after(h, q)
  PROVE  HeapOK(h2, u, {}, t) /\ Same(h, h2, TrimFields) /\ (h.abort => h2.abort)
<1> DEFINE hA == IF h.have_fastchunks THEN malloc_consolidate(h) ELSE h
<1>1. h2 = h \/ h2 = trim_large_top(hA) BY DEF trim_after
<1>2. Same(h, h, TrimFields) BY DEF Same, HeapOK
<1>3. hA = h \/ hA = malloc_consolidate(h) OBVIOUS
<1> HIDE DEF hA
<1>4. HeapOK(hA, u, {}, t) /\ Same(h, hA, TrimFields) /\ (h.abort => hA.abort)
  <2>1. CASE hA = h BY <2>1, <1>2
  <2>2. CASE hA = malloc_consolidate(h)
    <3>1. HeapOK(hA, u, {}, t) /\ Same(h, hA, ConsolidateFields) /\ (h.abort => hA.abort)
      BY ONLY <2>2, HeapOK(h, u, {}, t), Consolidated
    <3> QED BY ONLY <3>1 DEF Same, TrimFields
  <2> QED BY <1>3, <2>1, <2>2
<1>5. CASE h2 = h BY <1>2, <1>5
<1>6. CASE h2 = trim_large_top(hA)
  <2>1. HeapOK(h2, u, {}, t) /\ Same(hA, h2, {"hdr", "brk", "system_mem"})
    BY ONLY <1>4, <1>6, TrimmedLarge
  <2>2. Same(h, h2, TrimFields) /\ (hA.abort => h2.abort)
    BY ONLY <2>1, <1>4 DEF Same, Fields, TrimFields, ConsolidateFields
  <2> QED BY ONLY <2>1, <2>2, <1>4
<1> QED BY <1>1, <1>5, <1>6

\* A chunk that is not for the cache or a fast bin.
LEMMA FreedChunk ==
  ASSUME NEW h, NEW u, NEW t, HeapOK(h, u, {}, t), NEW p \in DOMAIN u, ~u[p].mmapped,
         NEW h2, h2 = free_chunk(h, p)
  PROVE  HeapOK(h2, Without(u, p), {}, t) /\ Same(h, h2, TrimFields) /\ (h.abort => h2.abort)
<1> DEFINE c == /\ p # h.top
                /\ h.contiguous => next_chunk(h, p) < next_chunk(h, h.top)
                /\ inuse(h, p)
                /\ NextSizeOK(h, p)
           hA == Require(h, c)
           hB == Merge(hA, p)
           q == merge_start(h, p)
<1>1. h2 = trim_after(hB, q) BY DEF free_chunk
<1>2. hA = Require(h, c) /\ hB = Merge(hA, p) OBVIOUS
<1> HIDE DEF c, hA, hB, q
<1>3. HeapOK(hA, u, {}, t) /\ Same(h, hA, {"abort"}) /\ (h.abort => hA.abort)
  BY ONLY <1>2, HeapOK(h, u, {}, t), Required
<1>4. HeapOK(hB, Without(u, p), {}, t) /\ Same(hA, hB, MergeFields) /\ (hA.abort => hB.abort)
  BY ONLY <1>2, <1>3, p \in DOMAIN u, ~u[p].mmapped, Merged
<1>5. HeapOK(h2, Without(u, p), {}, t) /\ Same(hB, h2, TrimFields) /\ (hB.abort => h2.abort)
  BY ONLY <1>1, <1>4, TrimmedAfter
<1> QED BY ONLY <1>3, <1>4, <1>5 DEF Same, Fields, TrimFields, ConsolidateFields, MergeFields

FreeFields == TrimFields \cup {"entries"}

\* _int_free: the chunk is nobody's any more.
LEMMA Freed ==
  ASSUME NEW h, NEW u, NEW t, HeapOK(h, u, {}, t), NEW p \in DOMAIN u, ~u[p].mmapped,
         NEW h2, h2 = int_free(h, p)
  PROVE  HeapOK(h2, Without(u, p), {}, t) /\ Same(h, h2, FreeFields) /\ (h.abort => h2.abort)
<1> DEFINE sz == chunksize(h, p)
           c == /\ sz >= MINSIZE
                /\ aligned_OK(sz)
                /\ aligned_OK(p)
                /\ Cacheable(h, sz) => ~Contains(At(h.entries, csize2tidx(sz)), p)
           hA == Require(h, c)
<1>1. h2 = free_checked(hA, p, sz) BY DEF int_free
<1>2. hA = Require(h, c) OBVIOUS
<1>s. sz = h.hdr[p].size BY DEF chunksize
<1> HIDE DEF c, hA, sz
<1>3. HeapOK(hA, u, {}, t) /\ Same(h, hA, {"abort"}) /\ (h.abort => hA.abort)
  BY ONLY <1>2, HeapOK(h, u, {}, t), Required
<1>4. sz = hA.hdr[p].size BY ONLY <1>3, <1>s DEF Same, Fields
<1>5. CASE Cacheable(hA, sz) /\ Room(hA, sz) > 0
  <2>1. h2 = tcache_put(hA, p) BY <1>1, <1>5 DEF free_checked
  <2>2. Len(At(hA.entries, csize2tidx(hA.hdr[p].size))) + 1 <= TcacheCount
    <3>1. Proper(hA.entries) BY ONLY <1>3 DEF HeapOK, Lists3
    <3>2. IsList(At(hA.entries, csize2tidx(sz))) BY ONLY <3>1, AtList
    <3>3. Len(At(hA.entries, csize2tidx(sz))) \in Nat BY ONLY <3>2 DEF IsList
    <3>4. TcacheCount - Len(At(hA.entries, csize2tidx(sz))) > 0 BY <1>5 DEF Room
    <3>5. Len(At(hA.entries, csize2tidx(sz))) + 1 <= TcacheCount BY ONLY <3>3, <3>4, System
    <3> QED BY ONLY <3>5, <1>4
  <2>3. HeapOK(h2, Without(u, p), {}, t) /\ Same(hA, h2, {"entries"})
    BY ONLY <2>1, <2>2, <1>3, p \in DOMAIN u, ~u[p].mmapped, Caches
  <2> QED BY ONLY <2>3, <1>3 DEF Same, Fields, FreeFields, TrimFields, ConsolidateFields
<1>6. CASE ~(Cacheable(hA, sz) /\ Room(hA, sz) > 0) /\ sz <= hA.max_fast
  <2>1. h2 = free_to_fastbin(hA, p, fastbin_index(sz)) BY <1>1, <1>6 DEF free_checked
  <2>2. fastbin_index(sz) = fastbin_index(hA.hdr[p].size) BY ONLY <1>4
  <2>3. /\ HeapOK(h2, Without(u, p), {}, t) /\ Same(hA, h2, {"fast", "have_fastchunks", "abort"})
        /\ hA.abort => h2.abort
    BY ONLY <2>1, <2>2, <1>3, p \in DOMAIN u, ~u[p].mmapped, ToFast
  <2> QED BY ONLY <2>3, <1>3 DEF Same, Fields, FreeFields, TrimFields, ConsolidateFields
<1>7. CASE ~(Cacheable(hA, sz) /\ Room(hA, sz) > 0) /\ ~(sz <= hA.max_fast)
  <2>1. h2 = free_chunk(hA, p) BY <1>1, <1>7 DEF free_checked
  <2>2. HeapOK(h2, Without(u, p), {}, t) /\ Same(hA, h2, TrimFields) /\ (hA.abort => h2.abort)
    BY ONLY <2>1, <1>3, p \in DOMAIN u, ~u[p].mmapped, FreedChunk
  <2> QED BY ONLY <2>2, <1>3 DEF Same, Fields, FreeFields, TrimFields, ConsolidateFields
<1> QED BY <1>5, <1>6, <1>7

-----------------------------------------------------------------------------
(* Chunks are taken from the bins and split.                               *)

\* A free chunk that is on no bin, and the header e behind it.
InTransit(h, u, p, e) ==
  /\ p \in Chunks(h.hdr, h.top) /\ p \notin Members(h.bins) /\ p \notin Listed(h)
  /\ p \notin DOMAIN u /\ h.hdr[p].prev_inuse = TRUE
  /\ Shape(h.hdr, h.top, Space(h.brk, h.mapped), h.contiguous, h.sbrk_base)
  /\ Tagged(h.hdr, h.top, Members(h.bins) \cup {p})
  /\ h.sbrk_base \in Nat /\ Rec(h)
  /\ e \in DOMAIN h.hdr /\ e \in Nat /\ ~h.hdr[e].mmapped /\ h.hdr[e] \in AnyHeader
  /\ p < e /\ e = p + h.hdr[p].size
  /\ e # h.top /\ e \notin Members(h.bins) /\ h.hdr[e].prev_inuse = FALSE

\* A chunk that unlink_chunk took can be cut or handed out,
LEMMA Unlinked ==
  ASSUME NEW h, NEW u, NEW t, NEW p, HeapOK(h, u, {p}, t), NEW e, e = End(h.hdr, p)
  PROVE  InTransit(h, u, p, e)
<1> DEFINE B == Members(h.bins) \cup {p}
<1>1. /\ Shape(h.hdr, h.top, Space(h.brk, h.mapped), h.contiguous, h.sbrk_base)
      /\ Tagged(h.hdr, h.top, B)
      /\ {p} \cap Members(h.bins) = {}
      /\ Owned(h.hdr, h.top, Listed(h), B, u)
      /\ Rec(h) /\ h.sbrk_base \in Nat
  BY DEF HeapOK, Laid, Bounds
<1>2. p \in B OBVIOUS
<1>m. Members(h.bins) \subseteq B OBVIOUS
<1>b. B = Members(h.bins) \cup {p} OBVIOUS
<1> HIDE DEF B
<1>3. p \in Chunks(h.hdr, h.top) /\ h.hdr[p].prev_inuse /\ ~h.hdr[e].prev_inuse
  BY ONLY <1>1, <1>2, e = End(h.hdr, p) DEF Tagged
<1>4. p \notin Listed(h) /\ p \notin DOMAIN u
  BY ONLY <1>1, <1>2 DEF Owned
<1>5. e \in DOMAIN h.hdr /\ e \in Nat /\ ~h.hdr[e].mmapped /\ p < e /\ e = p + h.hdr[p].size
  BY ONLY <1>1, <1>3, e = End(h.hdr, p), Follower
<1>6. h.hdr[e] \in AnyHeader /\ h.hdr[e].prev_inuse \in BOOLEAN
  BY <1>5, HeaderFacts
<1>7. p \in DOMAIN h.hdr BY ONLY <1>3 DEF Chunks
<1>8. h.hdr[p].prev_inuse \in BOOLEAN
  BY <1>7, HeaderFacts
<1>9. e # h.top /\ e \notin Members(h.bins)
  <2>1. h.hdr[h.top].prev_inuse BY ONLY <1>1 DEF Tagged
  <2>2. e \in B => h.hdr[e].prev_inuse BY ONLY <1>1 DEF Tagged
  <2> QED BY ONLY <2>1, <2>2, <1>3, <1>m
<1>10. p \notin Members(h.bins) BY ONLY <1>1
<1> QED BY ONLY <1>1, <1>3, <1>4, <1>5, <1>6, <1>8, <1>9, <1>10, <1>b DEF InTransit

\* A chunk from a bin is handed out as it is.
LEMMA Retaken ==
  ASSUME NEW h, NEW u, NEW t, NEW p, HeapOK(h, u, {p}, t), NEW e, e = End(h.hdr, p),
         NEW h2, h2 = set_inuse_bit(h, e),
         NEW u2, u2 = With(u, p, Plain(h.hdr[p].size))
  PROVE  HeapOK(h2, u2, {}, t) /\ Same(h, h2, {"hdr"})
<1> DEFINE B == Members(h.bins) \cup {p}
           M == Members(h.bins)
           s == h.hdr[p].size
<1>1. /\ p \in Chunks(h.hdr, h.top) /\ p \notin M /\ p \notin Listed(h)
      /\ p \notin DOMAIN u /\ h.hdr[p].prev_inuse = TRUE
      /\ Shape(h.hdr, h.top, Space(h.brk, h.mapped), h.contiguous, h.sbrk_base)
      /\ Tagged(h.hdr, h.top, B)
      /\ Rec(h)
      /\ e \in DOMAIN h.hdr /\ e \in Nat /\ ~h.hdr[e].mmapped /\ h.hdr[e] \in AnyHeader
      /\ p < e /\ e = p + h.hdr[p].size
      /\ e # h.top /\ e \notin M /\ h.hdr[e].prev_inuse = FALSE
  <2>1. InTransit(h, u, p, e) BY Unlinked
  <2> QED BY ONLY <2>1 DEF InTransit
<1>2. /\ p \in DOMAIN h.hdr /\ p \in Nat /\ ~h.hdr[p].mmapped /\ h.hdr[p] \in AnyHeader
      /\ s \in Nat /\ s >= MINSIZE /\ h.hdr[p].prev_size <= p /\ p # h.top
  BY <1>1, ChunkFacts
<1>3. h.hdr[p].prev_size \in Nat /\ h.hdr[p].mmapped \in BOOLEAN /\ h.hdr[e].mmapped \in BOOLEAN
  BY <1>1, <1>2, HeaderFacts
<1>s. s = h.hdr[p].size /\ B = M \cup {p} /\ M = Members(h.bins) OBVIOUS
<1> HIDE DEF s, B, M
<1>4. Wrote(h, h2, e, Hd(h.hdr[e].size, TRUE, 0, FALSE))
  BY ONLY <1>1, h2 = set_inuse_bit(h, e), SetInuse
<1>5. /\ Same(h, h2, {"hdr"})
      /\ DOMAIN h2.hdr = DOMAIN h.hdr
      /\ h2.hdr[e] = Hd(h.hdr[e].size, TRUE, 0, FALSE)
      /\ \A x \in DOMAIN h.hdr : x # e => h2.hdr[x] = h.hdr[x]
  BY ONLY <1>1, <1>4 DEF Wrote
<1>6. /\ h2.top = h.top /\ h2.brk = h.brk /\ h2.mapped = h.mapped /\ h2.heads = h.heads
      /\ h2.contiguous = h.contiguous /\ h2.sbrk_base = h.sbrk_base /\ h2.binmap = h.binmap
      /\ h2.bins = h.bins
  BY ONLY <1>5 DEF Same, Fields
<1>7. \A x \in DOMAIN h.hdr : Face(h2.hdr[x]) = Face(h.hdr[x])
  <2>1. Face(h2.hdr[e]) = Face(h.hdr[e])
    <3>1. ~h.hdr[e].mmapped /\ h.hdr[e].mmapped \in BOOLEAN /\ h2.hdr[e] = Hd(h.hdr[e].size, TRUE, 0, FALSE)
      BY ONLY <1>1, <1>3, <1>5
    <3> QED BY ONLY <3>1, KeepsFace
  <2> QED BY ONLY <2>1, <1>5
<1>8. /\ Shape(h2.hdr, h.top, Space(h.brk, h.mapped), h.contiguous, h.sbrk_base)
      /\ Tagged(h2.hdr, h.top, M)
  <2>1. M \ {p} = B \ {p} /\ (p \notin M) = TRUE /\ p \notin M BY ONLY <1>1, <1>s
  <2>2. h2.hdr[p] = Hd(h.hdr[p].size, h.hdr[p].prev_inuse, h.hdr[p].prev_size, FALSE)
    <3>1. h2.hdr[p] = h.hdr[p] BY ONLY <1>1, <1>2, <1>5
    <3> QED BY ONLY <3>1, <1>2, PlainHd
  <2>3. h2.hdr[e] = Hd(h.hdr[e].size, p \notin M, 0, FALSE) BY ONLY <2>1, <1>5
  <2>4. 0 \in Nat /\ 0 <= e BY <1>1
  <2>5. Retags(h.hdr, h.top, B, p, e, M, 0, h.hdr[p].prev_size, h2.hdr)
    BY ONLY <1>1, <1>2, <1>3, <1>5, <2>1, <2>2, <2>3, <2>4, e = End(h.hdr, p) DEF Retags
  <2> QED BY ONLY <1>1, <2>5, Retag
<1>9. DOMAIN u2 = DOMAIN u \cup {p} /\ u2[p] = Plain(s) /\ \A x \in DOMAIN u : x # p => u2[x] = u[x]
  BY ONLY u2 = With(u, p, Plain(h.hdr[p].size)), <1>s DEF With
<1>10. Laid(h2, {})
  <2>1. M \cup {} = M OBVIOUS
  <2> QED BY ONLY <1>6, <1>8, <2>1 DEF Laid, M
<1>11. Others(h, M \cup {p}, u, h2, M \cup {}, u2, {p})
  BY ONLY <1>5, <1>6, <1>7, <1>9 DEF Others
<1>12. Settled(h2, M \cup {}, u2, {p})
  <2>1. h2.hdr[p] = h.hdr[p] BY ONLY <1>1, <1>2, <1>5
  <2>2. p \in Chunks(h2.hdr, h2.top) BY ONLY <1>1, <1>5, <1>6, <2>1 DEF Chunks
  <2>3. Face(h2.hdr[p]) = Plain(s) BY ONLY <2>1, <1>2, <1>3, PlainFace DEF s
  <2> QED BY ONLY <1>1, <1>2, <1>9, <2>1, <2>2, <2>3 DEF Settled
<1>13. End(h2.hdr, h2.top) = End(h.hdr, h.top) /\ (h2.top = NIL <=> h.top = NIL)
  <2>1. h.top \in DOMAIN h.hdr BY TopFacts
  <2>2. h2.hdr[h.top].size = h.hdr[h.top].size BY ONLY <2>1, <1>7, SameFace
  <2> QED BY ONLY <2>2, <1>6 DEF End
<1>14. Same(h, h2, Loose \cup {"hdr", "top", "bins", "heads", "binmap"})
  BY ONLY <1>5 DEF Same
<1>15. Proper(h2.bins) /\ Binned(h2.hdr, h2.bins, h2.heads, h2.binmap)
  <2>1. Proper(h.bins) /\ Binned(h.hdr, h.bins, h.heads, h.binmap) BY DEF HeapOK, Lists3
  <2>2. M \subseteq DOMAIN h.hdr BY ONLY <1>1, <1>s DEF Tagged, Chunks
  <2>3. \A x \in Members(h.bins) : h2.hdr[x].size = h.hdr[x].size
    BY ONLY <2>2, <1>7, SameFace DEF M
  <2> QED BY ONLY <2>1, <2>3, <1>6, SameBinned
<1>16. {} \cap Members(h2.bins) = {} /\ {p} \cap Listed(h) = {} BY ONLY <1>1
<1>17. M = Members(h2.bins) /\ M = Members(h.bins) BY ONLY <1>6 DEF M
<1>18. HeapOK(h2, u2, {}, t)
  BY ONLY HeapOK(h, u, {p}, t), <1>10, <1>11, <1>12, <1>13, <1>14, <1>15, <1>16, <1>17, Relaying
<1> QED BY ONLY <1>5, <1>18

\* A chunk in somebody's hands, and the header e behind it.
AtHand(h, u, p, e) ==
  /\ p \in Chunks(h.hdr, h.top) /\ p \notin Members(h.bins) /\ p \notin Listed(h)
  /\ p \in DOMAIN u /\ p \in DOMAIN h.hdr /\ p \in Nat /\ p # h.top
  /\ h.hdr[p] \in AnyHeader /\ ~h.hdr[p].mmapped /\ h.hdr[p].mmapped \in BOOLEAN
  /\ h.hdr[p].prev_inuse \in BOOLEAN /\ h.hdr[p].prev_size \in Nat /\ h.hdr[p].prev_size <= p
  /\ h.hdr[p].size \in Nat /\ h.hdr[p].size >= MINSIZE /\ aligned_OK(p)
  /\ u[p] = Plain(h.hdr[p].size)
  /\ e \in DOMAIN h.hdr /\ e \in Nat /\ ~h.hdr[e].mmapped /\ h.hdr[e] \in AnyHeader
  /\ h.hdr[e].mmapped \in BOOLEAN
  /\ h.hdr[e].prev_size \in Nat /\ h.hdr[e].prev_size <= e
  /\ p < e /\ e = p + h.hdr[p].size /\ aligned_OK(e)

LaidAs(h, B) ==
  /\ Shape(h.hdr, h.top, Space(h.brk, h.mapped), h.contiguous, h.sbrk_base)
  /\ Tagged(h.hdr, h.top, B)
  /\ h.sbrk_base \in Nat /\ Rec(h)

\* and so can one that is in use.
LEMMA Handed ==
  ASSUME NEW h, NEW u, NEW F, NEW t, HeapOK(h, u, F, t), NEW p \in DOMAIN u, ~u[p].mmapped,
         NEW e, e = End(h.hdr, p)
  PROVE  /\ AtHand(h, u, p, e) /\ LaidAs(h, Members(h.bins) \cup F) /\ p \notin F
         /\ h.hdr[e].prev_inuse = TRUE
<1>1. p \in Chunks(h.hdr, h.top) /\ p \notin Members(h.bins) /\ p \notin F /\ p \notin Listed(h)
      /\ u[p] = Plain(h.hdr[p].size)
  BY HeldFacts
<1>2. /\ p \in DOMAIN h.hdr /\ p \in Nat /\ aligned_OK(p) /\ p # h.top
      /\ h.hdr[p].size \in Nat /\ h.hdr[p].size >= MINSIZE
      /\ ~h.hdr[p].mmapped /\ h.hdr[p] \in AnyHeader /\ h.hdr[p].prev_size <= p
  BY <1>1, ChunkFacts
<1>3. e \in DOMAIN h.hdr /\ e \in Nat /\ ~h.hdr[e].mmapped /\ p < e /\ e = p + h.hdr[p].size
  BY <1>1, NextChunk
<1>4. /\ h.hdr[p].prev_inuse \in BOOLEAN /\ h.hdr[p].prev_size \in Nat /\ h.hdr[p].mmapped \in BOOLEAN
  BY <1>2, HeaderFacts
<1>5. /\ h.hdr[e] \in AnyHeader /\ h.hdr[e].prev_size \in Nat /\ h.hdr[e].prev_size <= e
      /\ h.hdr[e].mmapped \in BOOLEAN /\ aligned_OK(e) /\ h.hdr[e].prev_inuse \in BOOLEAN
  BY <1>3, HeaderFacts
<1>6. LaidAs(h, Members(h.bins) \cup F) BY DEF HeapOK, Laid, Bounds, LaidAs
<1>7. h.hdr[e].prev_inuse
  <2>1. h.hdr[End(h.hdr, p)].prev_inuse <=> p \notin Members(h.bins) \cup F
    BY ONLY <1>1, <1>6 DEF LaidAs, Tagged
  <2> QED BY ONLY <2>1, <1>1, e = End(h.hdr, p)
<1>8. h.hdr[e].prev_inuse = TRUE BY ONLY <1>5, <1>7
<1>9. p \in DOMAIN u OBVIOUS
<1> QED BY ONLY <1>1, <1>2, <1>3, <1>4, <1>5, <1>6, <1>8, <1>9 DEF AtHand

CutsHeld(hdr, p, n, e, x, hdr2) ==
  /\ n \in Nat /\ aligned_OK(n) /\ p + MINSIZE <= n /\ n + MINSIZE <= e
  /\ x \in Nat /\ x <= e
  /\ DOMAIN hdr2 = DOMAIN hdr \cup {n}
  /\ hdr2[p] = Hd(n - p, hdr[p].prev_inuse, hdr[p].prev_size, FALSE)
  /\ hdr2[n] = Hd(e - n, TRUE, 0, FALSE)
  /\ hdr2[e] = Hd(hdr[e].size, TRUE, x, FALSE)
  /\ \A q \in DOMAIN hdr : q # p /\ q # e => hdr2[q] = hdr[q]

\* A chunk in use becomes two.
LEMMA CutHeld ==
  ASSUME NEW h, NEW u, NEW t, HeapOK(h, u, {}, t), NEW p \in DOMAIN u, ~u[p].mmapped,
         NEW e, e = End(h.hdr, p), NEW n, NEW x,
         NEW h2, Same(h, h2, {"hdr"}), CutsHeld(h.hdr, p, n, e, x, h2.hdr),
         NEW u2, u2 = With(With(u, p, Plain(n - p)), n, Plain(e - n))
  PROVE  HeapOK(h2, u2, {}, t) /\ n \notin DOMAIN u /\ n # p
<1> DEFINE M == Members(h.bins)
<1>1. AtHand(h, u, p, e) /\ LaidAs(h, M)
  <2>1. AtHand(h, u, p, e) /\ LaidAs(h, Members(h.bins) \cup {})
    BY ONLY HeapOK(h, u, {}, t), p \in DOMAIN u, ~u[p].mmapped, e = End(h.hdr, p), Handed
  <2>2. M = Members(h.bins) \cup {} OBVIOUS
  <2> HIDE DEF M
  <2> QED BY ONLY <2>1, <2>2
<1>2. /\ n \in Nat /\ aligned_OK(n) /\ p + MINSIZE <= n /\ n + MINSIZE <= e
      /\ x \in Nat /\ x <= e
      /\ DOMAIN h2.hdr = DOMAIN h.hdr \cup {n}
      /\ h2.hdr[p] = Hd(n - p, h.hdr[p].prev_inuse, h.hdr[p].prev_size, FALSE)
      /\ h2.hdr[n] = Hd(e - n, TRUE, 0, FALSE)
      /\ h2.hdr[e] = Hd(h.hdr[e].size, TRUE, x, FALSE)
      /\ \A q \in DOMAIN h.hdr : q # p /\ q # e => h2.hdr[q] = h.hdr[q]
  BY DEF CutsHeld
<1>3. /\ h2.top = h.top /\ h2.brk = h.brk /\ h2.mapped = h.mapped /\ h2.heads = h.heads
      /\ h2.contiguous = h.contiguous /\ h2.sbrk_base = h.sbrk_base /\ h2.binmap = h.binmap
      /\ h2.bins = h.bins
  BY DEF Same, Fields
<1>4. MINSIZE \in Nat /\ MINSIZE > 0 BY Units
<1>m. M = Members(h.bins) OBVIOUS
<1> HIDE DEF M
<1>5. n \notin DOMAIN h.hdr
  <2>1. Apart(h.hdr) BY ONLY <1>1 DEF LaidAs, Shape
  <2>2. SUFFICES ASSUME n \in DOMAIN h.hdr PROVE FALSE OBVIOUS
  <2>3. p < n /\ n < e BY ONLY <1>1, <1>2, <1>4 DEF AtHand
  <2>4. End(h.hdr, p) <= Start(h.hdr, n) BY ONLY <1>1, <2>1, <2>2, <2>3 DEF Apart, AtHand
  <2>5. n \in Nat /\ h.hdr[n].prev_size \in Nat /\ h.hdr[n].mmapped \in BOOLEAN
    BY <2>2, HeaderFacts
  <2>6. Start(h.hdr, n) <= n BY ONLY <2>5 DEF Start
  <2>7. Start(h.hdr, n) \in Int BY ONLY <2>5 DEF Start
  <2> QED BY ONLY <2>3, <2>4, <2>5, <2>6, <2>7, <1>1, e = End(h.hdr, p) DEF AtHand
<1>6. n \notin Chunks(h.hdr, h.top) /\ n # h.top
  BY ONLY <1>1, <1>5 DEF Chunks, LaidAs, Shape, Typed
<1>7. n \notin M /\ n \notin Listed(h) /\ n \notin DOMAIN u /\ n # p /\ p # e /\ n # e
  <2>1. M \subseteq DOMAIN h.hdr BY ONLY <1>1 DEF LaidAs, Tagged, Chunks
  <2>2. Owned(h.hdr, h.top, Listed(h), M, u) BY <1>m DEF HeapOK
  <2>3. n \notin Listed(h) BY ONLY <2>2, <1>6 DEF Owned
  <2>4. n \notin DOMAIN u BY ONLY <2>2, <1>5 DEF Owned
  <2> QED BY ONLY <2>1, <2>3, <2>4, <1>1, <1>5 DEF AtHand
<1>8. /\ Shape(h2.hdr, h.top, Space(h.brk, h.mapped), h.contiguous, h.sbrk_base)
      /\ Tagged(h2.hdr, h.top, M)
      /\ Chunks(h2.hdr, h.top) = Chunks(h.hdr, h.top) \cup {n}
  <2>1. M \ {n} = M \ {p} /\ (n \notin M) = TRUE /\ n \notin M
    BY ONLY <1>1, <1>7, <1>m DEF AtHand
  <2>2. h2.hdr[e] = Hd(h.hdr[e].size, n \notin M, x, FALSE) BY ONLY <2>1, <1>2
  <2>3. 0 \in Nat /\ 0 <= n BY ONLY <1>2
  <2>4. Cuts(h.hdr, h.top, M, p, e, n, M, x, h.hdr[p].prev_size, 0, h2.hdr)
    BY ONLY <1>1, <1>2, <2>1, <2>2, <2>3, e = End(h.hdr, p) DEF Cuts, AtHand
  <2>5. /\ Shape(h.hdr, h.top, Space(h.brk, h.mapped), h.contiguous, h.sbrk_base)
        /\ Tagged(h.hdr, h.top, M) /\ h.sbrk_base \in Nat
    BY ONLY <1>1 DEF LaidAs
  <2> QED BY ONLY <2>4, <2>5, Cut
<1>9. /\ DOMAIN u2 = DOMAIN u \cup {p, n} /\ u2[p] = Plain(n - p) /\ u2[n] = Plain(e - n)
      /\ \A z \in DOMAIN u : z # p /\ z # n => u2[z] = u[z]
  BY ONLY u2 = With(With(u, p, Plain(n - p)), n, Plain(e - n)), <1>7 DEF With
<1>10. \A z \in DOMAIN h.hdr : z # p => Face(h2.hdr[z]) = Face(h.hdr[z])
  <2>1. ~h.hdr[e].mmapped /\ h.hdr[e].mmapped \in BOOLEAN /\ h2.hdr[e] = Hd(h.hdr[e].size, TRUE, x, FALSE)
    BY ONLY <1>1, <1>2 DEF AtHand
  <2>2. Face(h2.hdr[e]) = Face(h.hdr[e]) BY ONLY <2>1, KeepsFace
  <2> QED BY ONLY <2>2, <1>2
<1>11. Laid(h2, {})
  <2>1. Members(h2.bins) \cup {} = M BY ONLY <1>3, <1>m
  <2> QED BY ONLY <1>3, <1>8, <2>1 DEF Laid
<1>12. Others(h, M \cup {}, u, h2, M \cup {}, u2, {p, n})
  BY ONLY <1>2, <1>3, <1>9, <1>10 DEF Others
<1>13. Settled(h2, M \cup {}, u2, {p, n})
  <2>1. Face(h2.hdr[p]) = Plain(n - p) /\ Face(h2.hdr[n]) = Plain(e - n)
    BY ONLY <1>2, SetFace
  <2>2. ~h2.hdr[p].mmapped /\ ~h2.hdr[n].mmapped BY ONLY <1>2 DEF Hd
  <2>3. p \in Chunks(h2.hdr, h2.top) /\ n \in Chunks(h2.hdr, h2.top)
    BY ONLY <1>1, <1>3, <1>8 DEF AtHand
  <2>4. p \notin M BY ONLY <1>1, <1>m DEF AtHand
  <2> QED BY ONLY <2>1, <2>2, <2>3, <2>4, <1>7, <1>9 DEF Settled
<1>14. End(h2.hdr, h2.top) = End(h.hdr, h.top) /\ (h2.top = NIL <=> h.top = NIL)
  <2>1. h.top \in DOMAIN h.hdr BY TopFacts
  <2>2. h.top # p BY ONLY <1>1 DEF AtHand
  <2>3. h2.hdr[h.top].size = h.hdr[h.top].size BY ONLY <2>1, <2>2, <1>10, SameFace
  <2> QED BY ONLY <2>3, <1>3 DEF End
<1>15. Same(h, h2, Loose \cup {"hdr", "top", "bins", "heads", "binmap"})
  BY ONLY Same(h, h2, {"hdr"}) DEF Same
<1>16. Proper(h2.bins) /\ Binned(h2.hdr, h2.bins, h2.heads, h2.binmap)
  <2>1. Proper(h.bins) /\ Binned(h.hdr, h.bins, h.heads, h.binmap) BY DEF HeapOK, Lists3
  <2>2. M \subseteq DOMAIN h.hdr /\ p \notin M
    BY ONLY <1>1, <1>m DEF LaidAs, Tagged, Chunks, AtHand
  <2>3. \A z \in Members(h.bins) : h2.hdr[z].size = h.hdr[z].size
    BY ONLY <2>2, <1>10, <1>m, SameFace
  <2> QED BY ONLY <2>1, <2>3, <1>3, SameBinned
<1>17. {} \cap Members(h2.bins) = {} /\ {p, n} \cap Listed(h) = {}
  BY ONLY <1>1, <1>7 DEF AtHand
<1>18. M = Members(h2.bins) BY ONLY <1>3, <1>m
<1>19. HeapOK(h2, u2, {}, t)
  BY ONLY HeapOK(h, u, {}, t), <1>11, <1>12, <1>13, <1>14, <1>15, <1>16, <1>17, <1>18, <1>m, Relaying
<1> QED BY ONLY <1>7, <1>19

JoinsHeld(hdr, p, n, e, hdr2) ==
  /\ DOMAIN hdr2 = DOMAIN hdr \ {n}
  /\ hdr2[p] = Hd(e - p, hdr[p].prev_inuse, hdr[p].prev_size, FALSE)
  /\ hdr2[e] = Hd(hdr[e].size, TRUE, 0, FALSE)
  /\ \A q \in DOMAIN hdr \ {n} : q # p /\ q # e => hdr2[q] = hdr[q]

\* The chunk n behind a chunk in use becomes part of it: n was free and is on
\* no bin any more, or it was in use.
LEMMA JoinHeld ==
  ASSUME NEW h, NEW u, NEW F, NEW t, HeapOK(h, u, F, t), NEW p \in DOMAIN u, ~u[p].mmapped,
         NEW n, n = End(h.hdr, p),
         \/ F = {n}
         \/ F = {} /\ n \in DOMAIN u /\ ~u[n].mmapped,
         NEW e, e = End(h.hdr, n),
         NEW h2, Same(h, h2, {"hdr"}), JoinsHeld(h.hdr, p, n, e, h2.hdr),
         NEW u2, u2 = With(Without(u, n), p, Plain(e - p))
  PROVE  HeapOK(h2, u2, {}, t)
<1> DEFINE M == Members(h.bins)
           B == Members(h.bins) \cup F
<1>1. AtHand(h, u, p, n) /\ LaidAs(h, B) /\ p \notin F
  <2>1. AtHand(h, u, p, n) /\ LaidAs(h, Members(h.bins) \cup F) /\ p \notin F
    BY ONLY HeapOK(h, u, F, t), p \in DOMAIN u, ~u[p].mmapped, n = End(h.hdr, p), Handed
  <2>2. B = Members(h.bins) \cup F OBVIOUS
  <2> HIDE DEF B
  <2> QED BY ONLY <2>1, <2>2
<1>2. /\ DOMAIN h2.hdr = DOMAIN h.hdr \ {n}
      /\ h2.hdr[p] = Hd(e - p, h.hdr[p].prev_inuse, h.hdr[p].prev_size, FALSE)
      /\ h2.hdr[e] = Hd(h.hdr[e].size, TRUE, 0, FALSE)
      /\ \A q \in DOMAIN h.hdr \ {n} : q # p /\ q # e => h2.hdr[q] = h.hdr[q]
  BY DEF JoinsHeld
<1>3. /\ h2.top = h.top /\ h2.brk = h.brk /\ h2.mapped = h.mapped /\ h2.heads = h.heads
      /\ h2.contiguous = h.contiguous /\ h2.sbrk_base = h.sbrk_base /\ h2.binmap = h.binmap
      /\ h2.bins = h.bins
  BY DEF Same, Fields
<1>m. M = Members(h.bins) /\ B = M \cup F OBVIOUS
<1>4. Owned(h.hdr, h.top, Listed(h), B, u) /\ F \cap M = {} BY DEF HeapOK
<1> HIDE DEF M, B
<1>5. n \in Chunks(h.hdr, h.top) /\ n \notin M /\ n \notin Listed(h) /\ n # p /\ F \subseteq {n}
  <2>1. CASE F = {n}
    <3>1. n \in B /\ n \notin M BY ONLY <2>1, <1>m, <1>4
    <3>2. n \in Chunks(h.hdr, h.top) BY ONLY <3>1, <1>1 DEF LaidAs, Tagged
    <3>3. n \notin Listed(h) BY ONLY <3>1, <1>4 DEF Owned
    <3> QED BY ONLY <3>1, <3>2, <3>3, <2>1, <1>1 DEF AtHand
  <2>2. CASE F = {} /\ n \in DOMAIN u /\ ~u[n].mmapped
    <3>1. n \in Chunks(h.hdr, h.top) /\ n \notin Members(h.bins) /\ n \notin Listed(h)
      BY ONLY <2>2, HeapOK(h, u, F, t), HeldFacts
    <3> QED BY ONLY <3>1, <2>2, <1>1, <1>m DEF AtHand
  <2> QED BY <2>1, <2>2
<1>6. /\ e \in DOMAIN h.hdr /\ e \in Nat /\ ~h.hdr[e].mmapped /\ n < e
      /\ h.hdr[e].mmapped \in BOOLEAN
  <2>1. e \in DOMAIN h.hdr /\ e \in Nat /\ ~h.hdr[e].mmapped /\ n < e
    BY ONLY <1>5, HeapOK(h, u, F, t), e = End(h.hdr, n), NextChunk
  <2>2. h.hdr[e].mmapped \in BOOLEAN BY <2>1, HeaderFacts
  <2> QED BY <2>1, <2>2
<1>7. p # e /\ e # n /\ p \notin B /\ p \notin M
  BY ONLY <1>1, <1>6, <1>m DEF AtHand
<1>8. /\ Shape(h2.hdr, h.top, Space(h.brk, h.mapped), h.contiguous, h.sbrk_base)
      /\ Tagged(h2.hdr, h.top, M)
      /\ Chunks(h2.hdr, h.top) = Chunks(h.hdr, h.top) \ {n}
  <2>1. M \ {p} = B \ {p, n} /\ (p \notin M) = TRUE /\ p \notin M
    BY ONLY <1>5, <1>7, <1>m
  <2>2. h2.hdr[e] = Hd(h.hdr[e].size, p \notin M, 0, FALSE) BY ONLY <2>1, <1>2
  <2>3. 0 \in Nat /\ 0 <= e BY ONLY <1>6
  <2>4. Joins(h.hdr, h.top, B, p, n, e, M, 0, h.hdr[p].prev_size, h2.hdr)
    BY ONLY <1>1, <1>2, <1>5, <2>1, <2>2, <2>3, n = End(h.hdr, p), e = End(h.hdr, n) DEF Joins, AtHand
  <2>5. /\ Shape(h.hdr, h.top, Space(h.brk, h.mapped), h.contiguous, h.sbrk_base)
        /\ Tagged(h.hdr, h.top, B)
    BY ONLY <1>1 DEF LaidAs
  <2> QED BY ONLY <2>4, <2>5, Join
<1>9. /\ DOMAIN u2 = (DOMAIN u \ {n}) \cup {p} /\ u2[p] = Plain(e - p)
      /\ \A z \in DOMAIN u : z # p /\ z # n => u2[z] = u[z]
  BY ONLY u2 = With(Without(u, n), p, Plain(e - p)) DEF With, Without
<1>10. \A z \in DOMAIN h.hdr : z # p /\ z # n => Face(h2.hdr[z]) = Face(h.hdr[z])
  <2>1. Face(h2.hdr[e]) = Face(h.hdr[e]) BY ONLY <1>2, <1>6, KeepsFace
  <2> QED BY ONLY <2>1, <1>2
<1>11. Laid(h2, {})
  <2>1. Members(h2.bins) \cup {} = M BY ONLY <1>3, <1>m
  <2> QED BY ONLY <1>3, <1>8, <2>1 DEF Laid
<1>12. Others(h, B, u, h2, M \cup {}, u2, {p, n})
  <2>1. \A z : z \notin {p, n} => (z \in M \cup {} <=> z \in B) BY ONLY <1>5, <1>m
  <2> QED BY ONLY <1>2, <1>3, <1>9, <1>10, <2>1 DEF Others
<1>13. Settled(h2, M \cup {}, u2, {p, n})
  <2>1. Face(h2.hdr[p]) = Plain(e - p) BY ONLY <1>2, SetFace
  <2>2. ~h2.hdr[p].mmapped /\ n \notin DOMAIN h2.hdr BY ONLY <1>2 DEF Hd
  <2>3. p \in Chunks(h2.hdr, h2.top) /\ n \notin Chunks(h2.hdr, h2.top)
    BY ONLY <1>1, <1>3, <1>5, <1>8 DEF AtHand
  <2>4. n \notin DOMAIN u2 BY ONLY <1>5, <1>9
  <2> QED BY ONLY <2>1, <2>2, <2>3, <2>4, <1>5, <1>7, <1>9 DEF Settled
<1>14. End(h2.hdr, h2.top) = End(h.hdr, h.top) /\ (h2.top = NIL <=> h.top = NIL)
  <2>1. h.top \in DOMAIN h.hdr BY TopFacts
  <2>2. h.top # p /\ h.top # n BY ONLY <1>1, <1>5 DEF AtHand, Chunks
  <2>3. h2.hdr[h.top].size = h.hdr[h.top].size BY ONLY <2>1, <2>2, <1>10, SameFace
  <2> QED BY ONLY <2>3, <1>3 DEF End
<1>15. Same(h, h2, Loose \cup {"hdr", "top", "bins", "heads", "binmap"})
  BY ONLY Same(h, h2, {"hdr"}) DEF Same
<1>16. Proper(h2.bins) /\ Binned(h2.hdr, h2.bins, h2.heads, h2.binmap)
  <2>1. Proper(h.bins) /\ Binned(h.hdr, h.bins, h.heads, h.binmap) BY DEF HeapOK, Lists3
  <2>2. M \subseteq DOMAIN h.hdr
    BY ONLY <1>1, <1>m DEF LaidAs, Tagged, Chunks
  <2>3. \A z \in Members(h.bins) : h2.hdr[z].size = h.hdr[z].size
    BY ONLY <2>2, <1>5, <1>7, <1>10, <1>m, SameFace
  <2> QED BY ONLY <2>1, <2>3, <1>3, SameBinned
<1>17. {} \cap Members(h2.bins) = {} /\ {p, n} \cap Listed(h) = {}
  BY ONLY <1>1, <1>5 DEF AtHand
<1>18. M = Members(h2.bins) BY ONLY <1>3, <1>m
<1>19. Others(h, Members(h.bins) \cup F, u, h2, Members(h2.bins) \cup {}, u2, {p, n})
  BY ONLY <1>12, <1>18, <1>m
<1>20. Settled(h2, Members(h2.bins) \cup {}, u2, {p, n}) BY ONLY <1>13, <1>18
<1> QED
  BY ONLY HeapOK(h, u, F, t), <1>11, <1>19, <1>20, <1>14, <1>15, <1>16, <1>17, Relaying

\* A chunk from a bin is split, and the remainder is free.
LEMMA SplitFree ==
  ASSUME NEW h, NEW u, NEW t, NEW p, HeapOK(h, u, {p}, t), NEW e, e = End(h.hdr, p),
         NEW n \in Nat, aligned_OK(n), p + MINSIZE <= n, n + MINSIZE <= e,
         NEW h2, h2 = split_at(h, p, n, e - n),
         NEW u2, u2 = With(u, p, Plain(n - p))
  PROVE  HeapOK(h2, u2, {}, t) /\ Same(h, h2, {"hdr", "bins"})
<1> DEFINE M == Members(h.bins)
           B == Members(h.bins) \cup {p}
           hA == link_unsorted(h, n)
           hB == set_head(hA, p, n - p)
           hC == set_head(hB, n, e - n)
<1>1. InTransit(h, u, p, e) BY Unlinked
<1>2. h2 = set_foot(hC, n, e - n) BY DEF split_at
<1>3. hA = link_unsorted(h, n) /\ hB = set_head(hA, p, n - p) /\ hC = set_head(hB, n, e - n)
      /\ M = Members(h.bins) /\ B = M \cup {p}
  OBVIOUS
<1> HIDE DEF M, B, hA, hB, hC
<1>4. /\ p \in DOMAIN h.hdr /\ p \in Nat /\ ~h.hdr[p].mmapped /\ h.hdr[p] \in AnyHeader
      /\ h.hdr[p].size \in Nat /\ h.hdr[p].prev_size <= p /\ p # h.top
  BY <1>1, ChunkFacts DEF InTransit
<1>5. h.hdr[p].prev_size \in Nat /\ h.hdr[e].mmapped \in BOOLEAN
  BY <1>1, <1>4, HeaderFacts DEF InTransit
<1>6. MINSIZE \in Nat /\ MINSIZE > 0 BY Units
<1>7. p < n /\ n < e BY ONLY <1>4, <1>6, <1>1, n \in Nat, p + MINSIZE <= n, n + MINSIZE <= e DEF InTransit
<1>8. n \notin DOMAIN h.hdr
  <2>1. Apart(h.hdr) BY ONLY <1>1 DEF InTransit, Shape
  <2>2. SUFFICES ASSUME n \in DOMAIN h.hdr PROVE FALSE OBVIOUS
  <2>3. End(h.hdr, p) <= Start(h.hdr, n) BY ONLY <1>4, <1>7, <2>1, <2>2 DEF Apart
  <2>4. h.hdr[n].prev_size \in Nat /\ h.hdr[n].mmapped \in BOOLEAN BY <2>2, HeaderFacts
  <2>5. Start(h.hdr, n) <= n /\ Start(h.hdr, n) \in Int BY ONLY <2>4, n \in Nat DEF Start
  <2> QED BY ONLY <1>1, <1>7, <2>3, <2>5, n \in Nat, e = End(h.hdr, p) DEF InTransit
<1>9. M \subseteq DOMAIN h.hdr
  BY ONLY <1>1, <1>3 DEF InTransit, Tagged, Chunks
<1>10. n \notin M /\ n \notin Listed(h) /\ n \notin DOMAIN u /\ n # p /\ p # e /\ n # e /\ n # h.top
  <2>1. Owned(h.hdr, h.top, Listed(h), Members(h.bins) \cup {p}, u) BY DEF HeapOK
  <2>2. n \notin Chunks(h.hdr, h.top) BY ONLY <1>8 DEF Chunks
  <2>3. n \notin Listed(h) BY ONLY <2>1, <2>2 DEF Owned
  <2>4. n \notin DOMAIN u BY ONLY <2>1, <1>8 DEF Owned
  <2>5. h.top \in DOMAIN h.hdr BY TopFacts
  <2> QED BY ONLY <1>4, <1>7, <1>8, <1>9, <2>3, <2>4, <2>5, n \in Nat, <1>1 DEF InTransit
<1>11. /\ Same(h, hA, {"bins"}) /\ hA.hdr = h.hdr
       /\ hA.bins = Put(h.bins, UNSORTED, <<n>> \o At(h.bins, UNSORTED))
  <2>1. hA = [h EXCEPT !.bins = Put(h.bins, UNSORTED, <<n>> \o At(h.bins, UNSORTED))]
    BY ONLY <1>3 DEF link_unsorted
  <2>2. Rec(h) BY ONLY <1>1 DEF InTransit
  <2> QED BY ONLY <2>1, <2>2 DEF Rec, Same, Fields
<1>12. Wrote(hA, hB, p, Hd(n - p, TRUE, 0, FALSE))
  <2>1. Rec(hA) BY ONLY <1>11 DEF Same
  <2> QED BY ONLY <2>1, <1>3, SetHead
<1>13. Wrote(hB, hC, n, Hd(e - n, TRUE, 0, FALSE))
  <2>1. Rec(hB) BY ONLY <1>12 DEF Wrote, Same
  <2> QED BY ONLY <2>1, <1>3, SetHead
<1>14. /\ e \in DOMAIN hC.hdr /\ hC.hdr[e] = h.hdr[e]
  BY ONLY <1>1, <1>10, <1>11, <1>12, <1>13 DEF Wrote, InTransit
<1>15. Wrote(hC, h2, e, Hd(h.hdr[e].size, FALSE, e - n, FALSE))
  <2>1. Rec(hC) BY ONLY <1>13 DEF Wrote, Same
  <2>2. e = n + (e - n) BY ONLY <1>1, n \in Nat DEF InTransit
  <2>3. hC.hdr[e] \in AnyHeader /\ ~hC.hdr[e].mmapped BY ONLY <1>1, <1>14 DEF InTransit
  <2>4. Wrote(hC, h2, e, Hd(hC.hdr[e].size, hC.hdr[e].prev_inuse, e - n, FALSE))
    BY ONLY <1>2, <1>14, <2>1, <2>2, <2>3, SetFoot
  <2> QED BY ONLY <2>4, <1>14, <1>1 DEF InTransit
<1>16. /\ Same(h, h2, {"hdr", "bins"})
       /\ h2.bins = Put(h.bins, UNSORTED, <<n>> \o At(h.bins, UNSORTED))
  BY ONLY <1>11, <1>12, <1>13, <1>15 DEF Wrote, Same, Fields
<1>17. /\ DOMAIN h2.hdr = DOMAIN h.hdr \cup {n}
       /\ h2.hdr[p] = Hd(n - p, TRUE, 0, FALSE)
       /\ h2.hdr[n] = Hd(e - n, TRUE, 0, FALSE)
       /\ h2.hdr[e] = Hd(h.hdr[e].size, FALSE, e - n, FALSE)
       /\ \A x \in DOMAIN h.hdr : x # p /\ x # e => h2.hdr[x] = h.hdr[x]
  <2>1. DOMAIN hB.hdr = DOMAIN h.hdr BY ONLY <1>4, <1>11, <1>12 DEF Wrote
  <2>2. DOMAIN hC.hdr = DOMAIN h.hdr \cup {n} BY ONLY <2>1, <1>13 DEF Wrote
  <2>3. DOMAIN h2.hdr = DOMAIN h.hdr \cup {n} BY ONLY <2>2, <1>15, <1>14 DEF Wrote
  <2>4. \A x \in DOMAIN h.hdr : x # p => hB.hdr[x] = h.hdr[x] BY ONLY <1>11, <1>12 DEF Wrote
  <2>5. \A x \in DOMAIN h.hdr : hC.hdr[x] = hB.hdr[x] BY ONLY <2>1, <1>13, <1>8 DEF Wrote
  <2>6. \A x \in DOMAIN h.hdr \cup {n} : x # e => h2.hdr[x] = hC.hdr[x] BY ONLY <2>2, <1>15 DEF Wrote
  <2>7. hB.hdr[p] = Hd(n - p, TRUE, 0, FALSE) BY ONLY <1>12 DEF Wrote
  <2>8. hC.hdr[n] = Hd(e - n, TRUE, 0, FALSE) BY ONLY <1>13 DEF Wrote
  <2>9. h2.hdr[e] = Hd(h.hdr[e].size, FALSE, e - n, FALSE) BY ONLY <1>15 DEF Wrote
  <2> QED BY ONLY <2>3, <2>4, <2>5, <2>6, <2>7, <2>8, <2>9, <1>4, <1>10
<1>18. /\ h2.top = h.top /\ h2.brk = h.brk /\ h2.mapped = h.mapped /\ h2.heads = h.heads
       /\ h2.contiguous = h.contiguous /\ h2.sbrk_base = h.sbrk_base /\ h2.binmap = h.binmap
  BY ONLY <1>16 DEF Same, Fields
<1>19. \A x \in DOMAIN h.hdr : x # p => Face(h2.hdr[x]) = Face(h.hdr[x])
  <2>1. ~h.hdr[e].mmapped /\ h.hdr[e].mmapped \in BOOLEAN BY ONLY <1>1, <1>5 DEF InTransit
  <2>2. Face(h2.hdr[e]) = Face(h.hdr[e]) BY ONLY <2>1, <1>17, KeepsFace
  <2> QED BY ONLY <2>2, <1>17
<1>20. \A x \in M : h2.hdr[x].size = h.hdr[x].size
  <2>1. p \notin M BY ONLY <1>1, <1>3 DEF InTransit
  <2> QED BY ONLY <2>1, <1>9, <1>19, SameFace
<1>21. /\ Proper(h2.bins)
       /\ Members(h2.bins) = M \cup {n}
       /\ Binned(h2.hdr, h2.bins, h2.heads, h2.binmap)
  BY ONLY HeapOK(h, u, {p}, t), <1>10, <1>16, <1>18, <1>20, <1>3, n \in Nat, UnsortedBins
<1>22. /\ Shape(h2.hdr, h.top, Space(h.brk, h.mapped), h.contiguous, h.sbrk_base)
       /\ Tagged(h2.hdr, h.top, M \cup {n})
       /\ Chunks(h2.hdr, h.top) = Chunks(h.hdr, h.top) \cup {n}
  <2> DEFINE B2 == M \cup {n}
  <2>1. B2 \ {n} = B \ {p} /\ n \in B2 /\ (n \notin B2) = FALSE
    BY ONLY <1>1, <1>3, <1>10, B2 = M \cup {n} DEF InTransit
  <2>2. h2.hdr[p] = Hd(n - p, h.hdr[p].prev_inuse, 0, FALSE)
    BY ONLY <1>1, <1>17 DEF InTransit
  <2>3. h2.hdr[e] = Hd(h.hdr[e].size, n \notin B2, e - n, FALSE)
    BY ONLY <2>1, <1>17
  <2>4. /\ e - n \in Nat /\ e - n <= e /\ 0 \in Nat /\ 0 <= p /\ 0 <= n
    BY ONLY <1>1, <1>4, <1>7, n \in Nat DEF InTransit
  <2>5. e # h.top /\ e \notin B BY ONLY <1>1, <1>3, <1>10 DEF InTransit
  <2>6. h.hdr[p].prev_inuse BY ONLY <1>1 DEF InTransit
  <2>7. p \in Chunks(h.hdr, h.top) /\ e = End(h.hdr, p) BY <1>1 DEF InTransit
  <2> HIDE DEF B2
  <2>8. Cuts(h.hdr, h.top, B, p, e, n, B2, e - n, 0, 0, h2.hdr)
    BY ONLY <1>17, <2>1, <2>2, <2>3, <2>4, <2>5, <2>6, <2>7, n \in Nat, aligned_OK(n),
            p + MINSIZE <= n, n + MINSIZE <= e DEF Cuts
  <2>9. /\ Shape(h.hdr, h.top, Space(h.brk, h.mapped), h.contiguous, h.sbrk_base)
        /\ Tagged(h.hdr, h.top, B) /\ h.sbrk_base \in Nat
    BY ONLY <1>1, <1>3 DEF InTransit
  <2>10. /\ Shape(h2.hdr, h.top, Space(h.brk, h.mapped), h.contiguous, h.sbrk_base)
         /\ Tagged(h2.hdr, h.top, B2)
         /\ Chunks(h2.hdr, h.top) = Chunks(h.hdr, h.top) \cup {n}
    BY ONLY <2>8, <2>9, Cut
  <2> QED BY ONLY <2>10 DEF B2
<1>23. Laid(h2, {})
  <2>1. Members(h2.bins) \cup {} = M \cup {n} BY ONLY <1>21
  <2> QED BY ONLY <1>18, <1>22, <2>1 DEF Laid
<1>24. DOMAIN u2 = DOMAIN u \cup {p} /\ u2[p] = Plain(n - p) /\ \A x \in DOMAIN u : x # p => u2[x] = u[x]
  BY ONLY u2 = With(u, p, Plain(n - p)) DEF With
<1>25. Others(h, Members(h.bins) \cup {p}, u, h2, Members(h2.bins) \cup {}, u2, {p, n})
  BY ONLY <1>3, <1>17, <1>18, <1>19, <1>21, <1>24 DEF Others
<1>26. Settled(h2, Members(h2.bins) \cup {}, u2, {p, n})
  <2>1. ~h2.hdr[p].mmapped /\ ~h2.hdr[n].mmapped BY ONLY <1>17 DEF Hd
  <2>2. p \in Chunks(h2.hdr, h2.top) /\ n \in Chunks(h2.hdr, h2.top)
    BY ONLY <1>1, <1>18, <1>22 DEF InTransit
  <2>3. Face(h2.hdr[p]) = Plain(n - p) BY ONLY <1>17, SetFace
  <2>4. p \notin M BY ONLY <1>1, <1>3 DEF InTransit
  <2> QED BY ONLY <2>1, <2>2, <2>3, <2>4, <1>10, <1>21, <1>24 DEF Settled
<1>27. End(h2.hdr, h2.top) = End(h.hdr, h.top) /\ (h2.top = NIL <=> h.top = NIL)
  <2>1. h.top \in DOMAIN h.hdr BY TopFacts
  <2>2. h2.hdr[h.top].size = h.hdr[h.top].size BY ONLY <2>1, <1>4, <1>19, SameFace
  <2> QED BY ONLY <2>2, <1>18 DEF End
<1>28. Same(h, h2, Loose \cup {"hdr", "top", "bins", "heads", "binmap"})
  BY ONLY <1>16 DEF Same
<1>29. {} \cap Members(h2.bins) = {} /\ {p, n} \cap Listed(h) = {}
  BY ONLY <1>1, <1>10 DEF InTransit
<1>30. HeapOK(h2, u2, {}, t)
  BY ONLY HeapOK(h, u, {p}, t), <1>21, <1>23, <1>25, <1>26, <1>27, <1>28, <1>29, Relaying
<1> QED BY ONLY <1>16, <1>30

\* What split hands out.
LEMMA Split ==
  ASSUME NEW h, NEW u, NEW t, NEW p, HeapOK(h, u, {p}, t), NEW n \in ChunkSizes, n <= h.hdr[p].size,
         NEW h2, h2 = split(h, p, n),
         NEW s, s = IF h.hdr[p].size - n < MINSIZE THEN h.hdr[p].size ELSE n,
         NEW u2, u2 = With(u, p, Plain(s))
  PROVE  HeapOK(h2, u2, {}, t) /\ Same(h, h2, {"hdr", "bins"})
<1> DEFINE e == End(h.hdr, p)
           z == h.hdr[p].size
<1>1. InTransit(h, u, p, e) BY Unlinked
<1>2. p \in Chunks(h.hdr, h.top) BY <1>1 DEF InTransit
<1>3. p \in Nat /\ z \in Nat /\ aligned_OK(p) BY <1>2, ChunkFacts
<1>4. n \in Nat /\ n >= MINSIZE /\ aligned_OK(n) BY DEF ChunkSizes
<1>5. e = p + z BY DEF End
<1>6. CASE z - n < MINSIZE
  <2>1. h2 = set_inuse_bit(h, e) BY <1>6 DEF split, chunksize, next_chunk, End
  <2>2. s = z BY <1>6
  <2>3. u2 = With(u, p, Plain(h.hdr[p].size)) BY <2>2
  <2>e. e = End(h.hdr, p) OBVIOUS
  <2> HIDE DEF e, z
  <2>4. HeapOK(h2, u2, {}, t) /\ Same(h, h2, {"hdr"})
    BY ONLY <2>1, <2>3, <2>e, HeapOK(h, u, {p}, t), Retaken
  <2> QED BY ONLY <2>4 DEF Same
<1>7. CASE ~(z - n < MINSIZE)
  <2> DEFINE m == p + n
  <2>1. m \in Nat /\ p + MINSIZE <= m /\ m + MINSIZE <= e /\ z - n = e - m /\ m - p = n
    <3>1. MINSIZE \in Nat BY Units
    <3> HIDE DEF e, z
    <3> QED BY ONLY <1>3, <1>4, <1>5, <1>7, <3>1
  <2>2. aligned_OK(m)
    <3>1. p \in Int /\ n \in Int BY <1>3, <1>4
    <3> QED BY ONLY <1>3, <1>4, <3>1, AlignedSum
  <2>3. h2 = split_at(h, p, m, z - n) BY <1>7 DEF split, chunksize
  <2>4. s = n BY <1>7
  <2>e. e = End(h.hdr, p) OBVIOUS
  <2> HIDE DEF e, z, m
  <2>5. h2 = split_at(h, p, m, e - m) /\ u2 = With(u, p, Plain(m - p))
    BY ONLY <2>1, <2>3, <2>4, u2 = With(u, p, Plain(s))
  <2> QED BY ONLY <2>1, <2>2, <2>5, <2>e, HeapOK(h, u, {p}, t), SplitFree
<1> QED BY <1>6, <1>7

\* The remainder of a chunk in use is freed: h is the heap before the size of p
\* and the header e behind p say so.
LEMMA GivenBack ==
  ASSUME NEW h, Rec(h), NEW p \in DOMAIN h.hdr, h.hdr[p] \in AnyHeader, ~h.hdr[p].mmapped,
         NEW s \in Nat, NEW e, e = p + s, e # p,
         e \in DOMAIN h.hdr, h.hdr[e] \in AnyHeader, ~h.hdr[e].mmapped,
         NEW hJ, hJ = set_inuse_bit(set_head_size(h, p, s), e),
         NEW u, NEW t, HeapOK(hJ, u, {}, t), p \in DOMAIN u, u[p] = Plain(s),
         NEW n \in ChunkSizes, n <= s,
         NEW h2, h2 = give_back(h, p, s, n),
         NEW v, v = IF s - n < MINSIZE THEN s ELSE n,
         NEW u2, u2 = With(u, p, Plain(v))
  PROVE  HeapOK(h2, u2, {}, t) /\ Same(h, h2, FreeFields) /\ (h.abort => h2.abort)
<1> DEFINE pi == h.hdr[p].prev_inuse
           ps == h.hdr[p].prev_size
           hA == set_head_size(h, p, s)
<1>1. hJ = set_inuse_bit(hA, e) /\ hA = set_head_size(h, p, s) OBVIOUS
<1> HIDE DEF hA
<1>2. Wrote(h, hA, p, Hd(s, pi, ps, FALSE))
  BY ONLY <1>1, Rec(h), p \in DOMAIN h.hdr, h.hdr[p] \in AnyHeader, ~h.hdr[p].mmapped, SetHeadSize
<1> HIDE DEF pi, ps
<1>3. e \in DOMAIN hA.hdr /\ hA.hdr[e] = h.hdr[e] /\ Rec(hA)
  BY ONLY <1>2, e # p, e \in DOMAIN h.hdr DEF Wrote, Same
<1>4. Wrote(hA, hJ, e, Hd(h.hdr[e].size, TRUE, 0, FALSE))
  <2>1. Wrote(hA, hJ, e, Hd(hA.hdr[e].size, TRUE, 0, FALSE))
    BY ONLY <1>1, <1>3, h.hdr[e] \in AnyHeader, ~h.hdr[e].mmapped, SetInuse
  <2> QED BY ONLY <2>1, <1>3
<1>5. /\ Same(h, hJ, {"hdr"}) /\ DOMAIN hJ.hdr = DOMAIN h.hdr
      /\ hJ.hdr[p] = Hd(s, pi, ps, FALSE) /\ hJ.hdr[e] = Hd(h.hdr[e].size, TRUE, 0, FALSE)
      /\ \A q \in DOMAIN h.hdr : q # p /\ q # e => hJ.hdr[q] = h.hdr[q]
  <2>1. Same(h, hJ, {"hdr"}) BY ONLY <1>2, <1>4 DEF Wrote, Same
  <2>2. DOMAIN hA.hdr = DOMAIN h.hdr BY ONLY <1>2, p \in DOMAIN h.hdr DEF Wrote
  <2>3. DOMAIN hJ.hdr = DOMAIN h.hdr BY ONLY <2>2, <1>3, <1>4 DEF Wrote
  <2>4. hJ.hdr[p] = hA.hdr[p] BY ONLY <1>4, <2>2, p \in DOMAIN h.hdr, e # p DEF Wrote
  <2>5. \A q \in DOMAIN h.hdr : q # p /\ q # e => hJ.hdr[q] = h.hdr[q]
    BY ONLY <1>2, <1>4, <2>2 DEF Wrote
  <2>6. hJ.hdr[e] = Hd(h.hdr[e].size, TRUE, 0, FALSE) BY ONLY <1>4 DEF Wrote
  <2>7. hA.hdr[p] = Hd(s, pi, ps, FALSE) BY ONLY <1>2 DEF Wrote
  <2> QED BY ONLY <2>1, <2>3, <2>4, <2>5, <2>6, <2>7
<1>6. n \in Nat /\ n >= MINSIZE /\ aligned_OK(n) BY DEF ChunkSizes
<1>7. CASE s - n < MINSIZE
  <2>1. h2 = hJ BY <1>7 DEF give_back
  <2>2. DOMAIN u2 = DOMAIN u /\ \A x \in DOMAIN u : u2[x] = u[x]
    <3>1. u2 = With(u, p, u[p]) BY <1>7
    <3> QED BY ONLY <3>1, p \in DOMAIN u DEF With
  <2>3. HeapOK(h2, u2, {}, t) BY ONLY <2>1, <2>2, HeapOK(hJ, u, {}, t), SameHeld
  <2> QED BY ONLY <2>1, <2>3, <1>5 DEF Same, Fields, FreeFields, TrimFields, ConsolidateFields
<1>8. CASE ~(s - n < MINSIZE)
  <2> DEFINE m == p + n
             hB == set_head_size(h, p, n)
             hD == set_head(hB, m, s - n)
             hC == set_inuse_bit(hD, e)
  <2>1. h2 = int_free(hC, m) BY <1>8 DEF give_back
  <2>2. hB = set_head_size(h, p, n) /\ hD = set_head(hB, m, s - n) /\ hC = set_inuse_bit(hD, e)
        /\ m = p + n
    OBVIOUS
  <2> HIDE DEF m, hB, hC, hD
  <2>3. p \in Nat /\ aligned_OK(p) /\ p \in Chunks(hJ.hdr, hJ.top) /\ ~u[p].mmapped
    <3>1. ~u[p].mmapped BY DEF Plain
    <3>2. p \in Chunks(hJ.hdr, hJ.top)
      BY ONLY <3>1, HeapOK(hJ, u, {}, t), p \in DOMAIN u, HeldFacts
    <3>3. p \in Nat /\ aligned_OK(p) BY ONLY <3>2, HeapOK(hJ, u, {}, t), ChunkFacts
    <3> QED BY <3>1, <3>2, <3>3
  <2>4. m \in Nat /\ p + MINSIZE <= m /\ m + MINSIZE <= e /\ s - n = e - m /\ m - p = n /\ e \in Nat
        /\ p < m /\ m < e
    <3>1. MINSIZE \in Nat /\ MINSIZE > 0 BY Units
    <3> QED BY ONLY <1>6, <1>8, <2>2, <2>3, <3>1, e = p + s, s \in Nat
  <2>5. aligned_OK(m)
    <3>1. p \in Int /\ n \in Int BY <1>6, <2>3
    <3> QED BY ONLY <1>6, <2>2, <2>3, <3>1, AlignedSum
  <2>6. Wrote(h, hB, p, Hd(n, pi, ps, FALSE))
    BY ONLY <2>2, Rec(h), p \in DOMAIN h.hdr, h.hdr[p] \in AnyHeader, ~h.hdr[p].mmapped, SetHeadSize
       DEF pi, ps
  <2>7. Wrote(hB, hD, m, Hd(s - n, TRUE, 0, FALSE))
    <3>1. Rec(hB) BY ONLY <2>6 DEF Wrote, Same
    <3> QED BY ONLY <3>1, <2>2, SetHead
  <2>8. m # p /\ m # e BY ONLY <2>3, <2>4
  <2>9. e \in DOMAIN hD.hdr /\ hD.hdr[e] = h.hdr[e] /\ Rec(hD)
    BY ONLY <2>6, <2>7, <2>8, e # p, e \in DOMAIN h.hdr DEF Wrote, Same
  <2>10. Wrote(hD, hC, e, Hd(h.hdr[e].size, TRUE, 0, FALSE))
    <3>1. Wrote(hD, hC, e, Hd(hD.hdr[e].size, TRUE, 0, FALSE))
      BY ONLY <2>2, <2>9, h.hdr[e] \in AnyHeader, ~h.hdr[e].mmapped, SetInuse
    <3> QED BY ONLY <3>1, <2>9
  <2>11. Same(h, hC, {"hdr"}) BY ONLY <2>6, <2>7, <2>10 DEF Wrote, Same
  <2>12. Same(hJ, hC, {"hdr"}) BY ONLY <1>5, <2>11 DEF Same
  <2>13. /\ DOMAIN hC.hdr = DOMAIN h.hdr \cup {m}
         /\ hC.hdr[p] = Hd(n, pi, ps, FALSE) /\ hC.hdr[m] = Hd(s - n, TRUE, 0, FALSE)
         /\ hC.hdr[e] = Hd(h.hdr[e].size, TRUE, 0, FALSE)
         /\ \A q \in DOMAIN h.hdr : q # p /\ q # e /\ q # m => hC.hdr[q] = h.hdr[q]
    <3>1. DOMAIN hB.hdr = DOMAIN h.hdr BY ONLY <2>6, p \in DOMAIN h.hdr DEF Wrote
    <3>2. DOMAIN hD.hdr = DOMAIN h.hdr \cup {m} BY ONLY <2>7, <3>1 DEF Wrote
    <3>3. DOMAIN hC.hdr = DOMAIN h.hdr \cup {m} BY ONLY <2>9, <2>10, <3>2 DEF Wrote
    <3>4. hB.hdr[p] = Hd(n, pi, ps, FALSE) BY ONLY <2>6 DEF Wrote
    <3>5. hD.hdr[p] = hB.hdr[p] BY ONLY <2>7, <2>8, <3>1, p \in DOMAIN h.hdr DEF Wrote
    <3>6. hC.hdr[p] = hD.hdr[p] BY ONLY <2>10, <3>2, e # p, p \in DOMAIN h.hdr DEF Wrote
    <3>7. hD.hdr[m] = Hd(s - n, TRUE, 0, FALSE) BY ONLY <2>7 DEF Wrote
    <3>8. hC.hdr[m] = hD.hdr[m] BY ONLY <2>10, <2>8, <3>2 DEF Wrote
    <3>9. hC.hdr[e] = Hd(h.hdr[e].size, TRUE, 0, FALSE) BY ONLY <2>10 DEF Wrote
    <3>10. \A q \in DOMAIN h.hdr : q # p /\ q # e /\ q # m => hC.hdr[q] = h.hdr[q]
      BY ONLY <2>6, <2>7, <2>10, <3>1, <3>2 DEF Wrote
    <3> QED BY ONLY <3>3, <3>4, <3>5, <3>6, <3>7, <3>8, <3>9, <3>10
  <2>14. m \notin DOMAIN h.hdr
    <3>1. Apart(hJ.hdr) BY DEF HeapOK, Laid, Shape
    <3>0. DOMAIN hJ.hdr = DOMAIN h.hdr BY ONLY <1>5
    <3>a. SUFFICES ASSUME m \in DOMAIN h.hdr PROVE FALSE OBVIOUS
    <3>2. m \in DOMAIN hJ.hdr BY ONLY <3>0, <3>a
    <3>3. p \in DOMAIN hJ.hdr BY ONLY <1>5, p \in DOMAIN h.hdr
    <3>4. End(hJ.hdr, p) <= Start(hJ.hdr, m) BY ONLY <3>1, <3>2, <3>3, <2>4 DEF Apart
    <3>5. End(hJ.hdr, p) = e BY ONLY <1>5, e = p + s DEF End, Hd
    <3>6. hJ.hdr[m].prev_size \in Nat /\ hJ.hdr[m].mmapped \in BOOLEAN
      BY ONLY <3>2, HeapOK(hJ, u, {}, t), HeaderFacts
    <3>7. Start(hJ.hdr, m) <= m /\ Start(hJ.hdr, m) \in Int BY ONLY <3>6, <2>4 DEF Start
    <3> QED BY ONLY <2>4, <3>4, <3>5, <3>7
  <2>15. CutsHeld(hJ.hdr, p, m, e, 0, hC.hdr)
    <3>1. /\ hC.hdr[p] = Hd(m - p, hJ.hdr[p].prev_inuse, hJ.hdr[p].prev_size, FALSE)
          /\ hC.hdr[m] = Hd(e - m, TRUE, 0, FALSE)
          /\ hC.hdr[e] = Hd(hJ.hdr[e].size, TRUE, 0, FALSE)
      <4>1. hJ.hdr[p].prev_inuse = pi /\ hJ.hdr[p].prev_size = ps /\ hJ.hdr[e].size = h.hdr[e].size
        BY ONLY <1>5 DEF Hd
      <4>2. m - p = n /\ e - m = s - n BY ONLY <2>4
      <4> QED BY ONLY <4>1, <4>2, <2>13
    <3>2. \A q \in DOMAIN hJ.hdr : q # p /\ q # e => hC.hdr[q] = hJ.hdr[q]
      BY ONLY <1>5, <2>13, <2>14
    <3>3. DOMAIN hC.hdr = DOMAIN hJ.hdr \cup {m} BY ONLY <1>5, <2>13
    <3>4. 0 \in Nat /\ 0 <= e BY ONLY <2>4
    <3> QED BY ONLY <2>4, <2>5, <3>1, <3>2, <3>3, <3>4 DEF CutsHeld
  <2> DEFINE uC == With(With(u, p, Plain(m - p)), m, Plain(e - m))
             uD == Without(uC, m)
  <2>16. e = End(hJ.hdr, p) BY ONLY <1>5, e = p + s DEF End, Hd
  <2>17. uC = With(With(u, p, Plain(m - p)), m, Plain(e - m)) /\ uD = Without(uC, m) OBVIOUS
  <2> HIDE DEF uC, uD
  <2>18. HeapOK(hC, uC, {}, t) /\ m \notin DOMAIN u /\ m # p
    BY ONLY <2>3, <2>12, <2>15, <2>16, <2>17, HeapOK(hJ, u, {}, t), p \in DOMAIN u, CutHeld
  <2>19. m \in DOMAIN uC /\ ~uC[m].mmapped BY ONLY <2>17 DEF With, Plain
  <2>20. HeapOK(h2, uD, {}, t) /\ Same(hC, h2, FreeFields) /\ (hC.abort => h2.abort)
    BY ONLY <2>1, <2>17, <2>18, <2>19, Freed
  <2>21. DOMAIN u2 = DOMAIN uD /\ \A x \in DOMAIN uD : u2[x] = uD[x]
    <3>1. u2 = With(u, p, Plain(m - p)) BY ONLY <1>8, <2>4, u2 = With(u, p, Plain(v)), v = IF s - n < MINSIZE THEN s ELSE n
    <3> QED BY ONLY <3>1, <2>17, <2>18 DEF With, Without
  <2>22. HeapOK(h2, u2, {}, t) BY ONLY <2>20, <2>21, SameHeld
  <2>23. Same(h, h2, FreeFields) /\ (h.abort => h2.abort)
    BY ONLY <2>11, <2>20 DEF Same, Fields, FreeFields, TrimFields, ConsolidateFields
  <2> QED BY ONLY <2>22, <2>23
<1> QED BY <1>7, <1>8

-----------------------------------------------------------------------------
(* Pages.                                                                  *)

\* A number is a multiple and what is left.
LEMMA Div ==
  ASSUME NEW P \in Nat, P > 0, NEW x \in Int
  PROVE  /\ x \div P \in Int /\ x % P \in Int /\ x = P * (x \div P) + (x % P)
         /\ 0 <= x % P /\ x % P < P
OBVIOUS

\* Only zero is a multiple below P.
LEMMA SmallMultiple ==
  ASSUME NEW P \in Nat, P > 0, NEW d \in Int, P * d < P, -P < P * d
  PROVE  d = 0
<1>1. CASE d >= 1
  <2>1. P * d >= P BY <1>1
  <2> QED BY <2>1
<1>2. CASE d <= -1
  <2>1. P * d <= -P BY <1>2
  <2> QED BY <2>1
<1> QED BY <1>1, <1>2

\* There is one way to write a number as a multiple and what is left.
LEMMA Rem ==
  ASSUME NEW P \in Nat, P > 0, NEW k \in Int, NEW r \in Int, 0 <= r, r < P,
         NEW x \in Int, x = P * k + r
  PROVE  x % P = r /\ x \div P = k
<1> DEFINE q == x \div P
           m == x % P
           d == k - q
<1>1. q \in Int /\ m \in Int /\ x = P * q + m /\ 0 <= m /\ m < P BY Div
<1>a. q = x \div P /\ m = x % P /\ d = k - q OBVIOUS
<1> HIDE DEF q, m
<1>2. P * d = P * k - P * q BY <1>1
<1>3. d \in Int BY <1>1
<1> HIDE DEF d
<1>4. P * d \in Int /\ P * k \in Int /\ P * q \in Int BY <1>1, <1>3
<1>5. P * d < P /\ -P < P * d
  BY ONLY <1>1, <1>2, <1>4, 0 <= r, r < P, x = P * k + r, P \in Nat, r \in Int
<1>6. d = 0 BY <1>3, <1>5, SmallMultiple
<1> QED BY <1>1, <1>6, <1>a

\* What a multiple leaves.
LEMMA IsMultiple ==
  ASSUME NEW P \in Nat, P > 0, NEW k \in Int, NEW x \in Int, x = P * k
  PROVE  x % P = 0
<1>1. x = P * k + 0 /\ 0 \in Int /\ 0 <= 0 /\ 0 < P BY P * k \in Int
<1> QED BY <1>1, Rem

\* Sums and differences of multiples are multiples.
LEMMA Multiples ==
  ASSUME NEW P \in Nat, P > 0, NEW x \in Int, NEW y \in Int, x % P = 0, y % P = 0
  PROVE  (x + y) % P = 0 /\ (x - y) % P = 0
<1> DEFINE a == x \div P
           b == y \div P
<1>1. a \in Int /\ x = P * a BY Div
<1>2. b \in Int /\ y = P * b BY Div
<1> HIDE DEF a, b
<1> DEFINE s == x + y
           d == x - y
           c == a + b
           e == a - b
<1>3. s = P * c /\ d = P * e BY <1>1, <1>2
<1>4. c \in Int /\ e \in Int /\ s \in Int /\ d \in Int BY <1>1, <1>2
<1>s. s = x + y /\ d = x - y OBVIOUS
<1> HIDE DEF s, d, c, e
<1>5. s % P = 0 BY ONLY <1>3, <1>4, P \in Nat, P > 0, IsMultiple
<1>6. d % P = 0 BY ONLY <1>3, <1>4, P \in Nat, P > 0, IsMultiple
<1> QED BY ONLY <1>s, <1>5, <1>6

\* Of two multiples the larger is larger by P.
LEMMA MultipleGap ==
  ASSUME NEW P \in Nat, P > 0, NEW x \in Int, NEW y \in Int, x % P = 0, y % P = 0, x < y
  PROVE  x + P <= y
<1>1. (y - x) % P = 0 BY Multiples
<1> DEFINE k == (y - x) \div P
<1>2. k \in Int /\ y - x = P * k BY <1>1, Div
<1> HIDE DEF k
<1>3. k >= 1
  <2>1. CASE k <= 0
    <3>1. P * k <= 0 BY <1>2, <2>1
    <3> QED BY <1>2, <3>1
  <2> QED BY <2>1, <1>2
<1>4. P * k >= P BY <1>2, <1>3
<1> QED BY <1>2, <1>4

\* A page boundary is a place for a header.
LEMMA PageAligned ==
  ASSUME NEW x \in Int, x % Pagesize = 0
  PROVE  aligned_OK(x)
<1> DEFINE M == MALLOC_ALIGNMENT
           k == x \div Pagesize
           j == Pagesize \div M
<1>1. M \in Nat /\ M > 0 BY Units
<1>2. Pagesize \in Nat /\ Pagesize > 0 /\ Pagesize % M = 0 BY System DEF aligned_OK
<1>m. M = MALLOC_ALIGNMENT OBVIOUS
<1>3. k \in Int /\ x = Pagesize * k BY <1>2, Div
<1>4. j \in Int /\ Pagesize = M * j BY <1>1, <1>2, Div
<1> HIDE DEF M, k, j
<1> DEFINE n == j * k
<1>5. x = M * n BY ONLY <1>1, <1>3, <1>4
<1>6. n \in Int BY <1>3, <1>4
<1> HIDE DEF n
<1>7. x % M = 0 BY ONLY <1>1, <1>5, <1>6, x \in Int, IsMultiple, Zenon
<1> QED BY <1>7, <1>m DEF aligned_OK

\* ALIGN_UP and ALIGN_DOWN to a page boundary.
LEMMA RoundPage ==
  ASSUME NEW x \in Int
  PROVE  /\ ALIGN_UP(x, Pagesize) \in Int /\ ALIGN_UP(x, Pagesize) % Pagesize = 0
         /\ x <= ALIGN_UP(x, Pagesize) /\ ALIGN_UP(x, Pagesize) < x + Pagesize
         /\ ALIGN_DOWN(x, Pagesize) % Pagesize = 0
<1>1. Pagesize \in Nat /\ Pagesize > 0 BY System
<1>2. ASSUME NEW y \in Int PROVE ALIGN_DOWN(y, Pagesize) % Pagesize = 0
  <2>1. y \div Pagesize \in Int /\ y = Pagesize * (y \div Pagesize) + (y % Pagesize) BY <1>1, Div
  <2>2. y % Pagesize \in Int BY <1>1
  <2> DEFINE d == ALIGN_DOWN(y, Pagesize)
             k == y \div Pagesize
  <2>3. d = Pagesize * k BY <1>1, <2>1, <2>2 DEF ALIGN_DOWN
  <2>4. d \in Int /\ k \in Int BY <2>1, RoundDown
  <2> HIDE DEF d, k
  <2>5. d % Pagesize = 0 BY ONLY <1>1, <2>3, <2>4, IsMultiple
  <2> QED BY ONLY <2>5 DEF d
<1>3. x + Pagesize - 1 \in Int BY <1>1
<1> DEFINE z == x + Pagesize - 1
<1>4. /\ ALIGN_DOWN(z, Pagesize) \in Int /\ ALIGN_DOWN(z, Pagesize) <= z
      /\ z < ALIGN_DOWN(z, Pagesize) + Pagesize
  BY <1>3, RoundDown
<1>5. ALIGN_UP(x, Pagesize) = ALIGN_DOWN(z, Pagesize) BY DEF ALIGN_UP
<1>6. ALIGN_DOWN(z, Pagesize) % Pagesize = 0 BY <1>2, <1>3
<1> QED BY <1>1, <1>2, <1>4, <1>5, <1>6

\* The bytes of a page are those from its start to the next.
LEMMA PageFacts ==
  ASSUME NEW z \in Nat
  PROVE  /\ PageOf(z) \in Nat /\ PageOf(z) % Pagesize = 0
         /\ PageOf(z) <= z /\ z < PageOf(z) + Pagesize
<1>1. Pagesize \in Nat /\ Pagesize > 0 BY System
<1>2. PageOf(z) = ALIGN_DOWN(z, Pagesize) BY DEF PageOf, ALIGN_DOWN
<1>3. z % Pagesize <= z
  <2>1. z \div Pagesize \in Int /\ z = Pagesize * (z \div Pagesize) + (z % Pagesize)
        /\ z % Pagesize < Pagesize
    BY <1>1, Div
  <2>2. z \div Pagesize >= 0 BY <1>1
  <2>3. Pagesize * (z \div Pagesize) >= 0 BY <1>1, <2>1, <2>2
  <2> QED BY <2>1, <2>3, <1>1
<1>4. PageOf(z) \in Nat BY <1>1, <1>3 DEF PageOf
<1>5. ALIGN_DOWN(z, Pagesize) <= z /\ z < ALIGN_DOWN(z, Pagesize) + Pagesize BY RoundDown
<1>6. ALIGN_DOWN(z, Pagesize) % Pagesize = 0 BY RoundPage
<1> QED BY ONLY <1>2, <1>4, <1>5, <1>6

\* A byte is in the pages from a on if it lies between their ends.
LEMMA InPages ==
  ASSUME NEW a \in Nat, NEW s \in Nat, a % Pagesize = 0, s % Pagesize = 0, NEW z \in Nat
  PROVE  PageOf(z) \in Pages(a, s) <=> a <= z /\ z < a + s
<1> DEFINE g == PageOf(z)
           P == Pagesize
<1>1. P \in Nat /\ P > 0 BY System
<1>2. g \in Nat /\ g % P = 0 /\ g <= z /\ z < g + P BY PageFacts
<1> DEFINE n == s \div P
<1>3. n \in Int /\ s = P * n BY <1>1, Div
<1>4. Pages(a, s) = {a + k * P : k \in 0 .. n - 1} BY DEF Pages
<1>g. g = PageOf(z) /\ P = Pagesize OBVIOUS
<1> HIDE DEF g, n, P
<1>5. ASSUME g \in Pages(a, s) PROVE a <= z /\ z < a + s
  <2>1. PICK k \in 0 .. n - 1 : g = a + k * P BY <1>4, <1>5
  <2>2. k * P >= 0 /\ k * P + P <= n * P
    <3>1. k \in Int /\ 0 <= k /\ k + 1 <= n BY <1>3
    <3>2. k * P >= 0 BY ONLY <3>1, <1>1
    <3>3. (k + 1) * P <= n * P BY ONLY <3>1, <1>1, <1>3
    <3>4. (k + 1) * P = k * P + P BY ONLY <3>1, <1>1
    <3> QED BY ONLY <3>2, <3>3, <3>4
  <2> DEFINE w == k * P
             v == n * P
  <2>3. w \in Int /\ v \in Int /\ v = s
    <3>1. k \in Int OBVIOUS
    <3> QED BY ONLY <3>1, <1>1, <1>3
  <2>4. g = a + w /\ w >= 0 /\ w + P <= v BY <2>1, <2>2
  <2> HIDE DEF w, v
  <2> QED BY ONLY <2>3, <2>4, <1>1, <1>2, a \in Nat, s \in Nat, z \in Nat
<1>6. ASSUME a <= z, z < a + s PROVE g \in Pages(a, s)
  <2> DEFINE k == (g - a) \div P
  <2>1. g - a \in Int /\ (g - a) % P = 0
    <3>1. g \in Int /\ a \in Int /\ a % P = 0 BY <1>2, <1>g
    <3>2. (g - a) % P = 0 BY ONLY <3>1, <1>1, <1>2, Multiples
    <3> QED BY ONLY <3>1, <3>2
  <2>2. k \in Int /\ g - a = P * k BY <1>1, <2>1, Div
  <2> HIDE DEF k
  <2>3. k >= 0
    <3>1. CASE k <= -1
      <4>1. P * k <= -P BY ONLY <1>1, <2>2, <3>1
      <4> QED BY ONLY <4>1, <2>2, <1>1, <1>2, <1>6, a \in Nat, z \in Nat
    <3> QED BY ONLY <3>1, <2>2
  <2>4. k <= n - 1
    <3>1. CASE k >= n
      <4>1. P * k >= P * n BY ONLY <1>1, <1>3, <2>2, <3>1
      <4> DEFINE w == P * k
                 v == P * n
      <4>2. w >= v /\ g - a = w /\ s = v BY <4>1, <2>2, <1>3
      <4> HIDE DEF w, v
      <4> QED BY ONLY <4>2, <1>1, <1>2, <1>6, a \in Nat, z \in Nat, s \in Nat
    <3> QED BY ONLY <3>1, <2>2, <1>3
  <2>5. g = a + k * P BY ONLY <1>1, <1>2, <2>2, a \in Nat
  <2>6. k \in 0 .. n - 1 BY ONLY <2>2, <2>3, <2>4, <1>3
  <2> QED BY <1>4, <2>5, <2>6
<1> QED BY <1>5, <1>6, <1>g

\* No header touches bytes that are not in the memory W.
LEMMA VacantOutside ==
  ASSUME NEW hdr, NEW top, NEW W, NEW c, NEW lo, Shape(hdr, top, W, c, lo),
         NEW a \in Nat, NEW b \in Nat, a < b, \A z \in Nat : a <= z /\ z < b => z \notin W
  PROVE  Vacant(hdr, a, b)
<1>1. SUFFICES ASSUME NEW q \in DOMAIN hdr, ~(End(hdr, q) <= a), ~(b <= Start(hdr, q)) PROVE FALSE
  BY DEF Vacant
<1>2. /\ q \in Nat /\ hdr[q].size \in Nat /\ hdr[q].prev_size \in Nat /\ hdr[q].prev_size <= q
      /\ hdr[q].mmapped \in BOOLEAN
      /\ q # top => hdr[q].size > 0
      /\ q = top /\ q # 0 => hdr[q].size >= MINSIZE
  <2>1. /\ q \in Nat /\ hdr[q] \in AnyHeader /\ hdr[q].prev_size <= q
        /\ q # top => hdr[q].size > 0
        /\ q = top /\ q # 0 => hdr[q].size >= MINSIZE
    BY DEF Shape, Typed, NIL
  <2> QED BY <2>1, HeaderTypes
<1>3. \A z \in Nat : Start(hdr, q) <= z /\ z < End(hdr, q) => z \in W BY DEF Shape, Inside
<1>4. Start(hdr, q) \in Nat /\ Start(hdr, q) <= q BY <1>2 DEF Start
<1>5. End(hdr, q) \in Nat /\ (q # 0 => q < End(hdr, q))
  <2>1. MINSIZE \in Nat /\ MINSIZE > 0 BY Units
  <2> QED BY ONLY <1>2, <2>1 DEF End
<1> DEFINE s == Start(hdr, q)
           e == End(hdr, q)
<1>6. s \in Nat /\ e \in Nat /\ s <= q /\ q \in Nat /\ (q # 0 => q < e) /\ ~(e <= a) /\ ~(b <= s)
      /\ \A z \in Nat : s <= z /\ z < e => z \in W
  BY <1>1, <1>2, <1>3, <1>4, <1>5
<1> HIDE DEF s, e
<1>7. CASE s <= a BY ONLY <1>6, <1>7, a < b, a \in Nat, \A z \in Nat : a <= z /\ z < b => z \notin W
<1>8. CASE ~(s <= a)
  <2>1. s < e BY <1>6, <1>8
  <2> QED BY ONLY <1>6, <1>8, <2>1, b \in Nat, a \in Nat, \A z \in Nat : a <= z /\ z < b => z \notin W
<1> QED BY <1>7, <1>8

\* More memory.
LEMMA MoreSpace ==
  ASSUME NEW b \in Nat, NEW b2 \in Nat, b <= b2, NEW m, NEW m2, m \subseteq m2
  PROVE  Space(b, m) \subseteq Space(b2, m2)
BY System DEF Space

\* What sbrk adds was not there before.
LEMMA BrkSpace ==
  ASSUME NEW b \in Nat, BrkStart <= b, NEW b2 \in Nat, b2 <= HeapEnd, NEW m,
         NEW z \in Nat, b <= z, z < b2
  PROVE  z \notin Space(b, m) /\ z \in Space(b2, m)
BY System DEF Space

\* Nor was what mmap gives.
LEMMA HoleSpace ==
  ASSUME NEW h, h.brk \in BrkStart .. HeapEnd, NEW s \in Nat, s % Pagesize = 0, s > 0,
         NEW a \in MmapHoles(h, s)
  PROVE  /\ a \in Nat /\ a > 0 /\ a % Pagesize = 0 /\ MmapStart <= a /\ a + s <= MmapEnd
         /\ \A z \in Nat : a <= z /\ z < a + s =>
              z \notin Space(h.brk, h.mapped) /\ z \in Space(h.brk, h.mapped \cup Pages(a, s))
<1> DEFINE P == Pagesize
           n == (MmapEnd - MmapStart) \div P
<1>p. P = Pagesize OBVIOUS
<1>1. /\ P \in Nat /\ P > 0 /\ MmapStart % P = 0 /\ MmapStart \in Nat /\ MmapEnd \in Nat
      /\ MmapStart > 0 /\ HeapEnd <= MmapStart /\ HeapEnd \in Nat /\ BrkStart \in Nat
  BY System
<1>2. PICK k \in 0 .. n - 1 : a = MmapStart + k * P BY DEF MmapHoles, Pages
<1>3. k \in Int /\ k >= 0
  <2>1. n \in Int BY <1>1
  <2> HIDE DEF n
  <2> QED BY <2>1
<1> HIDE DEF P, n
<1>4. P * k >= 0 /\ P * k \in Int /\ k * P = P * k BY <1>1, <1>3
<1>5. a \in Nat /\ a > 0 /\ MmapStart <= a
  <2> DEFINE w == P * k
  <2>1. a = MmapStart + w /\ w >= 0 /\ w \in Int BY <1>2, <1>4
  <2> HIDE DEF w
  <2> QED BY ONLY <2>1, <1>1
<1>6. a % P = 0
  <2> DEFINE w == P * k
  <2>1. w % P = 0 BY <1>1, <1>3, <1>4, IsMultiple
  <2>2. a = MmapStart + w /\ w \in Int BY <1>2, <1>4
  <2> HIDE DEF w
  <2>3. (MmapStart + w) % P = 0
    <3>1. MmapStart \in Int BY <1>1
    <3> QED BY ONLY <3>1, <2>1, <2>2, <1>1, Multiples
  <2> QED BY ONLY <2>2, <2>3
<1>7. a + s <= MmapEnd /\ Pages(a, s) \cap h.mapped = {} BY DEF MmapHoles
<1>8. ASSUME NEW z \in Nat, a <= z, z < a + s
      PROVE  z \notin Space(h.brk, h.mapped) /\ z \in Space(h.brk, h.mapped \cup Pages(a, s))
  <2>1. PageOf(z) \in Pages(a, s)
    <3>1. a % Pagesize = 0 BY <1>6, <1>p
    <3> QED BY ONLY <3>1, <1>5, <1>8, s \in Nat, s % Pagesize = 0, InPages
  <2>2. PageOf(z) \notin h.mapped BY <2>1, <1>7
  <2>3. MmapStart <= z /\ z < MmapEnd /\ ~(z < h.brk) BY <1>1, <1>5, <1>7, <1>8
  <2> QED BY ONLY <2>1, <2>2, <2>3, z \in Nat DEF Space
<1> QED BY <1>5, <1>6, <1>7, <1>8, <1>p

\* The bytes outside a mapping do not need its pages.
LEMMA LessSpace ==
  ASSUME NEW b \in Nat, NEW m, NEW a \in Nat, NEW s \in Nat, a % Pagesize = 0, s % Pagesize = 0,
         NEW z \in Space(b, m), ~(a <= z /\ z < a + s)
  PROVE  z \in Space(b, m \ Pages(a, s))
<1>1. z \in Nat BY DEF Space
<1>2. PageOf(z) \notin Pages(a, s)
  BY ONLY <1>1, a \in Nat, s \in Nat, a % Pagesize = 0, s % Pagesize = 0,
     ~(a <= z /\ z < a + s), InPages
<1> QED BY ONLY <1>2, z \in Space(b, m) DEF Space

\* What may change without a chunk: the break, the bin map and the options.
LEMMA Adjusted ==
  ASSUME NEW h, NEW u, NEW F, NEW t, HeapOK(h, u, F, t),
         NEW h2, Same(h, h2, Loose \cup {"binmap", "tcache", "top_pad", "brk"}),
         h2.binmap \subseteq 2 .. NBINS - 2, h2.top_pad \in Nat,
         h2.brk \in h.brk .. HeapEnd, NEW t2, t2 = h2.tcache
  PROVE  HeapOK(h2, u, F, t2)
<1>1. /\ Rec(h2) /\ h2.hdr = h.hdr /\ h2.top = h.top /\ h2.bins = h.bins /\ h2.fast = h.fast
      /\ h2.entries = h.entries /\ h2.heads = h.heads
      /\ h2.mapped = h.mapped /\ h2.contiguous = h.contiguous
      /\ h2.sbrk_base = h.sbrk_base /\ h2.system_mem = h.system_mem
  BY DEF Same, Fields, Loose
<1>2. h.brk \in BrkStart .. HeapEnd /\ (h.contiguous => End(h.hdr, h.top) <= h.brk) BY DEF HeapOK, Bounds
<1>3. h.brk \in Nat /\ h2.brk \in Nat /\ h.brk <= h2.brk /\ h2.brk \in BrkStart .. HeapEnd
  BY ONLY <1>2, System, h2.brk \in h.brk .. HeapEnd
<1>4. Space(h.brk, h.mapped) \subseteq Space(h2.brk, h2.mapped)
  BY ONLY <1>1, <1>3, MoreSpace
<1>5. Laid(h2, F)
  <2>1. Laid(h, F) BY DEF HeapOK
  <2>2. Inside(h2.hdr, h2.top, Space(h2.brk, h2.mapped), h2.contiguous, h2.sbrk_base)
    BY ONLY <1>1, <1>4, <2>1 DEF Laid, Shape, Inside
  <2> QED BY ONLY <1>1, <2>1, <2>2 DEF Laid, Shape
<1>6. Bounds(h2)
  <2>1. h2.contiguous => End(h2.hdr, h2.top) <= h2.brk
    <3>1. End(h.hdr, h.top) \in Int
      <4>1. h.top \in Nat /\ h.hdr[h.top].size \in Nat BY TopFacts
      <4> QED BY ONLY <4>1 DEF End
    <3> QED BY ONLY <1>1, <1>2, <1>3, <3>1
  <2>2. Bounds(h) BY DEF HeapOK
  <2> QED BY ONLY <1>1, <1>3, <2>1, <2>2, h2.top_pad \in Nat DEF Bounds
<1>7. Binned(h2.hdr, h2.bins, h2.heads, h2.binmap)
  <2>1. Binned(h.hdr, h.bins, h.heads, h.binmap) BY DEF HeapOK
  <2> QED BY ONLY <1>1, <2>1, h2.binmap \subseteq 2 .. NBINS - 2 DEF Binned
<1>8. Lists3(h2) /\ Listed(h2) = Listed(h) BY ONLY <1>1, HeapOK(h, u, F, t) DEF HeapOK, Lists3, Listed
<1> QED BY ONLY <1>1, <1>5, <1>6, <1>7, <1>8, HeapOK(h, u, F, t), t2 = h2.tcache DEF HeapOK

\* There is no header inside a chunk.
LEMMA NoneBetween ==
  ASSUME NEW h, NEW u, NEW F, NEW t, HeapOK(h, u, F, t), NEW p \in Chunks(h.hdr, h.top),
         NEW e, e = End(h.hdr, p), NEW n \in Nat, p < n, n < e
  PROVE  n \notin DOMAIN h.hdr
<1>1. SUFFICES ASSUME n \in DOMAIN h.hdr PROVE FALSE OBVIOUS
<1>2. Apart(h.hdr) BY DEF HeapOK, Laid, Shape
<1>3. p \in DOMAIN h.hdr BY ChunkFacts
<1>4. End(h.hdr, p) <= Start(h.hdr, n) BY ONLY <1>1, <1>2, <1>3, p < n DEF Apart
<1>5. h.hdr[n].prev_size \in Nat /\ h.hdr[n].mmapped \in BOOLEAN BY <1>1, HeaderFacts
<1>6. Start(h.hdr, n) <= n /\ Start(h.hdr, n) \in Int BY ONLY <1>5, n \in Nat DEF Start
<1>7. e \in Nat BY NextChunk
<1> QED BY ONLY <1>4, <1>6, <1>7, n < e, n \in Nat, e = End(h.hdr, p)

\* memalign cuts a chunk in use in two.
LEMMA CutInUse ==
  ASSUME NEW h, NEW u, NEW t, HeapOK(h, u, {}, t), NEW p \in DOMAIN u, ~u[p].mmapped,
         NEW e, e = End(h.hdr, p),
         NEW n \in Nat, aligned_OK(n), p + MINSIZE <= n, n + MINSIZE <= e,
         NEW h2, h2 = set_head_size(set_head(h, n, e - n), p, n - p),
         NEW u2, u2 = With(With(u, p, Plain(n - p)), n, Plain(e - n))
  PROVE  HeapOK(h2, u2, {}, t) /\ Same(h, h2, {"hdr"}) /\ n \notin DOMAIN u /\ n # p
<1> DEFINE hA == set_head(h, n, e - n)
<1>1. AtHand(h, u, p, e) /\ LaidAs(h, Members(h.bins) \cup {}) /\ h.hdr[e].prev_inuse = TRUE
  BY ONLY HeapOK(h, u, {}, t), p \in DOMAIN u, ~u[p].mmapped, e = End(h.hdr, p), Handed
<1>2. hA = set_head(h, n, e - n) /\ h2 = set_head_size(hA, p, n - p) OBVIOUS
<1> HIDE DEF hA
<1>3. Rec(h) BY ONLY <1>1 DEF LaidAs
<1>4. Wrote(h, hA, n, Hd(e - n, TRUE, 0, FALSE)) BY ONLY <1>2, <1>3, SetHead
<1>5. p < n /\ n < e /\ p # n /\ n # e /\ p # e /\ p \in Nat /\ e \in Nat
  <2>1. MINSIZE \in Nat /\ MINSIZE > 0 BY Units
  <2>2. p \in Nat /\ e \in Nat BY ONLY <1>1 DEF AtHand
  <2> QED BY ONLY <2>1, <2>2, n \in Nat, p + MINSIZE <= n, n + MINSIZE <= e
<1>6. n \notin DOMAIN h.hdr
  <2>1. p \in Chunks(h.hdr, h.top) BY ONLY <1>1 DEF AtHand
  <2> QED BY ONLY <2>1, <1>5, HeapOK(h, u, {}, t), e = End(h.hdr, p), n \in Nat, NoneBetween
<1>7. /\ p \in DOMAIN hA.hdr /\ hA.hdr[p] = h.hdr[p] /\ Rec(hA)
      /\ h.hdr[p] \in AnyHeader /\ ~h.hdr[p].mmapped
  BY ONLY <1>1, <1>4, <1>5 DEF Wrote, Same, AtHand
<1>8. Wrote(hA, h2, p, Hd(n - p, h.hdr[p].prev_inuse, h.hdr[p].prev_size, FALSE))
  <2>1. hA.hdr[p] \in AnyHeader /\ ~hA.hdr[p].mmapped BY ONLY <1>7
  <2>2. Wrote(hA, h2, p, Hd(n - p, hA.hdr[p].prev_inuse, hA.hdr[p].prev_size, FALSE))
    BY ONLY <1>2, <1>7, <2>1, SetHeadSize
  <2> QED BY ONLY <2>2, <1>7
<1>9. Same(h, h2, {"hdr"}) BY ONLY <1>4, <1>8 DEF Wrote, Same
<1>10. /\ DOMAIN h2.hdr = DOMAIN h.hdr \cup {n}
       /\ h2.hdr[p] = Hd(n - p, h.hdr[p].prev_inuse, h.hdr[p].prev_size, FALSE)
       /\ h2.hdr[n] = Hd(e - n, TRUE, 0, FALSE)
       /\ \A q \in DOMAIN h.hdr : q # p => h2.hdr[q] = h.hdr[q]
  <2>1. DOMAIN hA.hdr = DOMAIN h.hdr \cup {n} BY ONLY <1>4 DEF Wrote
  <2>2. DOMAIN h2.hdr = DOMAIN h.hdr \cup {n} BY ONLY <1>7, <1>8, <2>1 DEF Wrote
  <2>3. hA.hdr[n] = Hd(e - n, TRUE, 0, FALSE) BY ONLY <1>4 DEF Wrote
  <2>4. h2.hdr[n] = hA.hdr[n] BY ONLY <1>5, <1>8, <2>1 DEF Wrote
  <2>5. \A q \in DOMAIN h.hdr : q # p => h2.hdr[q] = h.hdr[q]
    BY ONLY <1>4, <1>6, <1>8, <2>1 DEF Wrote
  <2>6. h2.hdr[p] = Hd(n - p, h.hdr[p].prev_inuse, h.hdr[p].prev_size, FALSE)
    BY ONLY <1>8 DEF Wrote
  <2> QED BY ONLY <2>2, <2>3, <2>4, <2>5, <2>6
<1>11. h.hdr[e] = Hd(h.hdr[e].size, TRUE, h.hdr[e].prev_size, FALSE)
  <2>1. h.hdr[e] \in AnyHeader /\ ~h.hdr[e].mmapped BY ONLY <1>1 DEF AtHand
  <2> QED BY ONLY <1>1, <2>1, PlainHd
<1>12. CutsHeld(h.hdr, p, n, e, h.hdr[e].prev_size, h2.hdr)
  <2>1. e \in DOMAIN h.hdr /\ h.hdr[e].prev_size \in Nat /\ h.hdr[e].prev_size <= e
    BY ONLY <1>1 DEF AtHand
  <2>2. h2.hdr[e] = h.hdr[e] BY ONLY <1>5, <1>10, <2>1
  <2>3. h2.hdr[e] = Hd(h.hdr[e].size, TRUE, h.hdr[e].prev_size, FALSE) BY ONLY <1>11, <2>2
  <2> QED BY ONLY <1>10, <2>1, <2>3, n \in Nat, aligned_OK(n), p + MINSIZE <= n, n + MINSIZE <= e
          DEF CutsHeld
<1>13. HeapOK(h2, u2, {}, t) /\ n \notin DOMAIN u /\ n # p
  BY ONLY <1>9, <1>12, HeapOK(h, u, {}, t), p \in DOMAIN u, ~u[p].mmapped, e = End(h.hdr, p),
     u2 = With(With(u, p, Plain(n - p)), n, Plain(e - n)), CutHeld
<1> QED BY ONLY <1>9, <1>13

\* The part of a chunk below the aligned place in it is freed.
LEMMA Leader ==
  ASSUME NEW h, NEW u, NEW t, HeapOK(h, u, {}, t), NEW p \in DOMAIN u, ~u[p].mmapped,
         NEW e, e = End(h.hdr, p),
         NEW n \in Nat, aligned_OK(n), n # p => p + MINSIZE <= n, n + MINSIZE <= e,
         NEW h2, h2 = free_leader(h, p, n),
         NEW u2, u2 = With(Without(u, p), n, Plain(e - n))
  PROVE  HeapOK(h2, u2, {}, t) /\ Same(h, h2, FreeFields) /\ (h.abort => h2.abort)
<1>1. CASE n = p
  <2>1. h2 = h BY <1>1 DEF free_leader
  <2>2. u[p] = Plain(e - n)
    <3>1. AtHand(h, u, p, e)
      BY ONLY HeapOK(h, u, {}, t), p \in DOMAIN u, ~u[p].mmapped, e = End(h.hdr, p), Handed
    <3>2. e - n = h.hdr[p].size BY ONLY <3>1, <1>1, n \in Nat DEF AtHand
    <3> QED BY ONLY <3>1, <3>2 DEF AtHand
  <2>3. DOMAIN u2 = DOMAIN u /\ \A x \in DOMAIN u : u2[x] = u[x]
    BY ONLY <1>1, <2>2, u2 = With(Without(u, p), n, Plain(e - n)), p \in DOMAIN u DEF With, Without
  <2>4. HeapOK(h2, u2, {}, t) BY ONLY <2>1, <2>3, HeapOK(h, u, {}, t), SameHeld
  <2>5. Rec(h) BY DEF HeapOK
  <2> QED BY ONLY <2>1, <2>4, <2>5 DEF Same
<1>2. CASE n # p
  <2> DEFINE hB == set_head_size(set_head(h, n, e - n), p, n - p)
             uC == With(With(u, p, Plain(n - p)), n, Plain(e - n))
             uD == Without(uC, p)
  <2>1. h2 = int_free(hB, p) BY <1>2 DEF free_leader, next_chunk, chunksize, End
  <2>2. hB = set_head_size(set_head(h, n, e - n), p, n - p)
        /\ uC = With(With(u, p, Plain(n - p)), n, Plain(e - n)) /\ uD = Without(uC, p)
    OBVIOUS
  <2> HIDE DEF hB, uC, uD
  <2>3. HeapOK(hB, uC, {}, t) /\ Same(h, hB, {"hdr"}) /\ n \notin DOMAIN u /\ n # p
    BY ONLY <1>2, <2>2, HeapOK(h, u, {}, t), p \in DOMAIN u, ~u[p].mmapped, e = End(h.hdr, p),
       n \in Nat, aligned_OK(n), n # p => p + MINSIZE <= n, n + MINSIZE <= e, CutInUse
  <2>4. p \in DOMAIN uC /\ ~uC[p].mmapped BY ONLY <2>2, <2>3 DEF With, Plain
  <2>5. HeapOK(h2, uD, {}, t) /\ Same(hB, h2, FreeFields) /\ (hB.abort => h2.abort)
    BY ONLY <2>1, <2>2, <2>3, <2>4, Freed
  <2>6. DOMAIN u2 = DOMAIN uD /\ \A x \in DOMAIN uD : u2[x] = uD[x]
    BY ONLY <2>2, <2>3, u2 = With(Without(u, p), n, Plain(e - n)) DEF With, Without
  <2>7. HeapOK(h2, u2, {}, t) BY ONLY <2>5, <2>6, SameHeld
  <2>8. Same(h, h2, FreeFields) /\ (h.abort => h2.abort)
    BY ONLY <2>3, <2>5 DEF Same, Fields, FreeFields, TrimFields, ConsolidateFields
  <2> QED BY ONLY <2>7, <2>8
<1> QED BY <1>1, <1>2

\* What an aligned chunk has beyond n bytes is freed if it is more than a chunk.
LEMMA Spared ==
  ASSUME NEW h, NEW u, NEW t, HeapOK(h, u, {}, t), NEW p \in DOMAIN u, ~u[p].mmapped,
         NEW n \in ChunkSizes, NEW h2, h2 = free_spare(h, p, n),
         NEW v, v = IF h.hdr[p].size <= n + MINSIZE THEN h.hdr[p].size ELSE n,
         NEW u2, u2 = With(u, p, Plain(v))
  PROVE  HeapOK(h2, u2, {}, t) /\ Same(h, h2, FreeFields) /\ (h.abort => h2.abort)
<1> DEFINE e == End(h.hdr, p)
           z == h.hdr[p].size
<1>e. e = End(h.hdr, p) /\ z = h.hdr[p].size OBVIOUS
<1>1. AtHand(h, u, p, e)
  BY ONLY HeapOK(h, u, {}, t), p \in DOMAIN u, ~u[p].mmapped, <1>e, Handed
<1>2. p \in Nat /\ z \in Nat /\ e = p + z /\ aligned_OK(p) /\ u[p] = Plain(z)
  BY ONLY <1>1, <1>e DEF AtHand
<1>3. n \in Nat /\ n >= MINSIZE /\ aligned_OK(n) BY DEF ChunkSizes
<1>4. CASE z <= n + MINSIZE
  <2>1. h2 = h BY <1>4 DEF free_spare, chunksize
  <2>2. u2 = With(u, p, u[p]) BY ONLY <1>2, <1>4, <1>e, u2 = With(u, p, Plain(v)),
                                 v = IF h.hdr[p].size <= n + MINSIZE THEN h.hdr[p].size ELSE n
  <2>3. DOMAIN u2 = DOMAIN u /\ \A x \in DOMAIN u : u2[x] = u[x]
    BY ONLY <2>2, p \in DOMAIN u DEF With
  <2>4. HeapOK(h2, u2, {}, t) BY ONLY <2>1, <2>3, HeapOK(h, u, {}, t), SameHeld
  <2>5. Rec(h) BY DEF HeapOK
  <2> QED BY ONLY <2>1, <2>4, <2>5 DEF Same
<1>5. CASE ~(z <= n + MINSIZE)
  <2> DEFINE m == p + n
             hB == set_head_size(set_head(h, m, e - m), p, m - p)
             uC == With(With(u, p, Plain(m - p)), m, Plain(e - m))
             uD == Without(uC, m)
  <2> HIDE DEF e, z
  <2>1. m \in Nat /\ p + MINSIZE <= m /\ m + MINSIZE <= e /\ z - n = e - m /\ m - p = n
    <3>1. MINSIZE \in Nat BY Units
    <3> QED BY ONLY <1>2, <1>3, <1>5, <3>1
  <2>2. aligned_OK(m)
    <3>1. p \in Int /\ n \in Int BY <1>2, <1>3
    <3> QED BY ONLY <1>2, <1>3, <3>1, AlignedSum
  <2>3. h2 = int_free(hB, m)
    <3>1. h2 = int_free(set_head_size(set_head(h, m, z - n), p, n), m)
      BY <1>5, <1>e DEF free_spare, chunksize
    <3> QED BY ONLY <2>1, <3>1
  <2>4. hB = set_head_size(set_head(h, m, e - m), p, m - p)
        /\ uC = With(With(u, p, Plain(m - p)), m, Plain(e - m)) /\ uD = Without(uC, m)
    OBVIOUS
  <2> HIDE DEF m, hB, uC, uD
  <2>5. HeapOK(hB, uC, {}, t) /\ Same(h, hB, {"hdr"}) /\ m \notin DOMAIN u /\ m # p
    BY ONLY <1>e, <2>1, <2>2, <2>4, HeapOK(h, u, {}, t), p \in DOMAIN u, ~u[p].mmapped, CutInUse
  <2>6. m \in DOMAIN uC /\ ~uC[m].mmapped BY ONLY <2>4 DEF With, Plain
  <2>7. HeapOK(h2, uD, {}, t) /\ Same(hB, h2, FreeFields) /\ (hB.abort => h2.abort)
    BY ONLY <2>3, <2>4, <2>5, <2>6, Freed
  <2>8. u2 = With(u, p, Plain(n))
    BY ONLY <1>5, <1>e, u2 = With(u, p, Plain(v)),
            v = IF h.hdr[p].size <= n + MINSIZE THEN h.hdr[p].size ELSE n
  <2>9. DOMAIN u2 = DOMAIN uD /\ \A x \in DOMAIN uD : u2[x] = uD[x]
    BY ONLY <2>1, <2>4, <2>5, <2>8 DEF With, Without
  <2>10. HeapOK(h2, u2, {}, t) BY ONLY <2>7, <2>9, SameHeld
  <2>11. Same(h, h2, FreeFields) /\ (h.abort => h2.abort)
    BY ONLY <2>5, <2>7 DEF Same, Fields, FreeFields, TrimFields, ConsolidateFields
  <2> QED BY ONLY <2>10, <2>11
<1> QED BY <1>4, <1>5

ClearsFoot(h, h2, e) ==
  /\ Same(h, h2, {"hdr"}) /\ DOMAIN h2.hdr = DOMAIN h.hdr
  /\ h2.hdr[e] = Hd(h.hdr[e].size, TRUE, 0, FALSE)
  /\ \A x \in DOMAIN h.hdr : x # e => h2.hdr[x] = h.hdr[x]

\* The footer behind a chunk in use is user data: it does not matter.
LEMMA FootCleared ==
  ASSUME NEW h, NEW u, NEW t, HeapOK(h, u, {}, t), NEW p \in DOMAIN u, ~u[p].mmapped,
         NEW e, e = End(h.hdr, p),
         NEW h2, ClearsFoot(h, h2, e)
  PROVE  HeapOK(h2, u, {}, t)
<1>c. /\ Same(h, h2, {"hdr"}) /\ DOMAIN h2.hdr = DOMAIN h.hdr
      /\ h2.hdr[e] = Hd(h.hdr[e].size, TRUE, 0, FALSE)
      /\ \A x \in DOMAIN h.hdr : x # e => h2.hdr[x] = h.hdr[x]
  BY DEF ClearsFoot
<1> DEFINE M == Members(h.bins)
<1>1. AtHand(h, u, p, e) /\ LaidAs(h, Members(h.bins) \cup {}) /\ h.hdr[e].prev_inuse = TRUE
  BY ONLY HeapOK(h, u, {}, t), p \in DOMAIN u, ~u[p].mmapped, e = End(h.hdr, p), Handed
<1>m. M = Members(h.bins) /\ Members(h.bins) \cup {} = M OBVIOUS
<1> HIDE DEF M
<1>2. /\ h2.top = h.top /\ h2.brk = h.brk /\ h2.mapped = h.mapped /\ h2.heads = h.heads
      /\ h2.contiguous = h.contiguous /\ h2.sbrk_base = h.sbrk_base /\ h2.binmap = h.binmap
      /\ h2.bins = h.bins
  BY ONLY <1>c DEF Same, Fields
<1>3. \A x \in DOMAIN h.hdr : Face(h2.hdr[x]) = Face(h.hdr[x])
  <2>1. Face(h2.hdr[e]) = Face(h.hdr[e])
    <3>1. ~h.hdr[e].mmapped /\ h.hdr[e].mmapped \in BOOLEAN BY ONLY <1>1 DEF AtHand
    <3> QED BY ONLY <3>1, <1>c, KeepsFace
  <2> QED BY ONLY <2>1, <1>c
<1>4. /\ Shape(h.hdr, h.top, Space(h.brk, h.mapped), h.contiguous, h.sbrk_base)
      /\ Tagged(h.hdr, h.top, M)
  BY ONLY <1>1, <1>m DEF LaidAs
<1>5. /\ Shape(h2.hdr, h.top, Space(h.brk, h.mapped), h.contiguous, h.sbrk_base)
      /\ Tagged(h2.hdr, h.top, M)
      /\ Chunks(h2.hdr, h.top) = Chunks(h.hdr, h.top)
  <2>1. M \ {p} = M \ {p} /\ (p \notin M) = TRUE /\ p \notin M BY ONLY <1>1, <1>m DEF AtHand
  <2>2. h2.hdr[p] = Hd(h.hdr[p].size, h.hdr[p].prev_inuse, h.hdr[p].prev_size, FALSE)
    <3>1. p \in DOMAIN h.hdr /\ p # e /\ h.hdr[p] \in AnyHeader /\ ~h.hdr[p].mmapped
      BY ONLY <1>1 DEF AtHand
    <3>2. h2.hdr[p] = h.hdr[p] BY ONLY <3>1, <1>c
    <3> QED BY ONLY <3>1, <3>2, PlainHd
  <2>3. h2.hdr[e] = Hd(h.hdr[e].size, p \notin M, 0, FALSE)
    BY ONLY <2>1, <1>c
  <2>4. /\ 0 \in Nat /\ 0 <= e /\ p \in Chunks(h.hdr, h.top)
        /\ h.hdr[p].prev_size \in Nat /\ h.hdr[p].prev_size <= p
    BY ONLY <1>1 DEF AtHand
  <2>5. Retags(h.hdr, h.top, M, p, e, M, 0, h.hdr[p].prev_size, h2.hdr)
    BY ONLY <2>1, <2>2, <2>3, <2>4, e = End(h.hdr, p), <1>c DEF Retags
  <2> QED BY ONLY <1>4, <2>5, Retag
<1>6. Laid(h2, {})
  <2>1. Members(h2.bins) \cup {} = M BY ONLY <1>2, <1>m
  <2> QED BY ONLY <1>2, <1>5, <2>1 DEF Laid
<1>7. Others(h, Members(h.bins) \cup {}, u, h2, Members(h2.bins) \cup {}, u, {})
  BY ONLY <1>2, <1>3, <1>c DEF Others
<1>8. Settled(h2, Members(h2.bins) \cup {}, u, {}) BY DEF Settled
<1>9. End(h2.hdr, h2.top) = End(h.hdr, h.top) /\ (h2.top = NIL <=> h.top = NIL)
  <2>1. h.top \in DOMAIN h.hdr BY TopFacts
  <2>2. h2.hdr[h.top].size = h.hdr[h.top].size BY ONLY <2>1, <1>3, SameFace
  <2> QED BY ONLY <2>2, <1>2 DEF End
<1>10. Same(h, h2, Loose \cup {"hdr", "top", "bins", "heads", "binmap"})
  BY ONLY <1>c DEF Same
<1>11. Proper(h2.bins) /\ Binned(h2.hdr, h2.bins, h2.heads, h2.binmap)
  <2>1. Proper(h.bins) /\ Binned(h.hdr, h.bins, h.heads, h.binmap) BY DEF HeapOK, Lists3
  <2>2. M \subseteq DOMAIN h.hdr BY ONLY <1>4 DEF Tagged, Chunks
  <2>3. \A x \in Members(h.bins) : h2.hdr[x].size = h.hdr[x].size
    BY ONLY <2>2, <1>3, SameFace DEF M
  <2> QED BY ONLY <2>1, <2>3, <1>2, SameBinned
<1>12. {} \cap Members(h2.bins) = {} /\ {} \cap Listed(h) = {} OBVIOUS
<1> QED
  BY ONLY HeapOK(h, u, {}, t), <1>6, <1>7, <1>8, <1>9, <1>10, <1>11, <1>12, Relaying

\* realloc in place: what is beyond n bytes is given back.
LEMMA Shrunk ==
  ASSUME NEW h, NEW u, NEW t, HeapOK(h, u, {}, t), NEW p \in DOMAIN u, ~u[p].mmapped,
         NEW s, s = h.hdr[p].size, NEW n \in ChunkSizes, n <= s,
         NEW h2, h2 = give_back(h, p, s, n),
         NEW v, v = IF s - n < MINSIZE THEN s ELSE n,
         NEW u2, u2 = With(u, p, Plain(v))
  PROVE  HeapOK(h2, u2, {}, t) /\ Same(h, h2, FreeFields) /\ (h.abort => h2.abort)
<1> DEFINE e == End(h.hdr, p)
           hA == set_head_size(h, p, s)
           hJ == set_inuse_bit(hA, e)
<1>e. e = End(h.hdr, p) /\ hA = set_head_size(h, p, s) /\ hJ = set_inuse_bit(hA, e) OBVIOUS
<1> HIDE DEF e, hA, hJ
<1>1. AtHand(h, u, p, e) /\ LaidAs(h, Members(h.bins) \cup {}) /\ h.hdr[e].prev_inuse = TRUE
  BY ONLY HeapOK(h, u, {}, t), p \in DOMAIN u, ~u[p].mmapped, <1>e, Handed
<1>2. /\ Rec(h) /\ p \in DOMAIN h.hdr /\ h.hdr[p] \in AnyHeader /\ ~h.hdr[p].mmapped
      /\ s \in Nat /\ e = p + s /\ e # p /\ u[p] = Plain(s)
      /\ e \in DOMAIN h.hdr /\ h.hdr[e] \in AnyHeader /\ ~h.hdr[e].mmapped
  BY ONLY <1>1, s = h.hdr[p].size DEF AtHand, LaidAs
<1>3. Wrote(h, hA, p, Hd(s, h.hdr[p].prev_inuse, h.hdr[p].prev_size, FALSE))
  BY ONLY <1>2, <1>e, SetHeadSize
<1>4. h.hdr[p] = Hd(s, h.hdr[p].prev_inuse, h.hdr[p].prev_size, FALSE)
  BY ONLY <1>2, s = h.hdr[p].size, PlainHd
<1>5. /\ Same(h, hA, {"hdr"}) /\ DOMAIN hA.hdr = DOMAIN h.hdr /\ Rec(hA)
      /\ \A x \in DOMAIN h.hdr : hA.hdr[x] = h.hdr[x]
  BY ONLY <1>2, <1>3, <1>4 DEF Wrote, Same
<1>6. Wrote(hA, hJ, e, Hd(h.hdr[e].size, TRUE, 0, FALSE))
  <2>1. e \in DOMAIN hA.hdr /\ hA.hdr[e] = h.hdr[e] BY ONLY <1>2, <1>5
  <2>2. hA.hdr[e] \in AnyHeader /\ ~hA.hdr[e].mmapped BY ONLY <1>2, <2>1
  <2>3. Wrote(hA, hJ, e, Hd(hA.hdr[e].size, TRUE, 0, FALSE))
    BY ONLY <1>e, <1>5, <2>1, <2>2, SetInuse
  <2> QED BY ONLY <2>1, <2>3
<1>7. ClearsFoot(h, hJ, e)
  BY ONLY <1>2, <1>5, <1>6 DEF Wrote, Same, ClearsFoot
<1>8. HeapOK(hJ, u, {}, t)
  BY ONLY <1>7, <1>e, HeapOK(h, u, {}, t), p \in DOMAIN u, ~u[p].mmapped, FootCleared
<1>9. hJ = set_inuse_bit(set_head_size(h, p, s), e) BY ONLY <1>e
<1> QED
  BY ONLY <1>2, <1>8, <1>9, p \in DOMAIN u, n \in ChunkSizes, n <= s,
     h2 = give_back(h, p, s, n), v = IF s - n < MINSIZE THEN s ELSE n, u2 = With(u, p, Plain(v)),
     GivenBack

\* realloc takes the chunk n behind p, which nobody else has any more; what is
\* beyond k bytes is given back.
LEMMA Grown ==
  ASSUME NEW h, NEW u, NEW F, NEW t, HeapOK(h, u, F, t), NEW p \in DOMAIN u, ~u[p].mmapped,
         NEW n, n = End(h.hdr, p),
         \/ F = {n}
         \/ F = {} /\ n \in DOMAIN u /\ ~u[n].mmapped,
         NEW s, s = h.hdr[p].size + h.hdr[n].size, NEW k \in ChunkSizes, k <= s,
         NEW h2, h2 = give_back(Forget(h, n), p, s, k),
         NEW v, v = IF s - k < MINSIZE THEN s ELSE k,
         NEW u2, u2 = With(Without(u, n), p, Plain(v))
  PROVE  HeapOK(h2, u2, {}, t) /\ Same(h, h2, FreeFields) /\ (h.abort => h2.abort)
<1> DEFINE e == End(h.hdr, n)
           hF == Forget(h, n)
           hA == set_head_size(hF, p, s)
           hJ == set_inuse_bit(hA, e)
           uJ == With(Without(u, n), p, Plain(e - p))
<1>e. /\ e = End(h.hdr, n) /\ hF = Forget(h, n) /\ hA = set_head_size(hF, p, s)
      /\ hJ = set_inuse_bit(hA, e) /\ uJ = With(Without(u, n), p, Plain(e - p))
  OBVIOUS
<1> HIDE DEF e, hF, hA, hJ, uJ
<1>1. AtHand(h, u, p, n) /\ LaidAs(h, Members(h.bins) \cup F) /\ p \notin F /\ h.hdr[n].prev_inuse = TRUE
  BY ONLY HeapOK(h, u, F, t), p \in DOMAIN u, ~u[p].mmapped, n = End(h.hdr, p), Handed
<1>2. /\ Rec(h) /\ p \in DOMAIN h.hdr /\ h.hdr[p] \in AnyHeader /\ ~h.hdr[p].mmapped /\ p \in Nat
      /\ h.hdr[p].size \in Nat /\ p < n /\ n = p + h.hdr[p].size
  BY ONLY <1>1 DEF AtHand, LaidAs
<1>3. n \in Chunks(h.hdr, h.top)
  <2>1. CASE F = {n} BY ONLY <2>1, <1>1 DEF LaidAs, Tagged
  <2>2. CASE n \in DOMAIN u /\ ~u[n].mmapped BY ONLY <2>2, HeapOK(h, u, F, t), HeldFacts
  <2> QED BY <2>1, <2>2
<1>4. /\ e \in DOMAIN h.hdr /\ e \in Nat /\ ~h.hdr[e].mmapped /\ n < e /\ e = n + h.hdr[n].size
      /\ h.hdr[n].size \in Nat
  BY ONLY <1>3, <1>e, HeapOK(h, u, F, t), NextChunk
<1>5. h.hdr[e] \in AnyHeader BY ONLY <1>4, HeapOK(h, u, F, t), HeaderFacts
<1>6. s \in Nat /\ e = p + s /\ e - p = s /\ e # p /\ e # n /\ p # n
  BY ONLY <1>2, <1>4, s = h.hdr[p].size + h.hdr[n].size
<1>7. Forgot(h, hF, n) BY ONLY <1>e, <1>2, Forgotten
<1>8. /\ Rec(hF) /\ Same(h, hF, {"hdr"}) /\ DOMAIN hF.hdr = DOMAIN h.hdr \ {n}
      /\ \A x \in DOMAIN hF.hdr : hF.hdr[x] = h.hdr[x]
  BY ONLY <1>7 DEF Forgot, Same
<1>9. /\ p \in DOMAIN hF.hdr /\ hF.hdr[p] = h.hdr[p] /\ hF.hdr[p] \in AnyHeader /\ ~hF.hdr[p].mmapped
      /\ e \in DOMAIN hF.hdr /\ hF.hdr[e] = h.hdr[e] /\ hF.hdr[e] \in AnyHeader /\ ~hF.hdr[e].mmapped
  BY ONLY <1>2, <1>4, <1>5, <1>6, <1>8
<1>10. Wrote(hF, hA, p, Hd(s, h.hdr[p].prev_inuse, h.hdr[p].prev_size, FALSE))
  <2>1. Wrote(hF, hA, p, Hd(s, hF.hdr[p].prev_inuse, hF.hdr[p].prev_size, FALSE))
    BY ONLY <1>8, <1>9, <1>e, SetHeadSize
  <2> QED BY ONLY <2>1, <1>9
<1>11. e \in DOMAIN hA.hdr /\ hA.hdr[e] = h.hdr[e] /\ Rec(hA)
  BY ONLY <1>6, <1>9, <1>10 DEF Wrote, Same
<1>12. Wrote(hA, hJ, e, Hd(h.hdr[e].size, TRUE, 0, FALSE))
  <2>1. hA.hdr[e] \in AnyHeader /\ ~hA.hdr[e].mmapped BY ONLY <1>4, <1>5, <1>11
  <2>2. Wrote(hA, hJ, e, Hd(hA.hdr[e].size, TRUE, 0, FALSE)) BY ONLY <1>e, <1>11, <2>1, SetInuse
  <2> QED BY ONLY <1>11, <2>2
<1>13. Same(h, hJ, {"hdr"}) BY ONLY <1>8, <1>10, <1>12 DEF Wrote, Same
<1>14. JoinsHeld(h.hdr, p, n, e, hJ.hdr)
  <2>1. DOMAIN hA.hdr = DOMAIN hF.hdr BY ONLY <1>9, <1>10 DEF Wrote
  <2>2. DOMAIN hJ.hdr = DOMAIN hA.hdr BY ONLY <1>11, <1>12 DEF Wrote
  <2>3. DOMAIN hJ.hdr = DOMAIN h.hdr \ {n} BY ONLY <2>1, <2>2, <1>8
  <2>4. hJ.hdr[p] = hA.hdr[p] BY ONLY <2>1, <1>6, <1>9, <1>12 DEF Wrote
  <2>5. hA.hdr[p] = Hd(s, h.hdr[p].prev_inuse, h.hdr[p].prev_size, FALSE) BY ONLY <1>10 DEF Wrote
  <2>6. hJ.hdr[e] = Hd(h.hdr[e].size, TRUE, 0, FALSE) BY ONLY <1>12 DEF Wrote
  <2>7. \A q \in DOMAIN h.hdr \ {n} : q # p /\ q # e => hJ.hdr[q] = h.hdr[q]
    BY ONLY <2>1, <1>8, <1>10, <1>12 DEF Wrote
  <2>8. hJ.hdr[p] = Hd(e - p, h.hdr[p].prev_inuse, h.hdr[p].prev_size, FALSE) BY ONLY <2>4, <2>5, <1>6
  <2> QED BY ONLY <2>3, <2>6, <2>7, <2>8 DEF JoinsHeld
<1>15. HeapOK(hJ, uJ, {}, t)
  BY ONLY <1>13, <1>14, <1>e, HeapOK(h, u, F, t), p \in DOMAIN u, ~u[p].mmapped, n = End(h.hdr, p),
     \/ F = {n}
     \/ F = {} /\ n \in DOMAIN u /\ ~u[n].mmapped, JoinHeld
<1>16. p \in DOMAIN uJ /\ uJ[p] = Plain(s) BY ONLY <1>e, <1>6 DEF With
<1> DEFINE uV == With(uJ, p, Plain(v))
<1>17. uV = With(uJ, p, Plain(v)) OBVIOUS
<1> HIDE DEF uV
<1>18. hJ = set_inuse_bit(set_head_size(hF, p, s), e) /\ h2 = give_back(hF, p, s, k) BY ONLY <1>e, h2 = give_back(Forget(h, n), p, s, k)
<1>19. HeapOK(h2, uV, {}, t) /\ Same(hF, h2, FreeFields) /\ (hF.abort => h2.abort)
  BY ONLY <1>6, <1>8, <1>9, <1>15, <1>16, <1>17, <1>18, k \in ChunkSizes, k <= s,
     v = IF s - k < MINSIZE THEN s ELSE k, GivenBack
<1>20. DOMAIN u2 = DOMAIN uV /\ \A x \in DOMAIN uV : u2[x] = uV[x]
  BY ONLY <1>17, <1>e, u2 = With(Without(u, n), p, Plain(v)) DEF With, Without
<1>21. HeapOK(h2, u2, {}, t) BY ONLY <1>19, <1>20, SameHeld
<1>22. Same(h, h2, FreeFields) /\ (h.abort => h2.abort)
  BY ONLY <1>8, <1>19 DEF Same, Fields, FreeFields, TrimFields, ConsolidateFields
<1> QED BY ONLY <1>21, <1>22

-----------------------------------------------------------------------------
(* The chunk before top grows into it.                                     *)

ShiftsTop(hdr, top, p, e, n, hdr2) ==
  /\ p \in Chunks(hdr, top) /\ top = End(hdr, p) /\ e = End(hdr, top)
  /\ n \in Nat /\ aligned_OK(n) /\ top < n /\ p + MINSIZE <= n /\ n + MINSIZE <= e
  /\ DOMAIN hdr2 = (DOMAIN hdr \ {top}) \cup {n}
  /\ hdr2[p] = Hd(n - p, hdr[p].prev_inuse, hdr[p].prev_size, FALSE)
  /\ hdr2[n] = Hd(e - n, TRUE, 0, FALSE)
  /\ \A q \in DOMAIN hdr \ {top} : q # p => hdr2[q] = hdr[q]

\* The chunk p before top ends at n, where top is now.
LEMMA ShiftTop ==
  ASSUME NEW hdr, NEW top, NEW W, NEW c, NEW lo \in Nat, Shape(hdr, top, W, c, lo),
         NEW B, Tagged(hdr, top, B),
         NEW p, NEW e, NEW n, NEW hdr2,
         ShiftsTop(hdr, top, p, e, n, hdr2)
  PROVE  /\ Shape(hdr2, n, W, c, lo) /\ Tagged(hdr2, n, B)
         /\ n \notin DOMAIN hdr
         /\ Chunks(hdr2, n) = Chunks(hdr, top)
<1>0. /\ p \in Chunks(hdr, top) /\ top = End(hdr, p) /\ e = End(hdr, top)
      /\ n \in Nat /\ aligned_OK(n) /\ top < n /\ p + MINSIZE <= n /\ n + MINSIZE <= e
      /\ DOMAIN hdr2 = (DOMAIN hdr \ {top}) \cup {n}
      /\ hdr2[p] = Hd(n - p, hdr[p].prev_inuse, hdr[p].prev_size, FALSE)
      /\ hdr2[n] = Hd(e - n, TRUE, 0, FALSE)
      /\ \A q \in DOMAIN hdr \ {top} : q # p => hdr2[q] = hdr[q]
  BY DEF ShiftsTop
<1>1. /\ p \in DOMAIN hdr /\ p \in Nat /\ p < top /\ top \in DOMAIN hdr /\ top \in Nat
      /\ \A q \in DOMAIN hdr : End(hdr, q) = top /\ hdr[q].size > 0 => q = p
  BY <1>0, Follower
<1>2. \A q \in DOMAIN hdr : /\ q \in Nat /\ hdr[q] \in AnyHeader /\ hdr[q].prev_size <= q
                            /\ aligned_OK(q)
                            /\ q # top => q > 0 /\ hdr[q].size > 0
                            /\ q # top /\ ~hdr[q].mmapped => aligned_OK(hdr[q].size)
  BY DEF Shape, Typed
<1>3. /\ ~hdr[p].mmapped /\ ~hdr[top].mmapped /\ hdr[top].prev_inuse /\ p \notin B
  <2>1. hdr[top].prev_inuse <=> p \notin B BY ONLY <1>0, Tagged(hdr, top, B) DEF Tagged
  <2>2. hdr[top].prev_inuse BY DEF Tagged
  <2>3. ~hdr[p].mmapped /\ ~hdr[top].mmapped BY <1>0, <1>1 DEF Chunks, Shape, Typed
  <2> QED BY <2>1, <2>2, <2>3
<1>4. /\ hdr[p].size \in Nat /\ hdr[top].size \in Nat /\ hdr[p].mmapped = FALSE
      /\ hdr[p].prev_inuse \in BOOLEAN /\ hdr[p].prev_size \in Nat /\ hdr[p].prev_size <= p
      /\ aligned_OK(p)
  BY <1>1, <1>2, <1>3 DEF AnyHeader
<1>5. /\ e \in Nat /\ p < n /\ n < e /\ n - p \in Nat /\ e - n \in Nat /\ n - p > 0 /\ e - n > 0
      /\ p + (n - p) = n /\ n + (e - n) = e /\ n - p >= MINSIZE /\ e - n >= MINSIZE
      /\ e = top + hdr[top].size /\ n # p /\ n # top /\ n # NIL
  <2>1. e = top + hdr[top].size BY ONLY <1>0 DEF End
  <2>2. MINSIZE \in Nat /\ MINSIZE > 0 BY Units
  <2> QED BY ONLY <1>0, <1>1, <1>4, <2>1, <2>2 DEF NIL
<1>6. n \notin DOMAIN hdr
  <2> SUFFICES ASSUME n \in DOMAIN hdr PROVE FALSE
    OBVIOUS
  <2>1. Start(hdr, n) <= n /\ Start(hdr, n) \in Int BY <1>2, <1>5 DEF Start, AnyHeader
  <2>2. e <= Start(hdr, n) BY <1>0, <1>1 DEF Shape, Apart
  <2> QED BY ONLY <1>0, <1>5, <2>1, <2>2
<1>7. /\ hdr2[p] \in AnyHeader /\ hdr2[p].size = n - p /\ hdr2[p].prev_inuse = hdr[p].prev_inuse
      /\ hdr2[p].prev_size = hdr[p].prev_size /\ hdr2[p].mmapped = FALSE
  <2>1. hdr2[p] = Hd(n - p, hdr[p].prev_inuse, hdr[p].prev_size, FALSE) BY ONLY <1>0
  <2> QED BY ONLY <1>4, <1>5, <2>1 DEF Hd, AnyHeader
<1>8. /\ hdr2[n] \in AnyHeader /\ hdr2[n].size = e - n /\ hdr2[n].prev_inuse = TRUE
      /\ hdr2[n].prev_size = 0 /\ hdr2[n].mmapped = FALSE
  <2>1. hdr2[n] = Hd(e - n, TRUE, 0, FALSE) BY ONLY <1>0
  <2> QED BY ONLY <1>5, <2>1 DEF Hd, AnyHeader
<1>9. /\ End(hdr2, p) = n /\ End(hdr2, n) = e /\ Start(hdr2, n) = n
      /\ Start(hdr2, p) = p /\ Start(hdr, p) = p /\ Start(hdr, top) = top
      /\ p \in DOMAIN hdr2 /\ n \in DOMAIN hdr2
  <2>1. /\ End(hdr2, p) = p + hdr2[p].size /\ End(hdr2, n) = n + hdr2[n].size
    BY DEF End
  <2>2. /\ Start(hdr2, p) = p /\ Start(hdr2, n) = n /\ Start(hdr, p) = p /\ Start(hdr, top) = top
    BY ONLY <1>3, <1>7, <1>8 DEF Start
  <2>3. p \in DOMAIN hdr2 /\ n \in DOMAIN hdr2 BY ONLY <1>0, <1>1
  <2> QED BY ONLY <1>5, <1>7, <1>8, <2>1, <2>2, <2>3
<1>10. \A q \in DOMAIN hdr2 : q # n =>
         /\ q \in DOMAIN hdr /\ q # top
         /\ hdr2[q] \in AnyHeader /\ hdr2[q].mmapped = hdr[q].mmapped
         /\ hdr2[q].prev_size = hdr[q].prev_size
         /\ Start(hdr2, q) = Start(hdr, q) /\ hdr2[q].prev_inuse = hdr[q].prev_inuse
         /\ q # p => hdr2[q] = hdr[q] /\ End(hdr2, q) = End(hdr, q)
  <2>1. ASSUME NEW q \in DOMAIN hdr2, q # n
        PROVE  /\ q \in DOMAIN hdr /\ q # top
               /\ hdr2[q] \in AnyHeader /\ hdr2[q].mmapped = hdr[q].mmapped
               /\ hdr2[q].prev_size = hdr[q].prev_size
               /\ Start(hdr2, q) = Start(hdr, q) /\ hdr2[q].prev_inuse = hdr[q].prev_inuse
               /\ q # p => hdr2[q] = hdr[q] /\ End(hdr2, q) = End(hdr, q)
    <3>0. q \in DOMAIN hdr /\ q # top BY ONLY <1>0, <2>1
    <3>1. CASE q = p BY ONLY <1>4, <1>7, <1>9, <3>0, <3>1
    <3>2. CASE q # p
      <4>1. hdr2[q] = hdr[q] BY ONLY <1>0, <3>0, <3>2
      <4> QED BY ONLY <1>2, <3>0, <4>1 DEF Start, End
    <3> QED BY <3>1, <3>2
  <2> QED BY <2>1
<1>11. \A q \in DOMAIN hdr \ {top} : q \in DOMAIN hdr2 /\ q # n BY ONLY <1>0, <1>6
<1>12. Chunks(hdr2, n) = Chunks(hdr, top)
  <2>1. p \in Chunks(hdr2, n) /\ n \notin Chunks(hdr2, n) /\ top \notin Chunks(hdr2, n)
        /\ top \notin Chunks(hdr, top) /\ n \notin Chunks(hdr, top)
    BY ONLY <1>0, <1>5, <1>6, <1>7, <1>9 DEF Chunks
  <2>2. \A q : q # p /\ q # n /\ q # top => (q \in Chunks(hdr2, n) <=> q \in Chunks(hdr, top))
    BY ONLY <1>10, <1>11 DEF Chunks
  <2> QED BY ONLY <2>1, <2>2, <1>0
<1>13. \A q \in DOMAIN hdr \ {top} : q # p => q < p \/ e <= Start(hdr, q)
  <2> SUFFICES ASSUME NEW q \in DOMAIN hdr \ {top}, q # p, ~(q < p)
               PROVE  e <= Start(hdr, q)
    OBVIOUS
  <2>1. q \in Nat /\ p < q BY <1>1, <1>2
  <2>2. top <= Start(hdr, q) BY <1>0, <1>1, <2>1 DEF Shape, Apart
  <2>3. Start(hdr, q) \in Int /\ Start(hdr, q) <= q BY <1>2, <2>1 DEF Start, AnyHeader
  <2>4. top < q BY <1>1, <2>1, <2>2, <2>3
  <2> QED BY <1>0, <1>1, <2>1, <2>4 DEF Shape, Apart
<1>14. Typed(hdr2, n)
  <2>1. n \in DOMAIN hdr2 /\ ~hdr2[n].mmapped /\ hdr2[n].size >= MINSIZE /\ n # NIL
    BY ONLY <1>5, <1>8, <1>9
  <2>2. aligned_OK(hdr2[p].size)
    <3>1. p \in Int /\ n \in Int BY <1>0, <1>1
    <3> QED BY ONLY <1>0, <1>4, <1>7, <3>1, AlignedSum
  <2>3. ASSUME NEW q \in DOMAIN hdr2
        PROVE  /\ q \in Nat /\ aligned_OK(q) /\ hdr2[q] \in AnyHeader /\ hdr2[q].prev_size <= q
               /\ q # n => q > 0 /\ hdr2[q].size > 0
               /\ q # n /\ ~hdr2[q].mmapped => aligned_OK(hdr2[q].size)
    <3>1. CASE q = n
      <4>a. n \in Nat BY ONLY <1>0
      <4>b. hdr2[n].prev_size = 0 BY ONLY <1>8
      <4>1. hdr2[n].prev_size <= n BY ONLY <4>a, <4>b
      <4> QED BY ONLY <1>0, <1>8, <3>1, <4>1
    <3>2. CASE q = p
      <4>1. hdr2[p].size > 0 BY ONLY <1>5, <1>7
      <4>2. q > 0 BY ONLY <1>1, <1>2, <3>2
      <4> QED BY ONLY <1>1, <1>4, <1>7, <2>2, <3>2, <4>1, <4>2
    <3>3. CASE q # n /\ q # p
      <4>1. q \in DOMAIN hdr /\ q # top /\ hdr2[q] = hdr[q] BY ONLY <1>10, <2>3, <3>3
      <4> QED BY ONLY <1>2, <4>1
    <3> QED BY <3>1, <3>2, <3>3
  <2> QED BY <2>1, <2>3 DEF Typed
<1>15. Apart(hdr2)
  <2> SUFFICES ASSUME NEW a \in DOMAIN hdr2, NEW b \in DOMAIN hdr2, a < b
               PROVE  End(hdr2, a) <= Start(hdr2, b)
    BY DEF Apart
  <2>0. /\ a # n => a \in DOMAIN hdr \ {top} /\ a \in Nat
        /\ b # n => b \in DOMAIN hdr \ {top} /\ b \in Nat /\ Start(hdr2, b) = Start(hdr, b)
    BY <1>2, <1>10
  <2>1. CASE a = n
    <3>1. b # n /\ b # p /\ ~(b < p) BY ONLY <1>0, <1>1, <1>5, <2>0, <2>1, a < b
    <3> QED BY ONLY <1>9, <1>13, <2>0, <2>1, <3>1
  <2>2. CASE a = p /\ b = n BY ONLY <1>0, <1>9, <2>2
  <2>3. CASE a = p /\ b # n
    <3>1. b # p /\ ~(b < p) BY ONLY <1>1, <2>0, <2>3, a < b
    <3>2. e <= Start(hdr, b) BY ONLY <1>13, <2>0, <2>3, <3>1
    <3>3. Start(hdr, b) \in Int BY <1>2, <2>0, <2>3 DEF Start, AnyHeader
    <3> QED BY ONLY <1>0, <1>5, <1>9, <2>0, <2>3, <3>2, <3>3
  <2>4. CASE a # n /\ a # p /\ b = n
    <3>1. a < p
      <4>1. Start(hdr, a) <= a /\ Start(hdr, a) \in Int BY <1>2, <2>0, <2>4 DEF Start, AnyHeader
      <4>2. a < p \/ e <= Start(hdr, a) BY ONLY <1>13, <2>0, <2>4
      <4> QED BY ONLY <1>0, <1>1, <1>5, <2>0, <2>4, <4>1, <4>2, a < b
    <3>2. End(hdr, a) <= p BY <1>1, <1>9, <2>0, <2>4, <3>1 DEF Shape, Apart
    <3>3. End(hdr, a) \in Int /\ End(hdr2, a) = End(hdr, a) BY <1>2, <1>10, <2>0, <2>4 DEF End, AnyHeader
    <3> QED BY ONLY <1>0, <1>1, <1>5, <1>9, <2>4, <3>2, <3>3
  <2>5. CASE a # n /\ a # p /\ b # n
    <3>1. End(hdr, a) <= Start(hdr, b) BY ONLY <2>0, <2>5, a < b, Shape(hdr, top, W, c, lo) DEF Shape, Apart
    <3>2. End(hdr2, a) = End(hdr, a) BY ONLY <1>10, <2>0, <2>5, a \in DOMAIN hdr2
    <3> QED BY ONLY <2>0, <2>5, <3>1, <3>2
  <2> QED BY <2>1, <2>2, <2>3, <2>4, <2>5
<1>16. Joined(hdr2, n)
  <2> SUFFICES ASSUME NEW q \in Chunks(hdr2, n)
               PROVE  /\ End(hdr2, q) \in DOMAIN hdr2 /\ ~hdr2[End(hdr2, q)].mmapped
                      /\ \A r \in DOMAIN hdr2 : r = End(hdr2, q) /\ r # n =>
                           End(hdr2, r) \in DOMAIN hdr2 /\ ~hdr2[End(hdr2, r)].mmapped
    BY DEF Joined
  <2>0. n \in DOMAIN hdr2 /\ ~hdr2[n].mmapped BY ONLY <1>8, <1>9
  <2>1. CASE q = p BY ONLY <1>9, <2>0, <2>1
  <2>2. CASE q # p
    <3>1. q \in Chunks(hdr, top) /\ q \in DOMAIN hdr2 /\ q \in DOMAIN hdr /\ q # n /\ hdr[q].size > 0
      BY <1>2, <1>6, <1>12 DEF Chunks
    <3>2. End(hdr2, q) = End(hdr, q) /\ End(hdr, q) \in DOMAIN hdr /\ ~hdr[End(hdr, q)].mmapped
      BY <1>10, <2>2, <3>1, Follower
    <3>3. End(hdr, q) # top BY ONLY <1>1, <2>2, <3>1
    <3>4. End(hdr2, q) \in DOMAIN hdr2 /\ ~hdr2[End(hdr2, q)].mmapped
      BY ONLY <1>10, <1>11, <3>2, <3>3
    <3>5. ASSUME NEW r \in DOMAIN hdr2, r = End(hdr, q), r # n
          PROVE  End(hdr2, r) \in DOMAIN hdr2 /\ ~hdr2[End(hdr2, r)].mmapped
      <4>1. CASE r = p BY ONLY <1>9, <2>0, <4>1
      <4>2. CASE r # p
        <5>1. /\ r \in DOMAIN hdr /\ r # top /\ End(hdr2, r) = End(hdr, r) /\ hdr[r].size > 0
          BY <1>2, <1>10, <3>5, <4>2
        <5>2. End(hdr, r) \in DOMAIN hdr /\ ~hdr[End(hdr, r)].mmapped
          BY <3>1, <3>3, <3>5, Follower
        <5>3. End(hdr, r) # top BY ONLY <1>1, <4>2, <5>1
        <5> QED BY ONLY <1>10, <1>11, <5>1, <5>2, <5>3
      <4> QED BY <4>1, <4>2
    <3> QED BY ONLY <3>2, <3>4, <3>5
  <2> QED BY <2>1, <2>2
<1>17. Inside(hdr2, n, W, c, lo)
  <2>1. \A z \in Nat : p <= z /\ z < e => z \in W
    <3>1. /\ \A z \in Nat : Start(hdr, p) <= z /\ z < End(hdr, p) => z \in W
          /\ \A z \in Nat : Start(hdr, top) <= z /\ z < End(hdr, top) => z \in W
      BY <1>1 DEF Shape, Inside
    <3> QED BY ONLY <3>1, <1>0, <1>1, <1>5, <1>9
  <2>2. c => lo <= p
    BY <1>1, <1>3 DEF Shape, Inside
  <2> SUFFICES ASSUME NEW q \in DOMAIN hdr2
               PROVE  /\ \A z \in Nat : Start(hdr2, q) <= z /\ z < End(hdr2, q) => z \in W
                      /\ c /\ ~hdr2[q].mmapped => lo <= q /\ q <= n
    BY DEF Inside
  <2>3. lo \in Nat OBVIOUS
  <2>a. /\ \A z \in Nat : n <= z /\ z < e => z \in W
        /\ \A z \in Nat : p <= z /\ z < n => z \in W
        /\ c => lo <= n
    BY ONLY <1>1, <1>5, <2>1, <2>2, <2>3, <1>0
  <2>4. CASE q = n
    <3>1. n <= n BY ONLY <1>0
    <3> QED BY ONLY <1>9, <2>a, <2>4, <3>1
  <2>5. CASE q = p
    <3>1. p <= n BY ONLY <1>0, <1>1, <1>5
    <3> QED BY ONLY <1>9, <2>a, <2>2, <2>5, <3>1
  <2>6. CASE q # n /\ q # p
    <3>1. q \in DOMAIN hdr /\ q \in Nat /\ Start(hdr2, q) = Start(hdr, q) /\ End(hdr2, q) = End(hdr, q)
          /\ hdr2[q].mmapped = hdr[q].mmapped
      BY <1>2, <1>10, <2>6
    <3>2. /\ \A z \in Nat : Start(hdr, q) <= z /\ z < End(hdr, q) => z \in W
          /\ c /\ ~hdr[q].mmapped => lo <= q /\ q <= top
      BY <3>1 DEF Shape, Inside
    <3> QED BY ONLY <1>0, <1>1, <3>1, <3>2
  <2> QED BY <2>4, <2>5, <2>6
<1>18. Shape(hdr2, n, W, c, lo)
  BY ONLY <1>14, <1>15, <1>16, <1>17 DEF Shape
<1>19. B \subseteq Chunks(hdr2, n)
  BY <1>12 DEF Tagged
<1>20. ASSUME NEW q \in Chunks(hdr2, n)
       PROVE  /\ hdr2[End(hdr2, q)].prev_inuse <=> q \notin B
              /\ q \in B => hdr2[End(hdr2, q)].prev_size = hdr2[q].size /\ hdr2[q].prev_inuse
  <2>1. CASE q = p BY ONLY <1>3, <1>8, <1>9, <2>1
  <2>2. CASE q # p
    <3>1. q \in Chunks(hdr, top) /\ q \in DOMAIN hdr2 /\ q \in DOMAIN hdr /\ q # n /\ hdr[q].size > 0
      BY <1>2, <1>6, <1>12 DEF Chunks
    <3>2. End(hdr2, q) = End(hdr, q) /\ End(hdr, q) \in DOMAIN hdr
      BY <1>10, <2>2, <3>1, Follower
    <3>3. End(hdr, q) # top BY ONLY <1>1, <2>2, <3>1
    <3>4. hdr[End(hdr, q)].prev_inuse <=> q \notin B BY <3>1 DEF Tagged
    <3>5. q \in B => hdr[End(hdr, q)].prev_size = hdr[q].size /\ hdr[q].prev_inuse
      BY DEF Tagged
    <3>6. /\ End(hdr, q) \in DOMAIN hdr2 /\ End(hdr, q) # n BY ONLY <1>11, <3>2, <3>3
    <3>7. /\ hdr2[End(hdr, q)].prev_inuse = hdr[End(hdr, q)].prev_inuse
          /\ hdr2[End(hdr, q)].prev_size = hdr[End(hdr, q)].prev_size
          /\ hdr2[q] = hdr[q]
      BY ONLY <1>10, <2>2, <3>1, <3>6
    <3> QED BY ONLY <3>2, <3>4, <3>5, <3>7
  <2> QED BY <2>1, <2>2
<1>21. ASSUME NEW q \in DOMAIN hdr2, ~hdr2[q].mmapped, ~hdr2[q].prev_inuse
       PROVE  q - hdr2[q].prev_size \in B /\ End(hdr2, q - hdr2[q].prev_size) = q
  <2>a. q # n BY ONLY <1>8, <1>21
  <2>1. /\ q \in DOMAIN hdr /\ hdr2[q].prev_size = hdr[q].prev_size /\ ~hdr[q].mmapped
        /\ ~hdr[q].prev_inuse
    BY ONLY <1>10, <1>21, <2>a
  <2> DEFINE b == q - hdr[q].prev_size
  <2>2. b \in B /\ End(hdr, b) = q BY <2>1 DEF Tagged
  <2>3. b \in DOMAIN hdr2 /\ b # p /\ b # n
    <3>1. b \in DOMAIN hdr /\ b # top BY <2>2 DEF Chunks, Tagged
    <3> QED BY ONLY <3>1, <1>3, <1>11, <2>2
  <2> HIDE DEF b
  <2>4. End(hdr2, b) = q BY ONLY <1>10, <2>2, <2>3
  <2> QED BY ONLY <2>1, <2>2, <2>4 DEF b
<1>22. Tagged(hdr2, n, B)
  BY ONLY <1>8, <1>19, <1>20, <1>21 DEF Tagged
<1> QED BY <1>6, <1>12, <1>18, <1>22

-----------------------------------------------------------------------------
(* Steps that leave the bins alone: top moves, mappings come and go.       *)

\* What is no chunk of the heap is on no list, and what is no header is nobody's.
LEMMA NoChunk ==
  ASSUME NEW h, NEW u, NEW t, HeapOK(h, u, {}, t), NEW x, x \notin Chunks(h.hdr, h.top)
  PROVE  /\ x \notin Listed(h) /\ x \notin Members(h.bins)
         /\ x \in DOMAIN u => x \in DOMAIN h.hdr /\ h.hdr[x].mmapped
<1>1. Owned(h.hdr, h.top, Listed(h), Members(h.bins) \cup {}, u) BY DEF HeapOK
<1>2. x \notin Listed(h) /\ x \notin Members(h.bins) BY ONLY <1>1, x \notin Chunks(h.hdr, h.top) DEF Owned
<1>3. ASSUME x \in DOMAIN u PROVE x \in DOMAIN h.hdr /\ h.hdr[x].mmapped
  <2>1. x \in DOMAIN h.hdr /\ u[x] = Face(h.hdr[x]) BY ONLY <1>1, <1>3 DEF Owned
  <2>2. u[x].mmapped BY ONLY <1>1, <1>3, x \notin Chunks(h.hdr, h.top) DEF Owned
  <2> QED BY ONLY <2>1, <2>2 DEF Face
<1> QED BY ONLY <1>2, <1>3

\* Top is no chunk of the heap.
LEMMA TopFree ==
  ASSUME NEW h, NEW u, NEW t, HeapOK(h, u, {}, t)
  PROVE  /\ h.top \notin Chunks(h.hdr, h.top) /\ h.top \notin Listed(h)
         /\ h.top \notin Members(h.bins) /\ h.top \notin DOMAIN u
<1>1. h.top \notin Chunks(h.hdr, h.top) BY DEF Chunks
<1>2. ~h.hdr[h.top].mmapped BY TopFacts
<1> QED BY <1>1, <1>2, NoChunk

\* A mapping starts at a page and has whole pages.
MappedAt(hdr, q) ==
  /\ Start(hdr, q) >= MmapStart /\ Start(hdr, q) % Pagesize = 0
  /\ (hdr[q].prev_size + hdr[q].size) % Pagesize = 0
  /\ aligned_OK(hdr[q].prev_size) /\ hdr[q].size >= MINSIZE

\* All but T is what it was.
Untouched(h, u, h2, u2, T) ==
  \A x : x \notin T =>
    /\ x \in DOMAIN h2.hdr <=> x \in DOMAIN h.hdr
    /\ x \in DOMAIN h.hdr => h2.hdr[x] = h.hdr[x]
    /\ x = h2.top <=> x = h.top
    /\ x \in DOMAIN u2 <=> x \in DOMAIN u
    /\ x \in DOMAIN u => u2[x] = u[x]

\* What is a chunk now is held, and so is a mapping.
Disposed(h2, u2, T) ==
  \A x \in T :
    /\ x \in Chunks(h2.hdr, h2.top) => x \in DOMAIN u2
    /\ x \in DOMAIN u2 => /\ x \in DOMAIN h2.hdr /\ u2[x] = Face(h2.hdr[x])
                          /\ h2.hdr[x].mmapped \/ x \in Chunks(h2.hdr, h2.top)
    /\ x \in DOMAIN h2.hdr /\ h2.hdr[x].mmapped => x \in DOMAIN u2 /\ MappedAt(h2.hdr, x)

Moving == {"hdr", "top", "contiguous", "system_mem", "sbrk_base", "brk", "mapped"}

\* A step that changes the layout around top and hands out nothing else.
LEMMA Rebuilt ==
  ASSUME NEW h, NEW u, NEW t, HeapOK(h, u, {}, t),
         NEW h2, Same(h, h2, Loose \cup Moving),
         NEW u2, NEW T,
         Shape(h2.hdr, h2.top, Space(h2.brk, h2.mapped), h2.contiguous, h2.sbrk_base),
         Tagged(h2.hdr, h2.top, Members(h.bins)), Bounds(h2),
         T \cap Listed(h) = {}, T \cap Members(h.bins) = {},
         Untouched(h, u, h2, u2, T), Disposed(h2, u2, T)
  PROVE  HeapOK(h2, u2, {}, t)
<1> DEFINE B == Members(h.bins)
           L == Listed(h)
<1>1. /\ Rec(h2) /\ h2.bins = h.bins /\ h2.fast = h.fast
      /\ h2.entries = h.entries /\ h2.heads = h.heads /\ h2.binmap = h.binmap
      /\ h2.tcache = h.tcache
  BY DEF Same, Fields, Loose, Moving
<1>2. Owned(h.hdr, h.top, L, B, u) /\ Mapped(h.hdr)
  <2>1. B \cup {} = B OBVIOUS
  <2> QED BY <2>1 DEF HeapOK
<1>3. T \cap L = {} /\ T \cap B = {} OBVIOUS
<1>b. B = Members(h.bins) /\ L = Listed(h) OBVIOUS
<1> HIDE DEF B, L
<1>4. ASSUME NEW x, x \notin T
      PROVE  x \in Chunks(h2.hdr, h2.top) <=> x \in Chunks(h.hdr, h.top)
  BY ONLY <1>4, Untouched(h, u, h2, u2, T) DEF Untouched, Chunks
<1>5. ASSUME NEW x
      PROVE  /\ x \in Chunks(h2.hdr, h2.top) <=> x \in B \/ x \in L \/ (x \in DOMAIN u2 /\ ~u2[x].mmapped)
             /\ x \in DOMAIN u2 => x \in DOMAIN h2.hdr /\ Face(h2.hdr[x]) = u2[x] /\ x \notin B /\ x \notin L
             /\ x \in L => x \notin B
             /\ x \in DOMAIN h2.hdr /\ h2.hdr[x].mmapped => x \in DOMAIN u2
  <2>1. CASE x \in T
    <3>1. x \notin L /\ x \notin B BY ONLY <1>3, <2>1
    <3>2. /\ x \in Chunks(h2.hdr, h2.top) => x \in DOMAIN u2
          /\ x \in DOMAIN u2 => /\ x \in DOMAIN h2.hdr /\ u2[x] = Face(h2.hdr[x])
                                /\ h2.hdr[x].mmapped \/ x \in Chunks(h2.hdr, h2.top)
          /\ x \in DOMAIN h2.hdr /\ h2.hdr[x].mmapped => x \in DOMAIN u2
      BY ONLY <2>1, Disposed(h2, u2, T) DEF Disposed
    <3>3. x \in DOMAIN u2 => (u2[x].mmapped <=> h2.hdr[x].mmapped) BY ONLY <3>2 DEF Face
    <3>4. x \in Chunks(h2.hdr, h2.top) => ~h2.hdr[x].mmapped BY ONLY DEF Chunks
    <3> QED BY ONLY <3>1, <3>2, <3>3, <3>4
  <2>2. CASE x \notin T
    <3>1. /\ x \in DOMAIN h2.hdr <=> x \in DOMAIN h.hdr
          /\ x \in DOMAIN h.hdr => h2.hdr[x] = h.hdr[x]
          /\ x \in DOMAIN u2 <=> x \in DOMAIN u
          /\ x \in DOMAIN u => u2[x] = u[x]
      BY ONLY <2>2, Untouched(h, u, h2, u2, T) DEF Untouched
    <3>2. x \in Chunks(h2.hdr, h2.top) <=> x \in Chunks(h.hdr, h.top) BY ONLY <2>2, <1>4
    <3>3. /\ x \in Chunks(h.hdr, h.top) <=> x \in B \/ x \in L \/ (x \in DOMAIN u /\ ~u[x].mmapped)
          /\ x \in DOMAIN u => x \in DOMAIN h.hdr /\ Face(h.hdr[x]) = u[x] /\ x \notin B /\ x \notin L
          /\ x \in L => x \notin B
          /\ x \in DOMAIN h.hdr /\ h.hdr[x].mmapped => x \in DOMAIN u
      BY ONLY <1>2 DEF Owned
    <3> QED BY ONLY <3>1, <3>2, <3>3
  <2> QED BY ONLY <2>1, <2>2
<1>6. Owned(h2.hdr, h2.top, L, B, u2) BY ONLY <1>5 DEF Owned
<1>7. \A q \in L \cup B : h2.hdr[q].size = h.hdr[q].size
  <2>1. \A q \in L \cup B : q \notin T /\ q \in DOMAIN h.hdr BY ONLY <1>2, <1>3 DEF Owned, Chunks
  <2> QED BY ONLY <2>1, Untouched(h, u, h2, u2, T) DEF Untouched
<1>8. Mapped(h2.hdr)
  <2> SUFFICES ASSUME NEW q \in DOMAIN h2.hdr, h2.hdr[q].mmapped PROVE MappedAt(h2.hdr, q)
    BY DEF Mapped, MappedAt
  <2>1. CASE q \in T BY ONLY <2>1, q \in DOMAIN h2.hdr, h2.hdr[q].mmapped, Disposed(h2, u2, T) DEF Disposed
  <2>2. CASE q \notin T
    <3>1. q \in DOMAIN h.hdr /\ h2.hdr[q] = h.hdr[q]
      BY ONLY <2>2, q \in DOMAIN h2.hdr, Untouched(h, u, h2, u2, T) DEF Untouched
    <3> QED BY ONLY <3>1, <1>2, h2.hdr[q].mmapped DEF Mapped, MappedAt, Start
  <2> QED BY <2>1, <2>2
<1>9. Indexed(h2.hdr, h2.fast, h2.entries)
  <2>1. \A i \in DOMAIN h.fast : \A q \in Range(h.fast[i]) : q \in L BY ONLY <1>b DEF Listed, Members
  <2>2. \A i \in DOMAIN h.entries : \A q \in Range(h.entries[i]) : q \in L BY ONLY <1>b DEF Listed, Members
  <2>3. Indexed(h.hdr, h.fast, h.entries) BY DEF HeapOK
  <2>4. \A q \in L : h2.hdr[q].size = h.hdr[q].size BY ONLY <1>7
  <2> QED BY ONLY <1>1, <2>1, <2>2, <2>3, <2>4 DEF Indexed
<1>10. Binned(h2.hdr, h2.bins, h2.heads, h2.binmap)
  <2>1. \A q \in Members(h.bins) : h2.hdr[q].size = h.hdr[q].size BY ONLY <1>7, <1>b
  <2>2. Binned(h.hdr, h.bins, h.heads, h.binmap) BY DEF HeapOK
  <2> QED BY ONLY <1>1, <2>1, <2>2, SameBinned
<1>11. /\ Lists3(h2) /\ Listed(h2) = L /\ Members(h2.fast) \cap Members(h2.entries) = {}
       /\ h2.tcache = t /\ Members(h2.bins) \cup {} = B
  BY ONLY <1>1, <1>b, HeapOK(h, u, {}, t) DEF HeapOK, Lists3, Listed
<1>12. Laid(h2, {})
  <2>1. Members(h2.bins) \cup {} = Members(h.bins) BY ONLY <1>11, <1>b
  <2> QED BY ONLY <2>1, Tagged(h2.hdr, h2.top, Members(h.bins)),
        Shape(h2.hdr, h2.top, Space(h2.brk, h2.mapped), h2.contiguous, h2.sbrk_base) DEF Laid
<1>13. Owned(h2.hdr, h2.top, Listed(h2), Members(h2.bins) \cup {}, u2) BY ONLY <1>6, <1>11
<1>14. {} \cap Members(h2.bins) = {} OBVIOUS
<1> QED BY ONLY <1>1, <1>8, <1>9, <1>10, <1>11, <1>12, <1>13, <1>14, Bounds(h2) DEF HeapOK

\* What has been written to does not matter.
LEMMA TouchSame ==
  ASSUME NEW h, Rec(h), NEW a
  PROVE  Same(h, Touch(h, a), {"touched"})
BY DEF Rec, Same, Touch, Fields

\* The low end of top is handed out.
LEMMA Carved ==
  ASSUME NEW h, NEW u, NEW t, HeapOK(h, u, {}, t), NEW n \in ChunkSizes,
         h.hdr[h.top].size >= n + MINSIZE,
         NEW h2, h2 = carve(h, n), NEW p, p = h.top, NEW u2, u2 = With(u, p, Plain(n))
  PROVE  /\ HeapOK(h2, u2, {}, t) /\ Same(h, h2, {"hdr", "top", "touched"})
         /\ p \notin DOMAIN u /\ p # NIL /\ aligned_OK(p) /\ p \in Nat
<1> DEFINE B == Members(h.bins)
           r == p + n
           e == End(h.hdr, p)
           hA == set_head(h, r, e - r)
           hB == set_head(hA, p, r - p)
           hC == [hB EXCEPT !.top = r]
<1>1. h2 = Touch(hC, r + CHUNK_HDR_SZ) BY DEF carve, carve_at, next_chunk, chunksize, End
<1>2. hA = set_head(h, r, e - r) /\ hB = set_head(hA, p, r - p) /\ hC = [hB EXCEPT !.top = r]
      /\ r = p + n /\ e = End(h.hdr, p) /\ B = Members(h.bins)
  OBVIOUS
<1> HIDE DEF hA, hB, hC, r, e, B
<1>3. /\ Shape(h.hdr, p, Space(h.brk, h.mapped), h.contiguous, h.sbrk_base)
      /\ Tagged(h.hdr, p, B)
      /\ Rec(h) /\ h.sbrk_base \in Nat
  BY <1>2, LaidOut
<1>4. /\ p \in DOMAIN h.hdr /\ p \in Nat /\ aligned_OK(p) /\ h.hdr[p].size \in Nat
      /\ p # NIL /\ e = p + h.hdr[p].size /\ h.hdr[p].size >= n + MINSIZE
  <2>1. p \in DOMAIN h.hdr /\ p \in Nat /\ aligned_OK(p) /\ h.hdr[p].size \in Nat
        /\ (p = NIL => h.hdr[p].size = 0)
    BY TopFacts
  <2>2. e = p + h.hdr[p].size BY <1>2 DEF End
  <2>3. n \in Nat /\ MINSIZE \in Nat /\ MINSIZE > 0 BY Units DEF ChunkSizes
  <2>4. h.hdr[p].size >= n + MINSIZE OBVIOUS
  <2>5. p # NIL BY ONLY <2>1, <2>3, <2>4
  <2> QED BY ONLY <2>1, <2>2, <2>4, <2>5
<1>5. /\ n \in Nat /\ n >= MINSIZE /\ aligned_OK(n) /\ MINSIZE \in Nat /\ MINSIZE > 0
  BY Units DEF ChunkSizes
<1>6. /\ r \in Nat /\ p + MINSIZE <= r /\ r + MINSIZE <= e /\ p < r /\ r - p = n /\ p # r
      /\ r # NIL /\ e - r \in Nat
  BY ONLY <1>2, <1>4, <1>5 DEF NIL
<1>7. aligned_OK(r)
  <2>1. p \in Int /\ n \in Int BY <1>4, <1>5
  <2> QED BY ONLY <2>1, <1>2, <1>4, <1>5, AlignedSum
<1>8. Wrote(h, hA, r, Hd(e - r, TRUE, 0, FALSE)) BY ONLY <1>2, <1>3, SetHead
<1>9. Wrote(hA, hB, p, Hd(n, TRUE, 0, FALSE))
  <2>1. Rec(hA) BY ONLY <1>8 DEF Wrote, Same
  <2>2. hB = set_head(hA, p, n) BY ONLY <1>2, <1>6
  <2> QED BY ONLY <2>1, <2>2, SetHead
<1>10. Same(hB, hC, {"top"}) /\ hC.top = r
  <2>1. Rec(hB) BY ONLY <1>9 DEF Wrote, Same
  <2> QED BY ONLY <2>1, <1>2 DEF Rec, Same, Fields
<1>11. Same(hC, h2, {"touched"})
  <2>1. Rec(hC) BY ONLY <1>10 DEF Same
  <2> QED BY ONLY <2>1, <1>1, TouchSame
<1>12. Same(h, h2, {"hdr", "top", "touched"}) /\ h2.top = r /\ h2.hdr = hB.hdr
  BY ONLY <1>8, <1>9, <1>10, <1>11 DEF Wrote, Same, Fields
<1>13. DOMAIN h2.hdr = DOMAIN h.hdr \cup {r}
  <2>1. DOMAIN hA.hdr = DOMAIN h.hdr \cup {r} BY ONLY <1>8 DEF Wrote
  <2>2. DOMAIN hB.hdr = DOMAIN hA.hdr \cup {p} BY ONLY <1>9 DEF Wrote
  <2> QED BY ONLY <2>1, <2>2, <1>4, <1>12
<1>14. h2.hdr[p] = Hd(n, TRUE, 0, FALSE) BY ONLY <1>9, <1>12 DEF Wrote
<1>15. h2.hdr[r] = Hd(e - r, TRUE, 0, FALSE)
  <2>1. r \in DOMAIN hA.hdr /\ hA.hdr[r] = Hd(e - r, TRUE, 0, FALSE) BY ONLY <1>8 DEF Wrote
  <2> QED BY ONLY <2>1, <1>6, <1>9, <1>12 DEF Wrote
<1>16. \A q \in DOMAIN h.hdr : q # p /\ q # r => h2.hdr[q] = h.hdr[q]
  BY ONLY <1>8, <1>9, <1>12 DEF Wrote
<1>17. /\ h2.brk = h.brk /\ h2.mapped = h.mapped
       /\ h2.contiguous = h.contiguous /\ h2.sbrk_base = h.sbrk_base
       /\ h2.system_mem = h.system_mem /\ h2.top_pad = h.top_pad
  BY ONLY <1>12 DEF Same, Fields
<1>18. r \notin DOMAIN h.hdr
  <2> SUFFICES ASSUME r \in DOMAIN h.hdr PROVE FALSE OBVIOUS
  <2>1. e <= Start(h.hdr, r) BY ONLY <1>2, <1>3, <1>4, <1>6, r \in DOMAIN h.hdr DEF Shape, Apart
  <2>2. h.hdr[r].prev_size \in Nat /\ h.hdr[r].mmapped \in BOOLEAN BY HeaderFacts
  <2>3. Start(h.hdr, r) <= r /\ Start(h.hdr, r) \in Int BY ONLY <2>2, <1>6 DEF Start
  <2>4. e \in Nat BY ONLY <1>4
  <2> QED BY ONLY <2>1, <2>3, <2>4, <1>5, <1>6
<1>19. /\ Shape(h2.hdr, r, Space(h.brk, h.mapped), h.contiguous, h.sbrk_base)
       /\ Tagged(h2.hdr, r, B)
       /\ Chunks(h2.hdr, r) = Chunks(h.hdr, p) \cup {p}
  <2>1. CutsTop(h.hdr, p, e, r, 0, 0, h2.hdr)
    <3>1. 0 \in Nat /\ 0 <= p /\ 0 <= r BY ONLY <1>4, <1>6
    <3>2. h2.hdr[p] = Hd(r - p, TRUE, 0, FALSE) BY ONLY <1>6, <1>14
    <3>3. \A q \in DOMAIN h.hdr : q # p => h2.hdr[q] = h.hdr[q] BY ONLY <1>16, <1>18
    <3> QED BY ONLY <1>2, <1>6, <1>7, <1>13, <1>15, <3>1, <3>2, <3>3 DEF CutsTop
  <2> QED BY ONLY <2>1, <1>3, CutTop
<1>20. /\ p \notin Chunks(h.hdr, p) /\ p \notin Listed(h) /\ p \notin B /\ p \notin DOMAIN u
  BY <1>2, TopFree
<1>21. r \notin Listed(h) /\ r \notin B /\ r \notin DOMAIN u
  <2>1. r \notin Chunks(h.hdr, h.top) BY ONLY <1>18 DEF Chunks
  <2> QED BY ONLY HeapOK(h, u, {}, t), <2>1, <1>2, <1>18, NoChunk
<1>22. DOMAIN u2 = DOMAIN u \cup {p} /\ u2[p] = Plain(n) /\ \A x \in DOMAIN u : x # p => u2[x] = u[x]
  BY ONLY u2 = With(u, p, Plain(n)) DEF With
<1>23. Untouched(h, u, h2, u2, {p, r})
  BY ONLY <1>12, <1>13, <1>16, <1>18, <1>20, <1>22, p = h.top DEF Untouched
<1>24. Disposed(h2, u2, {p, r})
  <2>1. Face(h2.hdr[p]) = Plain(n) BY ONLY <1>14, SetFace
  <2>2. ~h2.hdr[p].mmapped /\ ~h2.hdr[r].mmapped BY ONLY <1>14, <1>15 DEF Hd
  <2>3. p \in Chunks(h2.hdr, h2.top) /\ r \notin Chunks(h2.hdr, h2.top)
    <3>1. r \notin Chunks(h2.hdr, r) BY ONLY DEF Chunks
    <3> QED BY ONLY <3>1, <1>12, <1>19
  <2>4. p \in DOMAIN h2.hdr BY ONLY <1>4, <1>13
  <2>5. r \notin DOMAIN u2 BY ONLY <1>6, <1>21, <1>22
  <2> QED BY ONLY <2>1, <2>2, <2>3, <2>4, <2>5, <1>22 DEF Disposed
<1>25. Bounds(h2)
  <2>1. End(h2.hdr, r) = e
    <3>1. End(h2.hdr, r) = r + (e - r) BY ONLY <1>15 DEF End, Hd
    <3>2. e \in Nat BY ONLY <1>4
    <3> QED BY ONLY <3>1, <3>2, <1>6
  <2>2. Bounds(h) BY DEF HeapOK
  <2> QED BY ONLY <2>1, <2>2, <1>2, <1>4, <1>6, <1>12, <1>17, p = h.top DEF Bounds
<1>26. /\ Shape(h2.hdr, h2.top, Space(h2.brk, h2.mapped), h2.contiguous, h2.sbrk_base)
       /\ Tagged(h2.hdr, h2.top, Members(h.bins))
  BY ONLY <1>2, <1>12, <1>17, <1>19
<1>27. Same(h, h2, Loose \cup Moving) BY ONLY <1>12 DEF Same, Loose, Moving
<1>28. {p, r} \cap Listed(h) = {} /\ {p, r} \cap Members(h.bins) = {} BY ONLY <1>2, <1>20, <1>21
<1>29. HeapOK(h2, u2, {}, t)
  BY ONLY HeapOK(h, u, {}, t), <1>23, <1>24, <1>25, <1>26, <1>27, <1>28, Rebuilt
<1> QED BY ONLY <1>4, <1>12, <1>20, <1>29

\* realloc lets the chunk p before top grow into it.
LEMMA GrownIntoTop ==
  ASSUME NEW h, NEW u, NEW t, HeapOK(h, u, {}, t), NEW p \in DOMAIN u, ~u[p].mmapped,
         h.top = End(h.hdr, p), NEW n \in ChunkSizes, h.hdr[p].size < n,
         NEW s, s = h.hdr[p].size + h.hdr[h.top].size, s >= n + MINSIZE,
         NEW a,
         NEW h2, h2 = Touch([set_head(set_head_size(Forget(h, h.top), p, n), p + n, s - n)
                               EXCEPT !.top = p + n], a),
         NEW u2, u2 = With(u, p, Plain(n))
  PROVE  HeapOK(h2, u2, {}, t) /\ Same(h, h2, {"hdr", "top", "touched"})
<1> DEFINE B == Members(h.bins)
           top == h.top
           r == p + n
           e == End(h.hdr, h.top)
           hA == Forget(h, top)
           hB == set_head_size(hA, p, n)
           hC == set_head(hB, r, s - n)
           hD == [hC EXCEPT !.top = r]
<1>1. h2 = Touch(hD, a) OBVIOUS
<1>2. hA = Forget(h, top) /\ hB = set_head_size(hA, p, n) /\ hC = set_head(hB, r, s - n)
      /\ hD = [hC EXCEPT !.top = r] /\ top = h.top
      /\ r = p + n /\ e = End(h.hdr, top) /\ B = Members(h.bins)
  OBVIOUS
<1> HIDE DEF hA, hB, hC, hD, r, e, B, top
<1>3. /\ Shape(h.hdr, top, Space(h.brk, h.mapped), h.contiguous, h.sbrk_base)
      /\ Tagged(h.hdr, top, B)
      /\ Rec(h) /\ h.sbrk_base \in Nat
  BY <1>2, LaidOut
<1>4. AtHand(h, u, p, top)
  <2>1. top = End(h.hdr, p) BY <1>2
  <2> QED BY ONLY <2>1, HeapOK(h, u, {}, t), p \in DOMAIN u, ~u[p].mmapped, Handed
<1>5. /\ p \in DOMAIN h.hdr /\ p \in Nat /\ h.hdr[p] \in AnyHeader /\ ~h.hdr[p].mmapped
      /\ p < top /\ top = p + h.hdr[p].size /\ h.hdr[p].size \in Nat /\ aligned_OK(p)
      /\ h.hdr[p].prev_inuse \in BOOLEAN /\ h.hdr[p].prev_size \in Nat
      /\ p \in Chunks(h.hdr, top) /\ p \notin B /\ p \notin Listed(h)
  BY ONLY <1>4, <1>2 DEF AtHand
<1>6. top \in DOMAIN h.hdr /\ top \in Nat /\ h.hdr[top].size \in Nat BY <1>2, TopFacts
<1>7. n \in Nat /\ n >= MINSIZE /\ aligned_OK(n) /\ MINSIZE \in Nat /\ MINSIZE > 0
  BY Units DEF ChunkSizes
<1>8. e = top + h.hdr[top].size /\ s = h.hdr[p].size + h.hdr[top].size
      /\ s >= n + MINSIZE /\ h.hdr[p].size < n
  <2>1. e = top + h.hdr[top].size BY ONLY <1>2 DEF End
  <2>2. s = h.hdr[p].size + h.hdr[top].size BY ONLY <1>2, s = h.hdr[p].size + h.hdr[h.top].size
  <2> QED BY <2>1, <2>2
<1>9. /\ r \in Nat /\ e \in Nat /\ s \in Nat /\ s - n = e - r /\ top < r /\ p + MINSIZE <= r /\ r + MINSIZE <= e
      /\ r - p = n /\ r # p /\ r # top /\ r # NIL /\ top # NIL /\ p # top /\ p < r
  <2> DEFINE x == h.hdr[p].size
             y == h.hdr[top].size
  <2>1. /\ x \in Nat /\ y \in Nat /\ p \in Nat /\ top = p + x /\ r = p + n /\ e = top + y
        /\ s = x + y /\ s >= n + MINSIZE /\ x < n /\ p < top
    <3>1. r = p + n BY ONLY <1>2
    <3>2. s >= n + MINSIZE /\ s = x + y /\ x < n BY ONLY <1>8
    <3>3. e = top + y BY ONLY <1>8
    <3> QED BY ONLY <3>1, <3>2, <3>3, <1>5, <1>6
  <2> HIDE DEF x, y
  <2> QED BY ONLY <2>1, <1>7 DEF NIL
<1>10. aligned_OK(r)
  <2>1. p \in Int /\ n \in Int BY ONLY <1>5, <1>7
  <2> QED BY ONLY <2>1, <1>2, <1>5, <1>7, AlignedSum
<1>11. Forgot(h, hA, top) BY ONLY <1>2, <1>3, Forgotten
<1>12. /\ Rec(hA) /\ DOMAIN hA.hdr = DOMAIN h.hdr \ {top} /\ p \in DOMAIN hA.hdr
       /\ hA.hdr[p] = h.hdr[p]
  <2>1. Rec(hA) /\ DOMAIN hA.hdr = DOMAIN h.hdr \ {top} BY ONLY <1>11 DEF Forgot, Same
  <2>2. p \in DOMAIN hA.hdr BY ONLY <2>1, <1>5, <1>9
  <2> QED BY ONLY <2>1, <2>2, <1>11 DEF Forgot
<1>13. Wrote(hA, hB, p, Hd(n, h.hdr[p].prev_inuse, h.hdr[p].prev_size, FALSE))
  BY ONLY <1>2, <1>5, <1>12, SetHeadSize
<1>14. Wrote(hB, hC, r, Hd(s - n, TRUE, 0, FALSE))
  <2>1. Rec(hB) BY ONLY <1>13 DEF Wrote, Same
  <2> QED BY ONLY <2>1, <1>2, SetHead
<1>15. Same(hC, hD, {"top"}) /\ hD.top = r
  <2>1. Rec(hC) BY ONLY <1>14 DEF Wrote, Same
  <2> QED BY ONLY <2>1, <1>2 DEF Rec, Same, Fields
<1>16. Same(hD, h2, {"touched"})
  <2>1. Rec(hD) BY ONLY <1>15 DEF Same
  <2> QED BY ONLY <2>1, <1>1, TouchSame
<1>17. Same(h, h2, {"hdr", "top", "touched"}) /\ h2.top = r /\ h2.hdr = hC.hdr
  BY ONLY <1>11, <1>13, <1>14, <1>15, <1>16 DEF Forgot, Wrote, Same, Fields
<1>18. DOMAIN hB.hdr = DOMAIN h.hdr \ {top}
  BY ONLY <1>12, <1>13 DEF Wrote
<1>19. DOMAIN h2.hdr = (DOMAIN h.hdr \ {top}) \cup {r}
  BY ONLY <1>14, <1>17, <1>18 DEF Wrote
<1>20. h2.hdr[r] = Hd(e - r, TRUE, 0, FALSE) BY ONLY <1>9, <1>14, <1>17 DEF Wrote
<1>21. h2.hdr[p] = Hd(n, h.hdr[p].prev_inuse, h.hdr[p].prev_size, FALSE)
  <2>1. p \in DOMAIN hB.hdr BY ONLY <1>5, <1>9, <1>18
  <2>2. hB.hdr[p] = Hd(n, h.hdr[p].prev_inuse, h.hdr[p].prev_size, FALSE) BY ONLY <1>13 DEF Wrote
  <2> QED BY ONLY <2>1, <2>2, <1>9, <1>14, <1>17 DEF Wrote
<1>22. \A q \in DOMAIN h.hdr \ {top} : q # p /\ q # r => h2.hdr[q] = h.hdr[q]
  <2> SUFFICES ASSUME NEW q \in DOMAIN h.hdr \ {top}, q # p, q # r PROVE h2.hdr[q] = h.hdr[q]
    OBVIOUS
  <2>1. hA.hdr[q] = h.hdr[q] /\ q \in DOMAIN hA.hdr BY ONLY <1>11, <1>12 DEF Forgot
  <2>2. hB.hdr[q] = h.hdr[q] /\ q \in DOMAIN hB.hdr BY ONLY <1>13, <1>18, <2>1, q # p DEF Wrote
  <2> QED BY ONLY <2>2, <1>14, <1>17, q # r DEF Wrote
<1>23. r \notin DOMAIN h.hdr
  <2> SUFFICES ASSUME r \in DOMAIN h.hdr PROVE FALSE OBVIOUS
  <2>1. e <= Start(h.hdr, r) BY ONLY <1>2, <1>3, <1>6, <1>9, r \in DOMAIN h.hdr DEF Shape, Apart
  <2>2. h.hdr[r].prev_size \in Nat /\ h.hdr[r].mmapped \in BOOLEAN BY HeaderFacts
  <2>3. Start(h.hdr, r) <= r /\ Start(h.hdr, r) \in Int BY ONLY <2>2, <1>9 DEF Start
  <2> QED BY ONLY <2>1, <2>3, <1>7, <1>9
<1>24. /\ Shape(h2.hdr, r, Space(h.brk, h.mapped), h.contiguous, h.sbrk_base)
       /\ Tagged(h2.hdr, r, B)
       /\ Chunks(h2.hdr, r) = Chunks(h.hdr, top)
  <2>1. ShiftsTop(h.hdr, top, p, e, r, h2.hdr)
    <3>1. h2.hdr[p] = Hd(r - p, h.hdr[p].prev_inuse, h.hdr[p].prev_size, FALSE) BY ONLY <1>9, <1>21
    <3>2. \A q \in DOMAIN h.hdr \ {top} : q # p => h2.hdr[q] = h.hdr[q] BY ONLY <1>22, <1>23
    <3>3. top = End(h.hdr, p) /\ e = End(h.hdr, top) BY <1>2
    <3> QED BY ONLY <1>5, <1>9, <1>10, <1>19, <1>20, <3>1, <3>2, <3>3 DEF ShiftsTop
  <2> QED BY ONLY <2>1, <1>3, ShiftTop
<1>25. top \notin Chunks(h.hdr, top) /\ top \notin Listed(h) /\ top \notin B /\ top \notin DOMAIN u
  BY <1>2, TopFree
<1>26. r \notin Listed(h) /\ r \notin B /\ r \notin DOMAIN u /\ r \notin Chunks(h.hdr, top)
  <2>1. r \notin Chunks(h.hdr, h.top) BY ONLY <1>23 DEF Chunks
  <2> QED BY ONLY HeapOK(h, u, {}, t), <2>1, <1>2, <1>23, NoChunk
<1>27. DOMAIN u2 = DOMAIN u /\ u2[p] = Plain(n) /\ \A x \in DOMAIN u : x # p => u2[x] = u[x]
  <2>1. p \in DOMAIN u OBVIOUS
  <2> QED BY ONLY u2 = With(u, p, Plain(n)), <2>1 DEF With
<1>28. Untouched(h, u, h2, u2, {p, top, r})
  BY ONLY <1>17, <1>19, <1>22, <1>27, <1>2 DEF Untouched
<1>29. Disposed(h2, u2, {p, top, r})
  <2>1. Face(h2.hdr[p]) = Plain(n) BY ONLY <1>21, SetFace
  <2>2. ~h2.hdr[p].mmapped /\ ~h2.hdr[r].mmapped BY ONLY <1>20, <1>21 DEF Hd
  <2>3. p \in Chunks(h2.hdr, h2.top) /\ r \notin Chunks(h2.hdr, h2.top) /\ top \notin Chunks(h2.hdr, h2.top)
    BY ONLY <1>5, <1>17, <1>24, <1>25, <1>26
  <2>4. p \in DOMAIN h2.hdr /\ top \notin DOMAIN h2.hdr BY ONLY <1>5, <1>9, <1>19
  <2>5. r \notin DOMAIN u2 /\ top \notin DOMAIN u2 /\ p \in DOMAIN u2
    <3>1. p \in DOMAIN u OBVIOUS
    <3> QED BY ONLY <3>1, <1>25, <1>26, <1>27
  <2> QED BY ONLY <2>1, <2>2, <2>3, <2>4, <2>5, <1>27 DEF Disposed
<1>30. /\ h2.brk = h.brk /\ h2.mapped = h.mapped
       /\ h2.contiguous = h.contiguous /\ h2.sbrk_base = h.sbrk_base
       /\ h2.system_mem = h.system_mem /\ h2.top_pad = h.top_pad
  BY ONLY <1>17 DEF Same, Fields
<1>31. Bounds(h2)
  <2>1. End(h2.hdr, r) = e
    <3>1. End(h2.hdr, r) = r + (e - r) BY ONLY <1>20 DEF End, Hd
    <3> QED BY ONLY <3>1, <1>9
  <2>2. Bounds(h) BY DEF HeapOK
  <2> QED BY ONLY <2>1, <2>2, <1>2, <1>9, <1>17, <1>30 DEF Bounds
<1>32. /\ Shape(h2.hdr, h2.top, Space(h2.brk, h2.mapped), h2.contiguous, h2.sbrk_base)
       /\ Tagged(h2.hdr, h2.top, Members(h.bins))
  BY ONLY <1>2, <1>17, <1>24, <1>30
<1>33. Same(h, h2, Loose \cup Moving) BY ONLY <1>17 DEF Same, Loose, Moving
<1>34. {p, top, r} \cap Listed(h) = {} /\ {p, top, r} \cap Members(h.bins) = {}
  BY ONLY <1>2, <1>5, <1>25, <1>26
<1>35. HeapOK(h2, u2, {}, t)
  BY ONLY HeapOK(h, u, {}, t), <1>28, <1>29, <1>31, <1>32, <1>33, <1>34, Rebuilt
<1> QED BY ONLY <1>17, <1>35

-----------------------------------------------------------------------------
(* Mappings.                                                               *)

Mapping(size_, offset_) == [size |-> size_, mmapped |-> TRUE, offset |-> offset_]

\* The header of a mapping.
LEMMA MappingFace ==
  ASSUME NEW s, NEW o, NEW b
  PROVE  Face(Hd(s, b, o, TRUE)) = Mapping(s, o)
BY DEF Face, Hd, Mapping

\* A mapping that somebody gets.
Maps(h, h2, a, s, o) ==
  /\ Same(h, h2, Loose \cup {"hdr", "mapped"})
  /\ AddsMapped(h.hdr, a, s, o, Space(h.brk, h.mapped), Space(h2.brk, h2.mapped), h2.hdr)
  /\ a - o >= MmapStart /\ (a - o) % Pagesize = 0 /\ (o + s) % Pagesize = 0
  /\ aligned_OK(o) /\ s >= MINSIZE

\* A chunk that mmap gave is in somebody's hands.
LEMMA MappedAdded ==
  ASSUME NEW h, NEW u, NEW t, HeapOK(h, u, {}, t),
         NEW h2, NEW a, NEW s, NEW o, Maps(h, h2, a, s, o), NEW u2, u2 = With(u, a, Mapping(s, o))
  PROVE  HeapOK(h2, u2, {}, t) /\ a \notin DOMAIN u /\ a \notin DOMAIN h.hdr
<1>1. /\ Shape(h.hdr, h.top, Space(h.brk, h.mapped), h.contiguous, h.sbrk_base)
      /\ Tagged(h.hdr, h.top, Members(h.bins))
  BY LaidOut
<1>0. /\ Same(h, h2, Loose \cup {"hdr", "mapped"})
      /\ AddsMapped(h.hdr, a, s, o, Space(h.brk, h.mapped), Space(h2.brk, h2.mapped), h2.hdr)
      /\ a - o >= MmapStart /\ (a - o) % Pagesize = 0 /\ (o + s) % Pagesize = 0
      /\ aligned_OK(o) /\ s >= MINSIZE
  BY DEF Maps
<1>2. /\ h2.top = h.top /\ h2.brk = h.brk /\ h2.contiguous = h.contiguous
      /\ h2.sbrk_base = h.sbrk_base /\ h2.system_mem = h.system_mem /\ h2.top_pad = h.top_pad
  BY <1>0 DEF Same, Fields, Loose
<1>3. /\ Shape(h2.hdr, h.top, Space(h2.brk, h2.mapped), h.contiguous, h.sbrk_base)
      /\ Tagged(h2.hdr, h.top, Members(h.bins))
      /\ Chunks(h2.hdr, h.top) = Chunks(h.hdr, h.top) /\ a \notin DOMAIN h.hdr
  BY ONLY <1>0, <1>1, AddMapped
<1>4. /\ DOMAIN h2.hdr = DOMAIN h.hdr \cup {a} /\ h2.hdr[a] = Hd(s, FALSE, o, TRUE)
      /\ \A q \in DOMAIN h.hdr : q # a => h2.hdr[q] = h.hdr[q]
      /\ a \in Nat /\ s \in Nat /\ o \in Nat
  BY ONLY <1>0 DEF AddsMapped
<1>5. h.top \in DOMAIN h.hdr BY TopFacts
<1>6. a \notin Chunks(h.hdr, h.top) BY ONLY <1>3 DEF Chunks
<1>7. a \notin Listed(h) /\ a \notin Members(h.bins) /\ a \notin DOMAIN u
  BY ONLY <1>3, <1>6, HeapOK(h, u, {}, t), NoChunk
<1>8. /\ DOMAIN u2 = DOMAIN u \cup {a} /\ u2[a] = Mapping(s, o)
      /\ \A x \in DOMAIN u : x # a => u2[x] = u[x]
  BY ONLY u2 = With(u, a, Mapping(s, o)) DEF With
<1>9. Untouched(h, u, h2, u2, {a}) BY ONLY <1>2, <1>4, <1>8 DEF Untouched
<1>10. Disposed(h2, u2, {a})
  <2>1. Face(h2.hdr[a]) = Mapping(s, o) BY ONLY <1>4, MappingFace
  <2>2. h2.hdr[a].mmapped /\ h2.hdr[a].size = s /\ h2.hdr[a].prev_size = o BY ONLY <1>4 DEF Hd
  <2>3. Start(h2.hdr, a) = a - o BY ONLY <2>2 DEF Start
  <2>4. MappedAt(h2.hdr, a)
    BY ONLY <2>2, <2>3, <1>0 DEF MappedAt
  <2>5. a \notin Chunks(h2.hdr, h2.top) BY ONLY <2>2 DEF Chunks
  <2> QED BY ONLY <2>1, <2>2, <2>4, <2>5, <1>4, <1>8 DEF Disposed
<1>11. Bounds(h2)
  <2>1. h2.hdr[h.top] = h.hdr[h.top] BY ONLY <1>3, <1>4, <1>5
  <2>2. Bounds(h) BY DEF HeapOK
  <2> QED BY ONLY <2>1, <2>2, <1>2 DEF Bounds, End
<1>12. /\ Shape(h2.hdr, h2.top, Space(h2.brk, h2.mapped), h2.contiguous, h2.sbrk_base)
       /\ Tagged(h2.hdr, h2.top, Members(h.bins))
  BY ONLY <1>2, <1>3
<1>13. Same(h, h2, Loose \cup Moving) BY ONLY <1>0 DEF Same, Moving
<1>14. {a} \cap Listed(h) = {} /\ {a} \cap Members(h.bins) = {} BY ONLY <1>7
<1>15. HeapOK(h2, u2, {}, t)
  BY ONLY HeapOK(h, u, {}, t), <1>9, <1>10, <1>11, <1>12, <1>13, <1>14, Rebuilt
<1> QED BY ONLY <1>3, <1>7, <1>15

\* A mapping that is given back.
LEMMA MappedRemoved ==
  ASSUME NEW h, NEW u, NEW t, HeapOK(h, u, {}, t), NEW p \in DOMAIN u,
         NEW h2, Same(h, h2, Loose \cup {"hdr", "mapped"}),
         RemovesMapped(h.hdr, p, Space(h.brk, h.mapped), Space(h2.brk, h2.mapped), h2.hdr),
         NEW u2, u2 = Without(u, p)
  PROVE  HeapOK(h2, u2, {}, t) /\ Vacant(h2.hdr, Start(h.hdr, p), End(h.hdr, p))
<1>1. /\ Shape(h.hdr, h.top, Space(h.brk, h.mapped), h.contiguous, h.sbrk_base)
      /\ Tagged(h.hdr, h.top, Members(h.bins))
  BY LaidOut
<1>2. /\ h2.top = h.top /\ h2.brk = h.brk /\ h2.contiguous = h.contiguous
      /\ h2.sbrk_base = h.sbrk_base /\ h2.system_mem = h.system_mem /\ h2.top_pad = h.top_pad
  BY DEF Same, Fields, Loose
<1>3. /\ Shape(h2.hdr, h.top, Space(h2.brk, h2.mapped), h.contiguous, h.sbrk_base)
      /\ Tagged(h2.hdr, h.top, Members(h.bins))
      /\ Chunks(h2.hdr, h.top) = Chunks(h.hdr, h.top) /\ p # h.top
      /\ Vacant(h2.hdr, Start(h.hdr, p), End(h.hdr, p))
  BY ONLY <1>1, RemoveMapped,
     RemovesMapped(h.hdr, p, Space(h.brk, h.mapped), Space(h2.brk, h2.mapped), h2.hdr)
<1>4. /\ DOMAIN h2.hdr = DOMAIN h.hdr \ {p} /\ h.hdr[p].mmapped
      /\ \A q \in DOMAIN h2.hdr : h2.hdr[q] = h.hdr[q]
  BY DEF RemovesMapped
<1>5. h.top \in DOMAIN h.hdr BY TopFacts
<1>6. p \notin Chunks(h.hdr, h.top) BY ONLY <1>4 DEF Chunks
<1>7. p \notin Listed(h) /\ p \notin Members(h.bins)
  BY ONLY <1>6, HeapOK(h, u, {}, t), NoChunk
<1>8. DOMAIN u2 = DOMAIN u \ {p} /\ \A x \in DOMAIN u : x # p => u2[x] = u[x]
  BY ONLY u2 = Without(u, p) DEF Without
<1>9. Untouched(h, u, h2, u2, {p}) BY ONLY <1>2, <1>4, <1>8 DEF Untouched
<1>10. Disposed(h2, u2, {p}) BY ONLY <1>4, <1>8 DEF Disposed, Chunks
<1>11. Bounds(h2)
  <2>1. h2.hdr[h.top] = h.hdr[h.top] BY ONLY <1>3, <1>4, <1>5
  <2>2. Bounds(h) BY DEF HeapOK
  <2> QED BY ONLY <2>1, <2>2, <1>2 DEF Bounds, End
<1>12. /\ Shape(h2.hdr, h2.top, Space(h2.brk, h2.mapped), h2.contiguous, h2.sbrk_base)
       /\ Tagged(h2.hdr, h2.top, Members(h.bins))
  BY ONLY <1>2, <1>3
<1>13. Same(h, h2, Loose \cup Moving) BY ONLY Same(h, h2, Loose \cup {"hdr", "mapped"}) DEF Same, Moving
<1>14. {p} \cap Listed(h) = {} /\ {p} \cap Members(h.bins) = {} BY ONLY <1>7
<1>15. HeapOK(h2, u2, {}, t)
  BY ONLY HeapOK(h, u, {}, t), <1>9, <1>10, <1>11, <1>12, <1>13, <1>14, Rebuilt
<1> QED BY ONLY <1>3, <1>15

\* What the header of a mapping in somebody's hands says.
HoldsMapping(h, u, p) ==
  /\ p \in DOMAIN h.hdr /\ h.hdr[p].mmapped /\ MappedAt(h.hdr, p) /\ p \in Nat
  /\ h.hdr[p].size \in Nat /\ h.hdr[p].prev_size \in Nat /\ h.hdr[p].prev_size <= p
  /\ Start(h.hdr, p) = p - h.hdr[p].prev_size /\ End(h.hdr, p) = p + h.hdr[p].size
  /\ h.hdr[p].mmapped = TRUE
  /\ u[p] = Mapping(h.hdr[p].size, h.hdr[p].prev_size) /\ aligned_OK(p) /\ p # h.top

\* What is known of a chunk that mmap gave.
LEMMA MappedFacts ==
  ASSUME NEW h, NEW u, NEW F, NEW t, HeapOK(h, u, F, t), NEW p \in DOMAIN u, u[p].mmapped
  PROVE  HoldsMapping(h, u, p)
<1>1. p \in DOMAIN h.hdr /\ u[p] = Face(h.hdr[p]) BY DEF HeapOK, Owned
<1>2. h.hdr[p].mmapped BY ONLY <1>1, u[p].mmapped DEF Face
<1>3. MappedAt(h.hdr, p) BY <1>1, <1>2 DEF HeapOK, Mapped, MappedAt
<1>4. /\ p \in Nat /\ h.hdr[p].size \in Nat /\ h.hdr[p].prev_size \in Nat
      /\ h.hdr[p].prev_size <= p /\ h.hdr[p].mmapped \in BOOLEAN /\ aligned_OK(p)
  BY <1>1, HeaderFacts
<1>5. Start(h.hdr, p) = p - h.hdr[p].prev_size /\ End(h.hdr, p) = p + h.hdr[p].size
  BY ONLY <1>2 DEF Start, End
<1>6. h.hdr[p].mmapped = TRUE BY ONLY <1>2, <1>4
<1>7. u[p] = Mapping(h.hdr[p].size, h.hdr[p].prev_size) BY ONLY <1>1, <1>6 DEF Face, Mapping
<1>8. p # h.top BY <1>2, TopFacts
<1> QED BY ONLY <1>1, <1>2, <1>3, <1>4, <1>5, <1>6, <1>7, <1>8 DEF HoldsMapping

\* munmap_chunk
LEMMA Unmapped ==
  ASSUME NEW h, NEW u, NEW t, HeapOK(h, u, {}, t), NEW p \in DOMAIN u, u[p].mmapped,
         NEW h2, h2 = munmap_chunk(h, p), NEW u2, u2 = Without(u, p)
  PROVE  /\ HeapOK(h2, u2, {}, t) /\ Same(h, h2, {"hdr", "n_mmaps", "mapped", "abort"})
         /\ h.abort => h2.abort
<1> DEFINE a == p - h.hdr[p].prev_size
           s == h.hdr[p].prev_size + h.hdr[p].size
           hA == Require(h, a % Pagesize = 0 /\ s % Pagesize = 0)
           hB == Forget(hA, p)
<1>1. h2 = [hB EXCEPT !.n_mmaps = @ - 1, !.mapped = @ \ Pages(a, s)]
  BY DEF munmap_chunk, chunksize
<1>2. hA = Require(h, a % Pagesize = 0 /\ s % Pagesize = 0) /\ hB = Forget(hA, p)
      /\ a = p - h.hdr[p].prev_size /\ s = h.hdr[p].prev_size + h.hdr[p].size
  OBVIOUS
<1>3. /\ p \in DOMAIN h.hdr /\ h.hdr[p].mmapped /\ MappedAt(h.hdr, p) /\ p \in Nat
      /\ h.hdr[p].size \in Nat /\ h.hdr[p].prev_size \in Nat /\ h.hdr[p].prev_size <= p
      /\ Start(h.hdr, p) = a /\ End(h.hdr, p) = p + h.hdr[p].size
  <2>1. /\ p \in DOMAIN h.hdr /\ h.hdr[p].mmapped /\ MappedAt(h.hdr, p) /\ p \in Nat
        /\ h.hdr[p].size \in Nat /\ h.hdr[p].prev_size \in Nat /\ h.hdr[p].prev_size <= p
        /\ Start(h.hdr, p) = p - h.hdr[p].prev_size /\ End(h.hdr, p) = p + h.hdr[p].size
    <3>1. HoldsMapping(h, u, p) BY MappedFacts
    <3> QED BY ONLY <3>1 DEF HoldsMapping
  <2>2. Start(h.hdr, p) = a BY ONLY <1>2, <2>1
  <2> QED BY ONLY <2>1, <2>2
<1> HIDE DEF a, s, hA, hB
<1>4. /\ a \in Nat /\ s \in Nat /\ a + s = End(h.hdr, p) BY ONLY <1>2, <1>3
<1>5. a % Pagesize = 0 /\ s % Pagesize = 0 BY ONLY <1>2, <1>3 DEF MappedAt
<1>6. Rec(h) BY DEF HeapOK
<1>7. Same(h, hA, {"abort"}) /\ (h.abort => hA.abort) BY ONLY <1>2, <1>6, RequireSame
<1>8. Forgot(hA, hB, p)
  <2>1. Rec(hA) BY ONLY <1>7 DEF Same
  <2> QED BY ONLY <2>1, <1>2, Forgotten
<1>9. Same(hB, h2, {"n_mmaps", "mapped"}) /\ h2.mapped = hB.mapped \ Pages(a, s)
  <2>1. Rec(hB) BY ONLY <1>8 DEF Forgot, Same
  <2> QED BY ONLY <2>1, <1>1 DEF Rec, Same, Fields
<1>10. /\ Same(h, h2, {"hdr", "n_mmaps", "mapped", "abort"}) /\ h2.mapped = h.mapped \ Pages(a, s)
       /\ h2.hdr = hB.hdr /\ h2.brk = h.brk /\ (h.abort => h2.abort)
  BY ONLY <1>7, <1>8, <1>9 DEF Forgot, Same, Fields
<1>11. DOMAIN h2.hdr = DOMAIN h.hdr \ {p} /\ \A q \in DOMAIN h2.hdr : h2.hdr[q] = h.hdr[q]
  <2>1. hA.hdr = h.hdr BY ONLY <1>7 DEF Same, Fields
  <2> QED BY ONLY <2>1, <1>8, <1>10 DEF Forgot
<1>12. RemovesMapped(h.hdr, p, Space(h.brk, h.mapped), Space(h2.brk, h2.mapped), h2.hdr)
  <2>1. ASSUME NEW z \in Space(h.brk, h.mapped), z \in Nat, ~(a <= z /\ z < a + s)
        PROVE  z \in Space(h2.brk, h2.mapped)
    <3>1. h.brk \in Nat
      <4>1. h.brk \in BrkStart .. HeapEnd BY DEF HeapOK, Bounds
      <4> QED BY ONLY <4>1, System
    <3>2. z \in Space(h.brk, h.mapped \ Pages(a, s))
      BY ONLY <2>1, <3>1, <1>4, <1>5, LessSpace
    <3> QED BY ONLY <3>2, <1>10
  <2> QED BY ONLY <2>1, <1>3, <1>4, <1>11 DEF RemovesMapped
<1>13. Same(h, h2, Loose \cup {"hdr", "mapped"}) BY ONLY <1>10 DEF Same, Loose
<1>14. HeapOK(h2, u2, {}, t)
  BY ONLY HeapOK(h, u, {}, t), p \in DOMAIN u, <1>12, <1>13, u2 = Without(u, p), MappedRemoved
<1> QED BY ONLY <1>10, <1>14

\* A mapping of n bytes, its chunk o bytes from the start.
FillsHole(h, h2, a, n, o) ==
  /\ n \in Nat /\ n % Pagesize = 0 /\ a \in MmapHoles(h, n)
  /\ o \in Nat /\ aligned_OK(o) /\ n - o >= MINSIZE
  /\ Same(h, h2, Loose \cup {"hdr", "mapped"}) /\ h2.mapped = h.mapped \cup Pages(a, n)
  /\ h2.hdr = With(h.hdr, a + o, Header(n - o, o, TRUE))

\* A mapping in a hole that no chunk is in.
LEMMA HoleFilled ==
  ASSUME NEW h, NEW u, NEW t, HeapOK(h, u, {}, t), NEW h2, NEW a, NEW n, NEW o,
         FillsHole(h, h2, a, n, o),
         NEW u2, u2 = With(u, a + o, Mapping(n - o, o))
  PROVE  /\ HeapOK(h2, u2, {}, t)
         /\ a + o \notin DOMAIN u /\ a > 0 /\ aligned_OK(a + o) /\ a \in Nat /\ a + o \notin DOMAIN h.hdr
<1> DEFINE p == a + o
           s == n - o
<1>0. /\ n \in Nat /\ n % Pagesize = 0 /\ a \in MmapHoles(h, n)
      /\ o \in Nat /\ aligned_OK(o) /\ n - o >= MINSIZE
      /\ Same(h, h2, Loose \cup {"hdr", "mapped"}) /\ h2.mapped = h.mapped \cup Pages(a, n)
      /\ h2.hdr = With(h.hdr, a + o, Header(n - o, o, TRUE))
  BY DEF FillsHole
<1>1. h.brk \in BrkStart .. HeapEnd BY DEF HeapOK, Bounds
<1>2. MINSIZE \in Nat /\ MINSIZE > 0 BY Units
<1>3. n > 0 /\ s \in Nat /\ s > 0 /\ s >= MINSIZE /\ o + s = n
  BY ONLY <1>0, <1>2
<1>4. /\ a \in Nat /\ a > 0 /\ a % Pagesize = 0 /\ MmapStart <= a
      /\ \A z \in Nat : a <= z /\ z < a + n =>
           z \notin Space(h.brk, h.mapped) /\ z \in Space(h.brk, h.mapped \cup Pages(a, n))
  BY ONLY <1>0, <1>1, <1>3, HoleSpace
<1>5. p \in Nat /\ 0 < p /\ p - o = a /\ o <= p /\ p + s = a + n BY ONLY <1>0, <1>3, <1>4
<1>6. h2.brk = h.brk BY ONLY <1>0 DEF Same, Fields, Loose
<1>d. p = a + o /\ s = n - o OBVIOUS
<1> HIDE DEF p, s
<1>7. /\ DOMAIN h2.hdr = DOMAIN h.hdr \cup {p} /\ h2.hdr[p] = Hd(s, FALSE, o, TRUE)
      /\ \A q \in DOMAIN h.hdr : q # p => h2.hdr[q] = h.hdr[q]
  <2>1. h2.hdr = With(h.hdr, p, Header(s, o, TRUE)) BY <1>0, <1>d
  <2> QED BY ONLY <2>1 DEF With, Header, Hd
<1>8. aligned_OK(p)
  <2>1. a \in Int /\ o \in Int BY ONLY <1>0, <1>4
  <2>2. aligned_OK(a) BY ONLY <2>1, <1>4, PageAligned
  <2> QED BY ONLY <2>1, <2>2, <1>0, <1>d, AlignedSum
<1>9. Vacant(h.hdr, a, a + n)
  <2>1. Shape(h.hdr, h.top, Space(h.brk, h.mapped), h.contiguous, h.sbrk_base) BY LaidOut
  <2>2. a + n \in Nat /\ a < a + n BY ONLY <1>0, <1>3, <1>4
  <2>3. \A z \in Nat : a <= z /\ z < a + n => z \notin Space(h.brk, h.mapped) BY ONLY <1>4
  <2> QED BY ONLY <1>4, <2>1, <2>2, <2>3, VacantOutside
<1>10. AddsMapped(h.hdr, p, s, o, Space(h.brk, h.mapped), Space(h2.brk, h2.mapped), h2.hdr)
  <2>1. Space(h.brk, h.mapped) \subseteq Space(h2.brk, h2.mapped)
    <3>1. h.brk \in Nat /\ h.brk <= h.brk BY ONLY <1>1, System
    <3>2. h.mapped \subseteq h2.mapped BY ONLY <1>0
    <3> QED BY ONLY <3>1, <3>2, <1>6, MoreSpace
  <2>2. \A z \in Nat : p - o <= z /\ z < p + s => z \in Space(h2.brk, h2.mapped)
    BY ONLY <1>0, <1>4, <1>5, <1>6
  <2>3. Vacant(h.hdr, p - o, p + s) BY ONLY <1>5, <1>9
  <2> QED BY ONLY <1>3, <1>5, <1>7, <1>8, <2>1, <2>2, <2>3, <1>0 DEF AddsMapped
<1>11. p - o >= MmapStart /\ (p - o) % Pagesize = 0 /\ (o + s) % Pagesize = 0
  <2>1. MmapStart \in Nat BY System
  <2> QED BY ONLY <2>1, <1>0, <1>3, <1>4, <1>5
<1>12. u2 = With(u, p, Mapping(s, o)) BY <1>d
<1>13. HeapOK(h2, u2, {}, t) /\ p \notin DOMAIN u /\ p \notin DOMAIN h.hdr
  <2>1. Maps(h, h2, p, s, o) BY ONLY <1>0, <1>3, <1>10, <1>11 DEF Maps
  <2> QED BY ONLY HeapOK(h, u, {}, t), <2>1, <1>12, MappedAdded
<1> QED BY ONLY <1>4, <1>8, <1>13, <1>d

\* sysmalloc maps a chunk by itself.
LEMMA Mmapped ==
  ASSUME NEW h, NEW u, NEW t, HeapOK(h, u, {}, t),
         NEW s \in Nat, s % Pagesize = 0, s >= MINSIZE, NEW a \in MmapHoles(h, s),
         NEW h2, h2 = mmapped_chunk(h, a, s), NEW u2, u2 = With(u, a, Mapping(s, 0))
  PROVE  /\ HeapOK(h2, u2, {}, t) /\ Same(h, h2, {"hdr", "n_mmaps", "mapped"})
         /\ a \notin DOMAIN u /\ a # NIL /\ aligned_OK(a) /\ a \in Nat
<1>1. /\ Same(h, h2, {"hdr", "n_mmaps", "mapped"}) /\ h2.mapped = h.mapped \cup Pages(a, s)
      /\ h2.hdr = With(h.hdr, a, Header(s, 0, TRUE))
  <2>1. Rec(h) BY DEF HeapOK
  <2> QED BY ONLY <2>1, h2 = mmapped_chunk(h, a, s) DEF mmapped_chunk, Rec, Same, Fields
<1>2. a \in Nat
  <2>1. h.brk \in BrkStart .. HeapEnd BY DEF HeapOK, Bounds
  <2>2. MINSIZE \in Nat /\ MINSIZE > 0 BY Units
  <2>3. s > 0 BY ONLY <2>2, s \in Nat, s >= MINSIZE
  <2> QED BY ONLY <2>1, <2>3, s \in Nat, s % Pagesize = 0, a \in MmapHoles(h, s), HoleSpace
<1>3. a + 0 = a /\ s - 0 = s /\ 0 \in Nat /\ aligned_OK(0) BY ONLY <1>2, s \in Nat, Units
<1>4. /\ h2.hdr = With(h.hdr, a + 0, Header(s - 0, 0, TRUE)) /\ u2 = With(u, a + 0, Mapping(s - 0, 0))
      /\ s - 0 >= MINSIZE
  BY ONLY <1>1, <1>3, u2 = With(u, a, Mapping(s, 0)), s >= MINSIZE
<1>5. Same(h, h2, Loose \cup {"hdr", "mapped"}) BY ONLY <1>1 DEF Same, Loose
<1>6. /\ HeapOK(h2, u2, {}, t) /\ a + 0 \notin DOMAIN u /\ a > 0 /\ aligned_OK(a + 0)
  <2>1. FillsHole(h, h2, a, s, 0)
    BY ONLY s \in Nat, s % Pagesize = 0, a \in MmapHoles(h, s), <1>1, <1>3, <1>4, <1>5 DEF FillsHole
  <2> QED BY ONLY HeapOK(h, u, {}, t), <2>1, <1>4, HoleFilled
<1> QED BY ONLY <1>1, <1>2, <1>3, <1>6 DEF NIL


\* The mapping of p, moved to b or resized: n bytes, p stays o bytes from its start.
RemapsTo(h, u, p, o, n, hA, b, h2) ==
  /\ p \in DOMAIN u /\ u[p].mmapped /\ o = h.hdr[p].prev_size
  /\ n \in Nat /\ n % Pagesize = 0 /\ n - o >= MINSIZE
  /\ hA = [h EXCEPT !.mapped = @ \ Pages(p - o, o + h.hdr[p].size)]
  /\ b \in MmapHoles(hA, n) \/ b \in MmapHoles(h, n)
  /\ h2 = [Forget(hA, p) EXCEPT !.hdr = With(@, b + o, Header(n - o, o, TRUE)),
                                !.mapped = @ \union Pages(b + o - o, n)]

\* realloc's mremap: the mapping keeps its offset and moves or changes its size.
LEMMA Remapped ==
  ASSUME NEW h, NEW u, NEW t, HeapOK(h, u, {}, t),
         NEW p, NEW o, NEW n, NEW hA, NEW b, NEW h2, RemapsTo(h, u, p, o, n, hA, b, h2),
         NEW u2, u2 = With(Without(u, p), b + o, Mapping(n - o, o))
  PROVE  /\ HeapOK(h2, u2, {}, t) /\ Same(h, h2, {"hdr", "mapped"})
         /\ b + o \notin DOMAIN Without(u, p) /\ b \in Nat /\ b > 0 /\ o \in Nat
         /\ aligned_OK(b + o)
<1>0. PICK a, s :
        /\ p \in DOMAIN u /\ u[p].mmapped /\ o = h.hdr[p].prev_size
        /\ n \in Nat /\ n % Pagesize = 0 /\ n - o >= MINSIZE
        /\ a = p - o /\ s = o + h.hdr[p].size
        /\ hA = [h EXCEPT !.mapped = @ \ Pages(a, s)]
        /\ b \in MmapHoles(hA, n) \/ b \in MmapHoles(h, n)
        /\ h2 = [Forget(hA, p) EXCEPT !.hdr = With(@, b + o, Header(n - o, o, TRUE)),
                                      !.mapped = @ \union Pages(b + o - o, n)]
  BY ONLY RemapsTo(h, u, p, o, n, hA, b, h2), Zenon DEF RemapsTo
<1> DEFINE hB == Forget(hA, p)
           v == Without(u, p)
<1>1. HoldsMapping(h, u, p) BY ONLY HeapOK(h, u, {}, t), <1>0, MappedFacts
<1>2. /\ p \in DOMAIN h.hdr /\ h.hdr[p].mmapped /\ MappedAt(h.hdr, p) /\ p \in Nat
      /\ h.hdr[p].size \in Nat /\ o \in Nat /\ o <= p
      /\ Start(h.hdr, p) = a /\ End(h.hdr, p) = p + h.hdr[p].size
  BY ONLY <1>0, <1>1 DEF HoldsMapping
<1>3. a \in Nat /\ s \in Nat /\ a + s = End(h.hdr, p) BY ONLY <1>2, <1>0
<1>4. a % Pagesize = 0 /\ s % Pagesize = 0 /\ aligned_OK(o)
  BY ONLY <1>2, <1>0 DEF MappedAt
<1>5. Rec(h) BY DEF HeapOK
<1>6. Same(h, hA, {"mapped"}) /\ hA.mapped = h.mapped \ Pages(a, s)
  BY ONLY <1>5, <1>0 DEF Rec, Same, Fields
<1>7. Forgot(hA, hB, p) /\ Rec(hB)
  <2>1. Rec(hA) BY ONLY <1>6 DEF Same
  <2>2. Forgot(hA, hB, p) BY ONLY <2>1, Forgotten
  <2> QED BY ONLY <2>2 DEF Forgot, Same
<1>b. h2 = [hB EXCEPT !.hdr = With(@, b + o, Header(n - o, o, TRUE)), !.mapped = @ \union Pages(b + o - o, n)]
      /\ v = Without(u, p)
  BY <1>0
<1> HIDE DEF hB, v
<1>8. /\ Same(h, hB, {"hdr", "mapped"}) /\ hB.mapped = h.mapped \ Pages(a, s) /\ hB.brk = h.brk
      /\ DOMAIN hB.hdr = DOMAIN h.hdr \ {p} /\ \A q \in DOMAIN hB.hdr : hB.hdr[q] = h.hdr[q]
  BY ONLY <1>6, <1>7 DEF Same, Fields, Forgot
<1>9. RemovesMapped(h.hdr, p, Space(h.brk, h.mapped), Space(hB.brk, hB.mapped), hB.hdr)
  <2>1. ASSUME NEW z \in Space(h.brk, h.mapped), z \in Nat, ~(a <= z /\ z < a + s)
        PROVE  z \in Space(hB.brk, hB.mapped)
    <3>1. h.brk \in Nat
      <4>1. h.brk \in BrkStart .. HeapEnd BY DEF HeapOK, Bounds
      <4> QED BY ONLY <4>1, System
    <3>2. z \in Space(h.brk, h.mapped \ Pages(a, s))
      BY ONLY <2>1, <3>1, <1>3, <1>4, LessSpace
    <3> QED BY ONLY <3>2, <1>8
  <2> QED BY ONLY <2>1, <1>2, <1>3, <1>8 DEF RemovesMapped
<1>10. HeapOK(hB, v, {}, t)
  <2>1. Same(h, hB, Loose \cup {"hdr", "mapped"}) BY ONLY <1>8 DEF Same
  <2> QED BY ONLY HeapOK(h, u, {}, t), <1>0, <2>1, <1>9, <1>b, MappedRemoved
<1>11. b \in MmapHoles(hB, n)
  <2>1. hB.mapped = hA.mapped /\ hB.mapped \subseteq h.mapped BY ONLY <1>6, <1>8
  <2>2. b \in MmapHoles(hA, n) \/ b \in MmapHoles(h, n) BY ONLY <1>0
  <2> QED BY ONLY <2>1, <2>2 DEF MmapHoles
<1>12. b \in Nat
  <2>1. hB.brk \in BrkStart .. HeapEnd BY <1>10 DEF HeapOK, Bounds
  <2>2. MINSIZE \in Nat /\ MINSIZE > 0 BY Units
  <2>3. n > 0 BY ONLY <2>2, <1>2, <1>0
  <2> QED BY ONLY <2>1, <2>3, <1>11, <1>0, HoleSpace
<1>13. b + o - o = b BY ONLY <1>2, <1>12
<1>14. /\ Same(hB, h2, {"hdr", "mapped"}) /\ h2.mapped = hB.mapped \cup Pages(b, n)
       /\ h2.hdr = With(hB.hdr, b + o, Header(n - o, o, TRUE))
  BY ONLY <1>7, <1>b, <1>13 DEF Rec, Same, Fields
<1>15. Same(hB, h2, Loose \cup {"hdr", "mapped"}) BY ONLY <1>14 DEF Same
<1>16. u2 = With(v, b + o, Mapping(n - o, o)) BY <1>b
<1>17. /\ HeapOK(h2, u2, {}, t)
       /\ b + o \notin DOMAIN v /\ b > 0 /\ aligned_OK(b + o)
  <2>2. n \in Nat /\ n % Pagesize = 0 /\ n - o >= MINSIZE BY ONLY <1>0, Zenon
  <2>1. FillsHole(hB, h2, b, n, o)
    BY ONLY <2>2, <1>11, <1>2, <1>4, <1>14, <1>15 DEF FillsHole
  <2> QED BY ONLY <1>10, <2>1, <1>16, HoleFilled
<1>18. Same(h, h2, {"hdr", "mapped"}) BY ONLY <1>8, <1>14 DEF Same
<1> QED BY ONLY <1>2, <1>12, <1>17, <1>18, <1>b

\* memalign in a mapping: the chunk starts later, the mapping stays.
LEMMA Realigned ==
  ASSUME NEW h, NEW u, NEW t, HeapOK(h, u, {}, t), NEW p \in DOMAIN u, u[p].mmapped,
         NEW e, e = End(h.hdr, p), NEW n \in Nat, NEW o, o = h.hdr[p].prev_size + n - p,
         p <= n, n + MINSIZE <= e, aligned_OK(n),
         NEW h2, h2 = [Forget(h, p) EXCEPT !.hdr = With(@, n, Header(e - n, o, TRUE))],
         NEW u2, u2 = With(Without(u, p), n, Mapping(e - n, o))
  PROVE  /\ HeapOK(h2, u2, {}, t) /\ Same(h, h2, {"hdr"})
         /\ n \notin DOMAIN Without(u, p)
<1> DEFINE hB == Forget(h, p)
           v == Without(u, p)
           a == p - h.hdr[p].prev_size
           W == Space(h.brk, h.mapped)
           s == e - n
<1>1. HoldsMapping(h, u, p) BY MappedFacts
<1>2. /\ p \in DOMAIN h.hdr /\ h.hdr[p].mmapped /\ MappedAt(h.hdr, p) /\ p \in Nat
      /\ h.hdr[p].size \in Nat /\ h.hdr[p].prev_size \in Nat /\ h.hdr[p].prev_size <= p
      /\ Start(h.hdr, p) = a /\ e = p + h.hdr[p].size /\ aligned_OK(p)
  BY <1>1 DEF HoldsMapping
<1>3. MINSIZE \in Nat /\ MINSIZE > 0 BY Units
<1>4. /\ a \in Nat /\ e \in Nat /\ o \in Nat /\ s \in Nat /\ s > 0 /\ s >= MINSIZE /\ o <= n /\ n - o = a
      /\ n + s = e /\ o + s = h.hdr[p].prev_size + h.hdr[p].size
  BY ONLY <1>2, <1>3, o = h.hdr[p].prev_size + n - p, n \in Nat, p <= n, n + MINSIZE <= e
<1>5. aligned_OK(o)
  <2>1. aligned_OK(h.hdr[p].prev_size) BY ONLY <1>2 DEF MappedAt
  <2>2. h.hdr[p].prev_size \in Int /\ n \in Int /\ p \in Int /\ h.hdr[p].prev_size + n \in Int
    BY ONLY <1>2, n \in Nat
  <2>3. aligned_OK(h.hdr[p].prev_size + n) BY ONLY <2>1, <2>2, aligned_OK(n), AlignedSum
  <2> DEFINE x == h.hdr[p].prev_size + n
  <2>4. x \in Int /\ p \in Int /\ aligned_OK(x) /\ aligned_OK(p) /\ o = x - p
    BY ONLY <2>2, <2>3, <1>2, o = h.hdr[p].prev_size + n - p
  <2> HIDE DEF x
  <2> QED BY ONLY <2>4, AlignedSum
<1>6. a >= MmapStart /\ a % Pagesize = 0 /\ (o + s) % Pagesize = 0
  BY ONLY <1>2, <1>4 DEF MappedAt
<1>7. Rec(h) BY DEF HeapOK
<1>8. Forgot(h, hB, p) /\ Rec(hB)
  <2>2. Forgot(h, hB, p) BY ONLY <1>7, Forgotten
  <2> QED BY ONLY <2>2 DEF Forgot, Same
<1>b. h2 = [hB EXCEPT !.hdr = With(@, n, Header(s, o, TRUE))] /\ v = Without(u, p)
      /\ u2 = With(v, n, Mapping(s, o)) /\ W = Space(h.brk, h.mapped)
  OBVIOUS
<1> HIDE DEF hB, v, a, s, W
<1>9. /\ Same(h, hB, {"hdr"}) /\ hB.mapped = h.mapped /\ hB.brk = h.brk
      /\ DOMAIN hB.hdr = DOMAIN h.hdr \ {p} /\ \A q \in DOMAIN hB.hdr : hB.hdr[q] = h.hdr[q]
  BY ONLY <1>8 DEF Same, Fields, Forgot
<1>10. RemovesMapped(h.hdr, p, Space(h.brk, h.mapped), Space(hB.brk, hB.mapped), hB.hdr)
  BY ONLY <1>2, <1>9 DEF RemovesMapped
<1>11. HeapOK(hB, v, {}, t) /\ Vacant(hB.hdr, a, e)
  <2>1. Same(h, hB, Loose \cup {"hdr", "mapped"}) BY ONLY <1>9 DEF Same
  <2>2. HeapOK(hB, v, {}, t) /\ Vacant(hB.hdr, Start(h.hdr, p), End(h.hdr, p))
    BY ONLY HeapOK(h, u, {}, t), p \in DOMAIN u, <2>1, <1>10, <1>b, MappedRemoved
  <2> QED BY ONLY <2>2, <1>2, e = End(h.hdr, p)
<1>12. /\ Same(hB, h2, {"hdr"}) /\ h2.hdr = With(hB.hdr, n, Header(s, o, TRUE))
  BY ONLY <1>8, <1>b DEF Rec, Same, Fields
<1>13. h2.mapped = hB.mapped /\ h2.brk = hB.brk BY ONLY <1>12 DEF Same, Fields
<1>14. /\ DOMAIN h2.hdr = DOMAIN hB.hdr \cup {n} /\ h2.hdr[n] = Hd(s, FALSE, o, TRUE)
       /\ \A q \in DOMAIN hB.hdr : q # n => h2.hdr[q] = hB.hdr[q]
  BY ONLY <1>12 DEF With, Header, Hd
<1>15. \A z \in Nat : a <= z /\ z < e => z \in W
  <2>1. Shape(h.hdr, h.top, Space(h.brk, h.mapped), h.contiguous, h.sbrk_base) BY LaidOut
  <2> QED BY ONLY <2>1, <1>2, <1>b, e = End(h.hdr, p) DEF Shape, Inside
<1>16. AddsMapped(hB.hdr, n, s, o, Space(hB.brk, hB.mapped), Space(h2.brk, h2.mapped), h2.hdr)
  <2>1. Space(hB.brk, hB.mapped) = W /\ Space(h2.brk, h2.mapped) = W BY ONLY <1>9, <1>13, <1>b
  <2>2. Vacant(hB.hdr, n - o, n + s) BY ONLY <1>4, <1>11
  <2>3. \A z \in Nat : n - o <= z /\ z < n + s => z \in W BY ONLY <1>4, <1>15
  <2>4. 0 < n
    <3>1. MmapStart \in Nat /\ 0 < MmapStart BY System
    <3> QED BY ONLY <3>1, <1>4, <1>6, n \in Nat
  <2> QED BY ONLY <2>1, <2>2, <2>3, <2>4, <1>4, <1>14, n \in Nat, aligned_OK(n) DEF AddsMapped
<1>17. /\ n - o >= MmapStart /\ (n - o) % Pagesize = 0 BY ONLY <1>4, <1>6
<1>18. Same(hB, h2, Loose \cup {"hdr", "mapped"}) BY ONLY <1>12 DEF Same
<1>19. HeapOK(h2, u2, {}, t) /\ n \notin DOMAIN v
  <2>1. Maps(hB, h2, n, s, o) BY ONLY <1>4, <1>5, <1>6, <1>16, <1>17, <1>18 DEF Maps
  <2> QED BY ONLY <1>11, <2>1, <1>b, MappedAdded
<1>20. Same(h, h2, {"hdr"}) BY ONLY <1>9, <1>12 DEF Same
<1> QED BY ONLY <1>19, <1>20, <1>b

=============================================================================
