------------------------------ MODULE Ptmalloc ------------------------------
(***************************************************************************)
(* The main arena of docs/malloc-impl.c, as one thread at a time sees it:  *)
(* what happens between taking and releasing the arena's mutex.  The steps *)
(* that other threads take without the mutex are in FastBins.              *)
(*                                                                         *)
(* heap is the arena, the tunables and the memory it manages.  Only chunk  *)
(* headers are memory: heap.hdr maps the address of every chunk to its     *)
(* header.  A header that becomes part of another chunk is forgotten, and  *)
(* prev_size is zero while the previous chunk is in use (user data then).  *)
(* A bin is the sequence of its chunks from first to last; bins, fast bins *)
(* and tcache entries that are empty are not in the domain.  The skip list *)
(* of a large bin is the set heads of its chunks with fd_nextsize # NULL.  *)
(***************************************************************************)
EXTENDS MallocSizes, SequencesExt

CONSTANTS
  Pagesize, BrkStart, HeapEnd,   \* sbrk serves [BrkStart, HeapEnd)
  MmapStart, MmapEnd,            \* mmap serves whole pages of [MmapStart, MmapEnd)
  MMAP_AS_MORECORE_SIZE, DEFAULT_MMAP_THRESHOLD, DEFAULT_MMAP_THRESHOLD_MAX,
  DEFAULT_TRIM_THRESHOLD, DEFAULT_TOP_PAD, FASTBIN_CONSOLIDATION_THRESHOLD,
  DEFAULT_MMAP_MAX, HEAP_MAX_SIZE,
  TcacheStruct,                  \* sizeof (tcache_perthread_struct)
  TcacheBins, TcacheCount, TcacheUnsortedLimit, MAX_ITERS,
  Programs     \* what is called: sequences of sets of calls to choose from

\* Chunks are aligned to their headers, sbrk and mmap serve ranges of their own.
ASSUME SystemAssumption ==
  /\ MALLOC_ALIGNMENT = CHUNK_HDR_SZ
  /\ Pagesize \in Nat /\ Pagesize % MALLOC_ALIGNMENT = 0 /\ Pagesize >= 2 * MINSIZE
  /\ {BrkStart, HeapEnd, MmapStart, MmapEnd, MMAP_AS_MORECORE_SIZE} \subseteq Nat
  /\ 0 < BrkStart /\ BrkStart <= HeapEnd /\ HeapEnd <= MmapStart /\ MmapStart <= MmapEnd
  /\ MmapStart % Pagesize = 0 /\ MMAP_AS_MORECORE_SIZE % Pagesize = 0
  /\ {DEFAULT_MMAP_THRESHOLD, DEFAULT_MMAP_THRESHOLD_MAX, DEFAULT_TRIM_THRESHOLD, DEFAULT_TOP_PAD,
      FASTBIN_CONSOLIDATION_THRESHOLD, DEFAULT_MMAP_MAX, HEAP_MAX_SIZE, TcacheStruct,
      TcacheBins, TcacheCount, TcacheUnsortedLimit, MAX_ITERS} \subseteq Nat

\* What a program can call.  The nth block is one that it has: no program frees
\* a block twice.  Others who use sbrk do not take memory back.
Requests ==
  [op : {"malloc", "calloc"}, bytes : Nat]
    \union [op : {"memalign"}, alignment : 0 .. 2 ^ 20 * MALLOC_ALIGNMENT, bytes : Nat]
    \union [op : {"realloc"}, nth : Nat, bytes : Nat]
    \union [op : {"free"}, nth : Nat]
    \union [op : {"malloc_trim", "thread_exit"}]
    \union [op : {"mallopt"}, value : Nat,
            param : {"M_MXFAST", "M_TRIM_THRESHOLD", "M_TOP_PAD", "M_MMAP_THRESHOLD", "M_MMAP_MAX"}]
    \union [op : {"sbrk"}, increment : Nat]

ASSUME ProgramsAssumption == Programs \subseteq Seq(SUBSET Requests)

VARIABLES
  heap,
  call,    \* the call under way
  live,    \* block in use -> the size it was asked for
  program  \* what is still to be called

vars == <<heap, call, live, program>>

NIL == 0          \* no chunk; also the address of initial_top
UNSORTED == 1     \* the bin of unsorted_chunks
NONE == -1        \* tcache = NULL
SHUT == -2        \* tcache = NULL and tcache_shutting_down

At(f, i) == IF i \in DOMAIN f THEN f[i] ELSE << >>
With(f, x, v) == [y \in DOMAIN f \union {x} |-> IF y = x THEN v ELSE f[y]]
Put(f, i, s) == IF s = << >> THEN Restrict(f, DOMAIN f \ {i}) ELSE With(f, i, s)

----------------------------------------------------------------------------
(* Physical chunk operations. *)

Pages(a, size) == {a + k * Pagesize : k \in 0 .. (size \div Pagesize - 1)}

Header(size, offset, mm) ==
  [size |-> size, prev_inuse |-> ~mm, prev_size |-> offset, mmapped |-> mm]

chunksize(h, p) == h.hdr[p].size
next_chunk(h, p) == p + chunksize(h, p)
inuse(h, p) == h.hdr[next_chunk(h, p)].prev_inuse

set_head(h, p, size) == [h EXCEPT !.hdr = With(@, p, Header(size, 0, FALSE))]
set_head_size(h, p, size) == [h EXCEPT !.hdr[p].size = size]
set_foot(h, p, size) == [h EXCEPT !.hdr[p + size].prev_size = size]
clear_inuse_bit(h, q) == [h EXCEPT !.hdr[q].prev_inuse = FALSE]
set_inuse_bit(h, q) ==
  [h EXCEPT !.hdr[q].prev_inuse = TRUE, !.hdr[q].prev_size = 0]
Forget(h, q) == [h EXCEPT !.hdr = Restrict(@, DOMAIN @ \ {q})]

\* malloc_printerr or a failed assertion ends the program.
Require(h, condition) == [h EXCEPT !.abort = @ \/ ~condition]

unlink_from(h, p, i, k) ==
  LET s == h.bins[i]
  IN [Require(h, chunksize(h, p) = h.hdr[next_chunk(h, p)].prev_size) EXCEPT
        !.bins = Put(@, i, RemoveAt(s, k)),
        !.heads = IF p \notin @ THEN @
                  ELSE (@ \ {p}) \union (IF k < Len(s) THEN {s[k + 1]} ELSE {})]

\* A chunk behind one of the skip list takes its place there.
unlink_chunk(h, p) ==
  LET i == CHOOSE b \in DOMAIN h.bins : p \in Range(h.bins[b])
  IN unlink_from(h, p, i, CHOOSE n \in DOMAIN h.bins[i] : h.bins[i][n] = p)

link_unsorted(h, p) ==
  [h EXCEPT !.bins = Put(@, UNSORTED, <<p>> \o At(@, UNSORTED))]

merge_start(h, p) == IF h.hdr[p].prev_inuse THEN p ELSE p - h.hdr[p].prev_size

\* p becomes part of the free chunk q before it.
consolidate_backward(h, p, q) ==
  IF q = p THEN h
  ELSE Forget(set_head_size(unlink_chunk(Require(h, chunksize(h, q) = p - q), q),
                            q, next_chunk(h, p) - q), p)

into_top(h, p, n) ==
  Forget(set_head([h EXCEPT !.top = p], p, next_chunk(h, n) - p), n)

\* The footer of a free chunk is forgotten.
MutIntoUnsorted(h, p) == set_head(link_unsorted(h, p), p, chunksize(h, p))

into_unsorted(h, p) ==
  set_foot(set_head(link_unsorted(h, p), p, chunksize(h, p)), p, chunksize(h, p))

consolidate_forward(h, p, n) ==
  IF n = h.top THEN into_top(h, p, n)
  ELSE into_unsorted(IF inuse(h, n) THEN clear_inuse_bit(h, n)
                     ELSE Forget(set_head_size(unlink_chunk(h, n), p, next_chunk(h, n) - p), n),
                     p)

\* The common part of _int_free and malloc_consolidate: a chunk that no fast
\* bin and no cache takes is merged with its free neighbours or with top.
Merge(h, p) ==
  consolidate_forward(consolidate_backward(h, p, merge_start(h, p)),
                      merge_start(h, p), next_chunk(h, p))

MergeAll(h, s) ==
  LET merged[n \in 0 .. Len(s)] == IF n = 0 THEN h ELSE Merge(merged[n - 1], s[n])
  IN merged[Len(s)]

consolidate_bin(h, i) == MergeAll([h EXCEPT !.fast = Put(@, i, << >>)], At(h.fast, i))

\* One fast bin after the other is emptied.
malloc_consolidate(h) ==
  LET done[i \in 0 .. NFASTBINS] ==
        IF i = 0 THEN [h EXCEPT !.have_fastchunks = FALSE] ELSE consolidate_bin(done[i - 1], i - 1)
  IN done[NFASTBINS]

\* Nothing happens if someone else has moved the break.
release(h, extra) ==
  IF h.brk # next_chunk(h, h.top) \/ h.brk - extra > HeapEnd THEN h
  ELSE [set_head_size(h, h.top, chunksize(h, h.top) - extra) EXCEPT
          !.brk = @ - extra,
          !.system_mem = @ - extra]

\* top_area is a long, pad a size_t: a negative top_area counts as huge.
systrim(h, pad) ==
  LET top_area == chunksize(h, h.top) - MINSIZE - 1
  IN IF top_area \in 0 .. pad THEN h
     ELSE release(h, ALIGN_DOWN(top_area - pad, Pagesize))

----------------------------------------------------------------------------
(* The thread cache, free, and memory that mmap gave. *)

\* A fencepost has the smallest size but, unlike zero, PREV_INUSE with it.
NextSizeOK(h, p) ==
  LET next == h.hdr[next_chunk(h, p)]
  IN /\ next.size + (IF next.prev_inuse THEN 1 ELSE 0) > CHUNK_HDR_SZ
     /\ next.size < h.system_mem

\* tcache && tc_idx < mp_.tcache_bins
Cacheable(h, size) == h.tcache \notin {NONE, SHUT} /\ csize2tidx(size) < TcacheBins
Room(h, size) == TcacheCount - Len(At(h.entries, csize2tidx(size)))

tcache_put(h, p) ==
  LET i == csize2tidx(chunksize(h, p))
  IN [h EXCEPT !.entries = Put(@, i, <<p>> \o At(@, i))]

tcache_get(h, i) == [h EXCEPT !.entries = Put(@, i, Tail(@[i]))]

trim_large_top(h) ==
  IF chunksize(h, h.top) < h.trim_threshold THEN h ELSE systrim(h, h.top_pad)

trim_after(h, merged) ==
  IF chunksize(h, merged) < FASTBIN_CONSOLIDATION_THRESHOLD THEN h
  ELSE trim_large_top(IF h.have_fastchunks THEN malloc_consolidate(h) ELSE h)

\* Past the fast bins.
free_chunk(h, p) ==
  trim_after(Merge(Require(h, /\ p # h.top
                              /\ h.contiguous => next_chunk(h, p) < next_chunk(h, h.top)
                              /\ inuse(h, p)
                              /\ NextSizeOK(h, p)), p),
             merge_start(h, p))

\* With the mutex the size of the old head is checked, too; with one thread, all
\* chunks of a bin keep theirs (MallocStateOK).
free_to_fastbin(h, p, i) ==
  [Require(h, NextSizeOK(h, p) /\ (At(h.fast, i) # << >> => Head(h.fast[i]) # p)) EXCEPT
     !.have_fastchunks = TRUE,
     !.fast = Put(@, i, <<p>> \o At(@, i))]

\* free caches without a look at how many chunks the bin has.
MutFreeChecked(h, p, sz) ==
  IF Cacheable(h, sz) THEN tcache_put(h, p)
  ELSE IF sz <= h.max_fast THEN free_to_fastbin(h, p, fastbin_index(sz))
  ELSE free_chunk(h, p)

free_checked(h, p, sz) ==
  IF Cacheable(h, sz) /\ Room(h, sz) > 0 THEN tcache_put(h, p)
  ELSE IF sz <= h.max_fast THEN free_to_fastbin(h, p, fastbin_index(sz))
  ELSE free_chunk(h, p)

int_free(h, p) ==
  LET sz == chunksize(h, p)
  IN free_checked(Require(h, /\ sz >= MINSIZE
                             /\ aligned_OK(sz)
                             /\ aligned_OK(p)
                             /\ Cacheable(h, sz) => ~Contains(At(h.entries, csize2tidx(sz)), p)),
                  p, sz)

munmap_chunk(h, p) ==
  LET block == p - h.hdr[p].prev_size
      total_size == h.hdr[p].prev_size + chunksize(h, p)
  IN [Forget(Require(h, block % Pagesize = 0 /\ total_size % Pagesize = 0), p) EXCEPT
        !.n_mmaps = @ - 1,
        !.mapped = @ \ Pages(block, total_size)]

\* The pages that mmap(0, size) returns: the lowest hole, if there is one.
MmapHoles(h, size) ==
  {a \in Pages(MmapStart, MmapEnd - MmapStart) :
     a + size <= MmapEnd /\ Pages(a, size) \intersect h.mapped = {}}

mmapped_chunk(h, a, size) ==
  [h EXCEPT !.hdr = With(@, a, Header(size, 0, TRUE)),
            !.n_mmaps = @ + 1,
            !.mapped = @ \union Pages(a, size)]

\* sizes of two size_t and one chunk: what a mapping for nb needs.
mmap_size(nb) == ALIGN_UP(nb + SIZE_SZ, Pagesize)

----------------------------------------------------------------------------
(* Splitting. *)

Touch(h, a) == [h EXCEPT !.touched = IF a <= HeapEnd THEN Max({@, a}) ELSE @]

\* nb bytes from the low end of top.
carve_at(h, p, remainder) ==
  Touch([set_head(set_head(h, remainder, next_chunk(h, p) - remainder), p, remainder - p)
           EXCEPT !.top = remainder], remainder + CHUNK_HDR_SZ)

carve(h, n) == carve_at(h, h.top, h.top + n)

split_at(h, p, remainder, rest) ==
  set_foot(set_head(set_head(link_unsorted(h, remainder), p, remainder - p), remainder, rest),
           remainder, rest)

\* p, unlinked, serves n bytes: exhausted or split, the remainder to the unsorted bin.
split(h, p, n) ==
  IF chunksize(h, p) - n < MINSIZE THEN set_inuse_bit(h, next_chunk(h, p))
  ELSE split_at(h, p, p + n, chunksize(h, p) - n)

\* The remainder of realloc starts a chunk header too early.
MutGiveBack(h, newp, newsize, n) ==
  IF newsize - n < MINSIZE
  THEN set_inuse_bit(set_head_size(h, newp, newsize), newp + newsize)
  ELSE int_free(set_inuse_bit(set_head(set_head_size(h, newp, n - CHUNK_HDR_SZ), newp + n - CHUNK_HDR_SZ,
                                       newsize - n + CHUNK_HDR_SZ), newp + newsize),
                newp + n - CHUNK_HDR_SZ)

\* Realloc gives what newp, now of newsize bytes, has beyond nb back.
give_back(h, newp, newsize, n) ==
  IF newsize - n < MINSIZE
  THEN set_inuse_bit(set_head_size(h, newp, newsize), newp + newsize)
  ELSE int_free(set_inuse_bit(set_head(set_head_size(h, newp, n), newp + n, newsize - n),
                              newp + newsize),
                newp + n)

----------------------------------------------------------------------------
(* Calls.  call.pc is where the call is: at its "start"; at the "entry" of *)
(* _int_malloc, in its loop over the "unsorted" chunks, at the "scan" of   *)
(* the bins, at "top", in "sysmalloc" and past its "extended"; with what   *)
(* _int_malloc "got" in call.p; at its "return".  call.init: this          *)
(* _int_malloc is for tcache_init, and the call itself is still to start.  *)

NoCall ==
  [pc |-> "idle", op |-> "none", req |-> 0, align |-> MALLOC_ALIGNMENT, old |-> NIL,
   nb |-> 0, init |-> FALSE, tried |-> FALSE, cached |-> FALSE, seen |-> 0, iters |-> 0,
   oldtop |-> NIL, oldtopsize |-> 0, dirty |-> 0, clear |-> 0, copied |-> 0, p |-> NIL]

nb == call.nb
mmapped(p) == heap.hdr[p].mmapped

Init ==
  /\ heap = [hdr |-> With(<< >>, NIL, Header(0, 0, FALSE)), fast |-> << >>, bins |-> << >>,
             heads |-> {}, binmap |-> {}, top |-> NIL, last_remainder |-> NIL,
             have_fastchunks |-> FALSE, contiguous |-> TRUE,
             system_mem |-> 0, max_system_mem |-> 0,
             tcache |-> NONE, entries |-> << >>,
             max_fast |-> max_fast_of(DEFAULT_MXFAST), top_pad |-> DEFAULT_TOP_PAD,
             trim_threshold |-> DEFAULT_TRIM_THRESHOLD,
             mmap_threshold |-> DEFAULT_MMAP_THRESHOLD,
             n_mmaps |-> 0, n_mmaps_max |-> DEFAULT_MMAP_MAX, no_dyn_threshold |-> FALSE,
             sbrk_base |-> 0, brk |-> BrkStart, mapped |-> {}, touched |-> BrkStart,
             abort |-> FALSE]
  /\ call = NoCall
  /\ live = << >>
  /\ program \in Programs

\* c is what the program calls next.
Calls(op, c) ==
  /\ call.pc = "idle"
  /\ program # << >>
  /\ c \in Head(program)
  /\ c.op = op
  /\ program' = Tail(program)
CallsNext == IF program = << >> THEN {} ELSE Head(program)

\* The nth block in use, or any block for zero.
Block(nth) ==
  {p \in DOMAIN live : nth \in {0, Cardinality({q \in DOMAIN live : q <= p})}}

CallMalloc ==
  /\ \E c \in CallsNext, op \in {"malloc", "calloc"} :
       Calls(op, c) /\ call' = [NoCall EXCEPT !.pc = "start", !.op = op, !.req = c.bytes]
  /\ UNCHANGED <<heap, live>>

\* Alignments that are no power of two are rounded up to one.
CallMemalign ==
  /\ \E c \in CallsNext :
       /\ Calls("memalign", c)
       /\ LET powers == {2 ^ k * MALLOC_ALIGNMENT : k \in 0 .. 20}
              c1 == [NoCall EXCEPT !.pc = "start", !.op = "malloc", !.req = c.bytes]
          IN call' = IF c.alignment <= MALLOC_ALIGNMENT THEN c1
                     ELSE [c1 EXCEPT !.op = "memalign",
                                     !.align = Min({b \in powers : b >= Max({c.alignment, MINSIZE})})]
  /\ UNCHANGED <<heap, live>>

CallRealloc ==
  /\ \E c \in CallsNext :
       /\ Calls("realloc", c)
       /\ \E p \in Block(c.nth) :
            call' = [NoCall EXCEPT !.pc = "start", !.op = "realloc", !.req = c.bytes, !.old = p]
  /\ UNCHANGED <<heap, live>>

CallFree ==
  /\ \E c \in CallsNext :
       /\ Calls("free", c)
       /\ \E p \in Block(c.nth) :
            /\ call' = [NoCall EXCEPT !.pc = "start", !.op = "free", !.old = p]
            /\ live' = Restrict(live, DOMAIN live \ {p})
  /\ UNCHANGED heap

\* _int_malloc (av, bytes)
IntMalloc(c, bytes) ==
  IF Acceptable(bytes)
  THEN [c EXCEPT !.pc = "entry", !.nb = request2size(bytes),
                 !.cached = FALSE, !.seen = 0, !.iters = 0]
  ELSE [c EXCEPT !.pc = "got", !.p = NIL]

Got(p) == call' = [call EXCEPT !.pc = "got", !.p = p]
Result(p) == call' = [call EXCEPT !.pc = "return", !.p = p]
Goto(pc) == call' = [call EXCEPT !.pc = pc]

\* MAYBE_INIT_TCACHE
MustInitTcache ==
  /\ heap.tcache = NONE
  /\ ~call.tried
  /\ CASE call.op = "calloc" -> TRUE
       [] call.op \in {"malloc", "recopy"} -> Acceptable(call.req)
       [] call.op \in {"free", "realloc"} -> ~mmapped(call.old)
       [] OTHER -> FALSE

Started(ops) == call.pc = "start" /\ call.op \in ops /\ ~MustInitTcache

TcacheInit ==
  /\ call.pc = "start"
  /\ MustInitTcache
  /\ call' = IntMalloc([call EXCEPT !.init = TRUE, !.tried = TRUE], TcacheStruct)
  /\ UNCHANGED <<heap, live, program>>

TcacheReady ==
  /\ call.pc = "got"
  /\ call.init
  /\ heap' = IF call.p = NIL THEN heap ELSE [heap EXCEPT !.tcache = call.p]
  /\ call' = [call EXCEPT !.pc = "start", !.init = FALSE]
  /\ UNCHANGED <<live, program>>

HasCached(req) ==
  /\ Acceptable(req)
  /\ Cacheable(heap, request2size(req))
  /\ At(heap.entries, usize2tidx(req)) # << >>

MallocCached ==
  /\ Started({"malloc", "recopy"})
  /\ HasCached(call.req)
  /\ heap' = tcache_get(heap, usize2tidx(call.req))
  /\ Got(Head(heap.entries[usize2tidx(call.req)]))
  /\ UNCHANGED <<live, program>>

Malloc ==
  /\ Started({"malloc", "recopy"})
  /\ ~HasCached(call.req)
  /\ call' = IntMalloc(call, call.req)
  /\ UNCHANGED <<heap, live, program>>

\* A difference of pointers below zero counts as huge.
Calloc ==
  /\ Started({"calloc"})
  /\ LET top_size == chunksize(heap, heap.top)
         sbrked == heap.sbrk_base + heap.max_system_mem - heap.top
     IN call' = IntMalloc([call EXCEPT
                  !.oldtop = heap.top,
                  !.oldtopsize = IF sbrked < 0 THEN PTRDIFF_MAX ELSE Max({top_size, sbrked}),
                  !.dirty = heap.touched], call.req)
  /\ UNCHANGED <<heap, live, program>>

Memalign ==
  /\ Started({"memalign"})
  /\ call' = IF Acceptable(call.req)
             THEN IntMalloc(call, request2size(call.req) + call.align + MINSIZE)
             ELSE [call EXCEPT !.pc = "return", !.p = NIL]
  /\ UNCHANGED <<heap, live, program>>

----------------------------------------------------------------------------
(* _int_malloc. *)

fast == At(heap.fast, fastbin_index(nb))
smallbin == At(heap.bins, smallbin_index(nb))
HasFast == nb <= heap.max_fast /\ fast # << >>
HasSmall == in_smallbin_range(nb) /\ smallbin # << >>

\* How many chunks of nb bytes the tcache takes from a list of n.
Stashed(n) == IF Cacheable(heap, nb) THEN Max({0, Min({n, Room(heap, nb)})}) ELSE 0
WithStash(h, s) == [h EXCEPT !.entries = Put(@, csize2tidx(nb), s \o At(@, csize2tidx(nb)))]

TakeFast ==
  /\ call.pc = "entry"
  /\ HasFast
  /\ LET k == Stashed(Len(fast) - 1)
     IN heap' = [WithStash(heap, Reverse(SubSeq(fast, 2, k + 1))) EXCEPT
                   !.fast = Put(@, fastbin_index(nb), SubSeq(fast, k + 2, Len(fast)))]
  /\ Got(Head(fast))
  /\ UNCHANGED <<live, program>>

TakeSmall ==
  /\ call.pc = "entry"
  /\ ~HasFast
  /\ HasSmall
  /\ LET left == Len(smallbin) - 1 - Stashed(Len(smallbin) - 1)
         taken == SubSeq(smallbin, left + 1, Len(smallbin))
     IN heap' = [WithStash(heap, Front(taken)) EXCEPT
                   !.hdr = [q \in DOMAIN @ |-> IF q - nb \in Range(taken)
                              THEN [@[q] EXCEPT !.prev_inuse = TRUE, !.prev_size = 0] ELSE @[q]],
                   !.bins = Put(@, smallbin_index(nb), SubSeq(smallbin, 1, left))]
  /\ Got(Last(smallbin))
  /\ UNCHANGED <<live, program>>

\* A large request consolidates the fast bins first.
EnterUnsorted ==
  /\ call.pc = "entry"
  /\ ~HasFast
  /\ ~HasSmall
  /\ heap' = IF ~in_smallbin_range(nb) /\ heap.have_fastchunks
             THEN malloc_consolidate(heap) ELSE heap
  /\ Goto("unsorted")
  /\ UNCHANGED <<live, program>>

unsorted == At(heap.bins, UNSORTED)
Visit == call.pc = "unsorted" /\ unsorted # << >> /\ call.iters < MAX_ITERS
victim == Last(unsorted)
size == chunksize(heap, victim)
removed ==
  LET next == heap.hdr[victim + size]
  IN [Require(heap, /\ size > CHUNK_HDR_SZ
                    /\ size <= heap.system_mem
                    /\ next.size >= CHUNK_HDR_SZ
                    /\ next.size <= heap.system_mem
                    /\ next.prev_size = size
                    /\ ~next.prev_inuse) EXCEPT
        !.bins = Put(@, UNSORTED, Front(unsorted))]

UseLastRemainder ==
  /\ in_smallbin_range(nb)
  /\ unsorted = <<heap.last_remainder>>
  /\ size > nb + MINSIZE

SplitLastRemainder ==
  /\ Visit
  /\ UseLastRemainder
  /\ heap' = [split(removed, victim, nb) EXCEPT !.last_remainder = victim + nb]
  /\ Got(victim)
  /\ UNCHANGED <<live, program>>

\* A chunk of the right size goes to the cache while there is room.
TakeExact ==
  /\ Visit
  /\ ~UseLastRemainder
  /\ size = nb
  /\ LET h1 == set_inuse_bit(removed, victim + size)
         cache == Cacheable(heap, nb) /\ Room(heap, nb) > 0
     IN IF cache
        THEN /\ heap' = tcache_put(h1, victim)
             /\ call' = [call EXCEPT !.cached = TRUE]
        ELSE heap' = h1 /\ Got(victim)
  /\ UNCHANGED <<live, program>>

\* A chunk goes before one of its size, not after it.
MutSortedInsert(h, s, p) ==
  LET sz == chunksize(h, p)
      notlarger == {k \in DOMAIN s : s[k] \in h.heads /\ chunksize(h, s[k]) <= sz}
      same == notlarger # {} /\ chunksize(h, s[Min(notlarger)]) = sz
  IN [list |-> IF notlarger = {} THEN Append(s, p) ELSE InsertAt(s, Min(notlarger), p),
      heads |-> IF same THEN h.heads ELSE h.heads \union {p}]

\* A large bin is sorted; of chunks of one size only the first is in the skip
\* list, and a new one comes second.
sorted_insert(h, s, p) ==
  LET sz == chunksize(h, p)
      notlarger == {k \in DOMAIN s : s[k] \in h.heads /\ chunksize(h, s[k]) <= sz}
      k1 == Min(notlarger)
      same == notlarger # {} /\ chunksize(h, s[k1]) = sz
  IN [list |-> IF notlarger = {} THEN Append(s, p)
               ELSE InsertAt(s, IF same THEN k1 + 1 ELSE k1, p),
      heads |-> IF same THEN h.heads ELSE h.heads \union {p}]

BinVictim ==
  /\ Visit
  /\ ~UseLastRemainder
  /\ size # nb
  /\ LET i == bin_index(size)
         s == At(heap.bins, i)
         ins == IF in_smallbin_range(size) THEN [list |-> <<victim>> \o s, heads |-> heap.heads]
                ELSE sorted_insert(heap, s, victim)
         h1 == [removed EXCEPT !.bins = Put(@, i, ins.list), !.heads = ins.heads,
                               !.binmap = @ \union {i}]
         c1 == [call EXCEPT !.seen = @ + 1, !.iters = @ + 1]
         full == /\ call.cached
                 /\ TcacheUnsortedLimit > 0
                 /\ c1.seen > TcacheUnsortedLimit
     IN IF full
        THEN /\ heap' = tcache_get(h1, csize2tidx(nb))
             /\ Got(Head(heap.entries[csize2tidx(nb)]))
        ELSE heap' = h1 /\ call' = c1
  /\ UNCHANGED <<live, program>>

UnsortedDone ==
  /\ call.pc = "unsorted"
  /\ unsorted = << >> \/ call.iters >= MAX_ITERS
  /\ IF call.cached
     THEN /\ heap' = tcache_get(heap, csize2tidx(nb))
          /\ Got(Head(heap.entries[csize2tidx(nb)]))
     ELSE /\ Goto("scan")
          /\ UNCHANGED heap
  /\ UNCHANGED <<live, program>>

\* The skip list of the request's own bin leads to the smallest chunk that fits.
largebin == At(heap.bins, bin_index(nb))
HasLarge ==
  ~in_smallbin_range(nb) /\ largebin # << >> /\ chunksize(heap, Head(largebin)) >= nb

TakeLarge ==
  /\ call.pc = "scan"
  /\ HasLarge
  /\ LET s == largebin
         k == Max({n \in DOMAIN s : s[n] \in heap.heads /\ chunksize(heap, s[n]) >= nb})
         second == k < Len(s) /\ chunksize(heap, s[k + 1]) = chunksize(heap, s[k])
         p == IF second THEN s[k + 1] ELSE s[k]
     IN heap' = split(unlink_chunk(heap, p), p, nb) /\ Got(p)
  /\ UNCHANGED <<live, program>>

\* The bin map leads to the next larger bin with a chunk; it is wrong about
\* bins that have become empty, and corrected on the way.
marked == {i \in heap.binmap : i > bin_index(nb)}
larger == {i \in marked : At(heap.bins, i) # << >>}
corrected(h) == [h EXCEPT !.binmap = @ \ {i \in marked : \A j \in larger : i < j}]

TakeBinned ==
  /\ call.pc = "scan"
  /\ ~HasLarge
  /\ larger # {}
  /\ LET p == Last(heap.bins[Min(larger)])
         rest == chunksize(heap, p) - nb
         h1 == unlink_chunk(corrected(Require(heap, rest >= 0)), p)
     IN /\ heap' = [split(h1, p, nb) EXCEPT
                      !.last_remainder =
                         IF rest >= MINSIZE /\ in_smallbin_range(nb) THEN p + nb ELSE @]
        /\ Got(p)
  /\ UNCHANGED <<live, program>>

ScanDone ==
  /\ call.pc = "scan"
  /\ ~HasLarge
  /\ larger = {}
  /\ heap' = corrected(heap)
  /\ Goto("top")
  /\ UNCHANGED <<live, program>>

TopServes(h) == chunksize(h, h.top) >= nb + MINSIZE

\* malloc(): corrupted top size
top_checked == Require(heap, chunksize(heap, heap.top) <= heap.system_mem)

UseTop ==
  /\ call.pc = "top"
  /\ TopServes(heap)
  /\ heap' = carve(top_checked, nb)
  /\ Got(heap.top)
  /\ UNCHANGED <<live, program>>

ConsolidateAndRetry ==
  /\ call.pc = "top"
  /\ ~TopServes(heap)
  /\ heap.have_fastchunks
  /\ heap' = malloc_consolidate(top_checked)
  /\ call' = [call EXCEPT !.pc = "unsorted", !.iters = 0]
  /\ UNCHANGED <<live, program>>

AskSystem ==
  /\ call.pc = "top"
  /\ ~TopServes(heap)
  /\ ~heap.have_fastchunks
  /\ heap' = top_checked
  /\ Goto("sysmalloc")
  /\ UNCHANGED <<live, program>>

----------------------------------------------------------------------------
(* sysmalloc. *)

old_top == heap.top
old_size == chunksize(heap, old_top)
old_end == old_top + old_size

\* Its assertions on entry.
SysEntry ==
  Require(heap, /\ \/ old_top = NIL /\ old_size = 0
                   \/ /\ old_size >= MINSIZE
                      /\ heap.hdr[old_top].prev_inuse
                      /\ old_end % Pagesize = 0
                /\ old_size < nb + MINSIZE)

CanMmap ==
  /\ nb >= heap.mmap_threshold
  /\ heap.n_mmaps < heap.n_mmaps_max
  /\ MmapHoles(heap, mmap_size(nb)) # {}

sbrk_size ==
  ALIGN_UP(nb + heap.top_pad + MINSIZE - (IF heap.contiguous THEN old_size ELSE 0), Pagesize)
fallback_size ==
  Max({MMAP_AS_MORECORE_SIZE,
       IF heap.contiguous THEN ALIGN_UP(sbrk_size + old_size, Pagesize) ELSE sbrk_size})
CanSbrk == heap.brk + sbrk_size <= HeapEnd

\* The end of memory is in [a, a + sz), new space from sbrk or mmap.
got_brk(a, sz) ==
  [SysEntry EXCEPT !.sbrk_base = IF @ = 0 THEN a ELSE @, !.system_mem = @ + sz]

\* Top moves to [a, end): what it was ends in two fenceposts and is freed.
fencepost(h, p, sz) ==
  set_head(set_head(set_head(h, p, sz), p + sz, CHUNK_HDR_SZ), p + sz + CHUNK_HDR_SZ, CHUNK_HDR_SZ)

\* What is left of the old top is not freed.
MutRetire(h, p, sz) == IF p = NIL THEN Forget(h, NIL) ELSE fencepost(h, p, sz)

retire(h, p, sz) ==
  IF p = NIL THEN Forget(h, NIL)
  ELSE IF sz >= MINSIZE THEN int_free(fencepost(h, p, sz), p)
  ELSE fencepost(h, p, sz)

new_top(h, a, end) ==
  retire(Touch([set_head(h, a, end - a) EXCEPT !.top = a], a + CHUNK_HDR_SZ),
         old_top, ALIGN_DOWN(old_size - 2 * CHUNK_HDR_SZ, MALLOC_ALIGNMENT))

SysMmap ==
  /\ call.pc = "sysmalloc"
  /\ CanMmap
  /\ LET mm == Min(MmapHoles(heap, mmap_size(nb)))
     IN heap' = mmapped_chunk(heap, mm, mmap_size(nb)) /\ Got(mm)
  /\ UNCHANGED <<live, program>>

ByBrk == call.pc = "sysmalloc" /\ ~CanMmap /\ CanSbrk

SysExtend ==
  /\ ByBrk
  /\ heap.brk = old_end
  /\ heap' = set_head_size([got_brk(heap.brk, sbrk_size) EXCEPT !.brk = @ + sbrk_size],
                           old_top, old_size + sbrk_size)
  /\ Goto("extended")
  /\ UNCHANGED <<live, program>>

\* The first time, or someone else has moved the break: a second sbrk for
\* alignment, for what top can not contribute and up to a page boundary.
SysRestart ==
  /\ ByBrk
  /\ heap.brk # old_end
  /\ heap.contiguous
  /\ LET brk == heap.brk
         front_misalign == chunk2mem(brk) % MALLOC_ALIGNMENT
         skip == IF front_misalign > 0 THEN MALLOC_ALIGNMENT - front_misalign ELSE 0
         end == brk + sbrk_size
         wanted == ALIGN_UP(end + skip + old_size, Pagesize) - end
         correction == IF end + wanted <= HeapEnd THEN wanted ELSE 0
         h1 == [Require(got_brk(brk, sbrk_size), old_size # 0 => brk >= old_end) EXCEPT
                  !.system_mem = @ + correction + (IF old_size # 0 THEN brk - old_end ELSE 0),
                  !.brk = end + correction]
     IN heap' = new_top(h1, brk + skip, end + correction)
  /\ Goto("extended")
  /\ UNCHANGED <<live, program>>

SysNoncontiguous ==
  /\ ByBrk
  /\ heap.brk # old_end
  /\ ~heap.contiguous
  /\ LET h1 == Require(got_brk(heap.brk, sbrk_size), aligned_OK(chunk2mem(heap.brk)))
         end == heap.brk + sbrk_size
     IN heap' = IF h1.abort THEN h1 ELSE new_top([h1 EXCEPT !.brk = end], heap.brk, end)
  /\ Goto("extended")
  /\ UNCHANGED <<live, program>>

\* Where sbrk fails, a large mapping extends the heap, not contiguous any more.
SysFallback ==
  /\ call.pc = "sysmalloc"
  /\ ~CanMmap
  /\ ~CanSbrk
  /\ MmapHoles(heap, fallback_size) # {}
  /\ LET mbrk == Min(MmapHoles(heap, fallback_size))
         h1 == [got_brk(mbrk, fallback_size) EXCEPT
                  !.contiguous = FALSE,
                  !.mapped = @ \union Pages(mbrk, fallback_size)]
     IN heap' = new_top(h1, mbrk, mbrk + fallback_size)
  /\ Goto("extended")
  /\ UNCHANGED <<live, program>>

SysFail ==
  /\ call.pc = "sysmalloc"
  /\ ~CanMmap
  /\ ~CanSbrk
  /\ MmapHoles(heap, fallback_size) = {}
  /\ heap' = SysEntry
  /\ Goto("extended")
  /\ UNCHANGED <<live, program>>

SysFinish ==
  /\ call.pc = "extended"
  /\ LET h1 == [heap EXCEPT !.max_system_mem = Max({@, heap.system_mem})]
     IN IF TopServes(heap) THEN heap' = carve(h1, nb) /\ Got(old_top)
        ELSE heap' = h1 /\ Got(NIL)
  /\ UNCHANGED <<live, program>>

----------------------------------------------------------------------------
(* What the callers of _int_malloc do with its result. *)

GotFor(op) == call.pc = "got" /\ call.op = op /\ ~call.init

Malloced ==
  /\ GotFor("malloc")
  /\ Result(call.p)
  /\ UNCHANGED <<heap, live, program>>

\* The bytes up to call.clear are cleared, three words at least; a mapping is
\* zero already.
Calloced ==
  /\ GotFor("calloc")
  /\ LET p == call.p
         csz == IF p = call.oldtop THEN Min({chunksize(heap, p), call.oldtopsize})
                ELSE chunksize(heap, p)
     IN /\ call' = [call EXCEPT
               !.pc = "return",
               !.clear = IF p = NIL THEN 0
                         ELSE IF mmapped(p) THEN next_chunk(heap, p)
                         ELSE p + csz + SIZE_SZ]
        /\ heap' = Require(heap, p = NIL \/ mmapped(p) \/ csz >= 4 * SIZE_SZ)
  /\ UNCHANGED <<live, program>>

\* An aligned chunk of at least nb bytes inside p; the rest is given back.
mem_spot(p) ==
  LET brk == ALIGN_UP(chunk2mem(p), call.align) - CHUNK_HDR_SZ
  IN IF brk - p \in 1 .. MINSIZE - 1 THEN brk + call.align ELSE brk

free_leader(h, p, newp) ==
  IF newp = p THEN h
  ELSE int_free(set_head_size(set_head(h, newp, next_chunk(h, p) - newp), p, newp - p), p)

free_spare(h, p, n) ==
  IF chunksize(h, p) <= n + MINSIZE THEN h
  ELSE int_free(set_head_size(set_head(h, p + n, chunksize(h, p) - n), p, n), p + n)

Memaligned ==
  /\ GotFor("memalign")
  /\ IF call.p = NIL THEN Result(NIL) /\ UNCHANGED heap
     ELSE \E p \in {mem_spot(call.p)} :
       /\ heap' = IF mmapped(call.p)
                  THEN [Forget(heap, call.p) EXCEPT
                          !.hdr = With(@, p, Header(next_chunk(heap, call.p) - p,
                                                    heap.hdr[call.p].prev_size + p - call.p, TRUE))]
                  ELSE free_spare(free_leader(Require(heap,
                           next_chunk(heap, call.p) - p >= request2size(call.req)), call.p, p),
                         p, request2size(call.req))
       /\ Result(p)
  /\ UNCHANGED <<live, program>>

----------------------------------------------------------------------------
(* realloc. *)

old == call.old
oldsize == chunksize(heap, old)
next == next_chunk(heap, old)
onb == request2size(call.req)
ReallocStart(mm) == Started({"realloc"}) /\ Acceptable(call.req) /\ mmapped(old) = mm
ReallocChecked ==
  Require(heap, oldsize > CHUNK_HDR_SZ /\ oldsize < heap.system_mem /\ NextSizeOK(heap, old))

ReallocTooBig ==
  /\ Started({"realloc"})
  /\ ~Acceptable(call.req)
  /\ Result(NIL)
  /\ UNCHANGED <<heap, live, program>>

\* mremap resizes in place if the pages that follow are free, or moves.
old_offset == heap.hdr[old].prev_size
old_block == old - old_offset
remap_size == ALIGN_UP(onb + old_offset + SIZE_SZ, Pagesize)
OldUnmapped == [heap EXCEPT !.mapped = @ \ Pages(old_block, old_offset + oldsize)]
remap_holes == IF old_block \in MmapHoles(OldUnmapped, remap_size) THEN {old_block}
               ELSE MmapHoles(heap, remap_size)
OldRemapped(p) ==
  [Forget(OldUnmapped, old) EXCEPT
     !.hdr = With(@, p, Header(remap_size - old_offset, old_offset, TRUE)),
     !.mapped = @ \union Pages(p - old_offset, remap_size)]

ReallocMapped ==
  /\ ReallocStart(TRUE)
  /\ IF remap_holes = {}
     THEN /\ IF oldsize - SIZE_SZ >= onb THEN Result(old)
             ELSE call' = [call EXCEPT !.pc = "start", !.op = "recopy"]
          /\ UNCHANGED heap
     ELSE /\ heap' = OldRemapped(Min(remap_holes) + old_offset)
          /\ Result(Min(remap_holes) + old_offset)
  /\ UNCHANGED <<live, program>>

ReallocInPlace ==
  /\ ReallocStart(FALSE)
  /\ oldsize >= onb
  /\ heap' = give_back(ReallocChecked, old, oldsize, onb)
  /\ Result(old)
  /\ UNCHANGED <<live, program>>

GrowsIntoTop == next = heap.top /\ oldsize + chunksize(heap, next) >= onb + MINSIZE
GrowsIntoNext ==
  next # heap.top /\ ~inuse(heap, next) /\ oldsize + chunksize(heap, next) >= onb

ReallocIntoTop ==
  /\ ReallocStart(FALSE)
  /\ oldsize < onb
  /\ GrowsIntoTop
  /\ LET newsize == oldsize + chunksize(heap, next)
         h1 == set_head(set_head_size(Forget(ReallocChecked, next), old, onb),
                        old + onb, newsize - onb)
     IN heap' = Touch([h1 EXCEPT !.top = old + onb], chunk2mem(old + onb))
  /\ Result(old)
  /\ UNCHANGED <<live, program>>

ReallocIntoNext ==
  /\ ReallocStart(FALSE)
  /\ oldsize < onb
  /\ GrowsIntoNext
  /\ LET h1 == Forget(unlink_chunk(ReallocChecked, next), next)
     IN heap' = give_back(h1, old, oldsize + chunksize(heap, next), onb)
  /\ Result(old)
  /\ UNCHANGED <<live, program>>

ReallocElsewhere ==
  /\ ReallocStart(FALSE)
  /\ oldsize < onb
  /\ ~GrowsIntoTop
  /\ ~GrowsIntoNext
  /\ heap' = ReallocChecked
  /\ call' = IntMalloc(call, onb - MALLOC_ALIGN_MASK)
  /\ UNCHANGED <<live, program>>

\* A new chunk right after the old one is merged with it, another one gets a
\* copy of the data.
Realloced ==
  /\ GotFor("realloc")
  /\ LET p == call.p
     IN IF p = NIL THEN Result(NIL) /\ UNCHANGED heap
        ELSE IF p = next
        THEN /\ heap' = give_back(Forget(heap, p), old, oldsize + chunksize(heap, p), onb)
             /\ Result(old)
        ELSE /\ heap' = int_free(heap, old)
             /\ call' = [call EXCEPT !.pc = "return", !.copied = oldsize - SIZE_SZ]
  /\ UNCHANGED <<live, program>>

Recopied ==
  /\ GotFor("recopy")
  /\ heap' = IF call.p = NIL THEN heap ELSE munmap_chunk(heap, old)
  /\ call' = [call EXCEPT !.pc = "return", !.copied = oldsize - CHUNK_HDR_SZ]
  /\ UNCHANGED <<live, program>>

----------------------------------------------------------------------------
(* The other calls. *)

IS_MMAPPED == 2

\* Freeing a mapping of more than the threshold (compared with the flag
\* still in the size) raises the threshold to its size.
raise_threshold(h, sz) ==
  IF /\ ~h.no_dyn_threshold
     /\ sz + IS_MMAPPED > h.mmap_threshold
     /\ sz + IS_MMAPPED <= DEFAULT_MMAP_THRESHOLD_MAX
  THEN [h EXCEPT !.mmap_threshold = sz, !.trim_threshold = 2 * sz]
  ELSE h

libc_free(h, p) ==
  IF h.hdr[p].mmapped THEN munmap_chunk(raise_threshold(h, chunksize(h, p)), p)
  ELSE int_free(h, p)

Free ==
  /\ Started({"free"})
  /\ heap' = libc_free(heap, old)
  /\ Result(NIL)
  /\ UNCHANGED <<live, program>>

Return ==
  /\ call.pc = "return"
  /\ live' = IF call.p = NIL THEN live
             ELSE With(Restrict(live, DOMAIN live \ {old}), call.p, call.req)
  /\ call' = NoCall
  /\ UNCHANGED <<heap, program>>

\* malloc_trim(0); the pages inside free chunks that madvise gives back do not
\* show here.
MallocTrim ==
  /\ \E c \in CallsNext : Calls("malloc_trim", c)
  /\ LET h1 == malloc_consolidate(heap)
         free == UNION {Range(h1.bins[i]) : i \in
                          {j \in DOMAIN h1.bins : j = UNSORTED \/ j >= bin_index(Pagesize)}}
         fit == \A p \in free : LET sz == chunksize(h1, p) IN
                  sz > Pagesize - 1 + 6 * SIZE_SZ => p + sz > ALIGN_UP(p + 6 * SIZE_SZ, Pagesize)
     IN heap' = systrim(Require(h1, fit), 0)
  /\ UNCHANGED <<call, live>>

set_option(h, param, value) ==
  CASE param = "M_MXFAST" ->
         IF value <= MAX_FAST_SIZE THEN [h EXCEPT !.max_fast = max_fast_of(value)] ELSE h
    [] param = "M_TRIM_THRESHOLD" ->
         [h EXCEPT !.trim_threshold = value, !.no_dyn_threshold = TRUE]
    [] param = "M_TOP_PAD" -> [h EXCEPT !.top_pad = value, !.no_dyn_threshold = TRUE]
    [] param = "M_MMAP_THRESHOLD" ->
         IF value <= HEAP_MAX_SIZE \div 2
         THEN [h EXCEPT !.mmap_threshold = value, !.no_dyn_threshold = TRUE] ELSE h
    [] param = "M_MMAP_MAX" -> [h EXCEPT !.n_mmaps_max = value, !.no_dyn_threshold = TRUE]

Mallopt ==
  /\ \E c \in CallsNext :
       /\ Calls("mallopt", c)
       /\ heap' = set_option(malloc_consolidate(heap), c.param, c.value)
  /\ UNCHANGED <<call, live>>

\* The chunks of one list of the cache, which takes none any more.
FreeAll(h, s) ==
  LET freed[n \in 0 .. Len(s)] == IF n = 0 THEN h ELSE int_free(freed[n - 1], s[n])
  IN freed[Len(s)]

free_entries(h, i) == FreeAll([h EXCEPT !.entries = Put(@, i, << >>)], At(h.entries, i))

tcache_thread_shutdown(h) ==
  LET freed[i \in 0 .. TcacheBins] ==
        IF i = 0 THEN [h EXCEPT !.tcache = SHUT] ELSE free_entries(freed[i - 1], i - 1)
  IN libc_free(freed[TcacheBins], h.tcache)

ThreadShutdown ==
  /\ \E c \in CallsNext : Calls("thread_exit", c)
  /\ heap.tcache \notin {NONE, SHUT}
  /\ heap' = tcache_thread_shutdown(heap)
  /\ UNCHANGED <<call, live>>

\* Another part of the program moves the break.
ForeignSbrk ==
  /\ \E c \in CallsNext :
       /\ Calls("sbrk", c)
       /\ heap.brk + c.increment <= HeapEnd
       /\ heap' = [heap EXCEPT !.brk = @ + c.increment]
  /\ UNCHANGED <<call, live>>

\* The program may end between calls, and ends at a check.
Stop == (call.pc = "idle" \/ heap.abort) /\ UNCHANGED vars

IntMallocStep ==
  \/ TakeFast \/ TakeSmall \/ EnterUnsorted
  \/ SplitLastRemainder \/ TakeExact \/ BinVictim \/ UnsortedDone
  \/ TakeLarge \/ TakeBinned \/ ScanDone
  \/ UseTop \/ ConsolidateAndRetry \/ AskSystem
  \/ SysMmap \/ SysExtend \/ SysRestart \/ SysNoncontiguous \/ SysFallback \/ SysFail
  \/ SysFinish

CallStep ==
  \/ TcacheInit \/ TcacheReady
  \/ MallocCached \/ Malloc \/ Malloced
  \/ Calloc \/ Calloced
  \/ Memalign \/ Memaligned
  \/ ReallocTooBig \/ ReallocMapped \/ ReallocInPlace \/ ReallocIntoTop \/ ReallocIntoNext
  \/ ReallocElsewhere \/ Realloced \/ Recopied
  \/ Free \/ Return

Environment ==
  \/ CallMalloc \/ CallMemalign \/ CallRealloc \/ CallFree
  \/ MallocTrim \/ Mallopt \/ ThreadShutdown \/ ForeignSbrk

Next == (~heap.abort /\ (IntMallocStep \/ CallStep \/ Environment)) \/ Stop

Spec == Init /\ [][Next]_vars

----------------------------------------------------------------------------
(* The assertions of do_check_malloc_state and the routines it calls. *)

check_chunk(p) ==
  LET hd == heap.hdr[p]
      max_address == heap.top + chunksize(heap, heap.top)
      min_address == max_address - heap.system_mem
  IN IF hd.mmapped
     THEN /\ heap.contiguous /\ heap.top # NIL => p < min_address \/ p >= max_address
          /\ (hd.prev_size + hd.size) % Pagesize = 0
          /\ aligned_OK(chunk2mem(p))
     ELSE IF p = heap.top THEN hd.size >= MINSIZE /\ hd.prev_inuse
     ELSE heap.contiguous => p >= min_address /\ p + hd.size <= heap.top

check_free_chunk(p) ==
  LET hd == heap.hdr[p]
      nxt == next_chunk(heap, p)
  IN /\ check_chunk(p)
     /\ ~inuse(heap, p)
     /\ ~hd.mmapped
     /\ hd.size >= MINSIZE
     /\ aligned_OK(hd.size)
     /\ aligned_OK(chunk2mem(p))
     /\ heap.hdr[nxt].prev_size = hd.size
     /\ hd.prev_inuse
     /\ nxt = heap.top \/ inuse(heap, nxt)

check_inuse_chunk(p) ==
  LET hd == heap.hdr[p]
      prv == p - hd.prev_size
      nxt == next_chunk(heap, p)
  IN /\ check_chunk(p)
     /\ ~hd.mmapped =>
          /\ inuse(heap, p)
          /\ ~hd.prev_inuse => next_chunk(heap, prv) = p /\ check_free_chunk(prv)
          /\ nxt # heap.top /\ ~inuse(heap, nxt) => check_free_chunk(nxt)
          /\ nxt = heap.top => heap.hdr[nxt].prev_inuse /\ chunksize(heap, nxt) >= MINSIZE

check_fastbins ==
  \A i \in DOMAIN heap.fast :
    /\ i <= fastbin_index(heap.max_fast)
    /\ \A p \in Range(heap.fast[i]) :
         check_inuse_chunk(p) /\ fastbin_index(chunksize(heap, p)) = i

\* The chunks in use that follow p, up to top, a free chunk or a fencepost.
chain_after(p) ==
  {q \in DOMAIN heap.hdr : q > p /\ \A r \in DOMAIN heap.hdr \intersect (p + 1 .. q) :
     r # heap.top /\ inuse(heap, r) /\ chunksize(heap, r) >= MINSIZE}

\* The last conjunct is more than the code checks: what scanning relies on.
check_bin(i) ==
  LET s == heap.bins[i]
      sizes == [n \in DOMAIN s |-> chunksize(heap, s[n])]
      isHead(n) == s[n] \in heap.heads
  IN /\ \A p \in Range(s) : /\ check_free_chunk(p)
                            /\ \A q \in chain_after(p) : check_inuse_chunk(q)
     /\ i # UNSORTED => i \in heap.binmap
     /\ \A n \in DOMAIN s : /\ i # UNSORTED => bin_index(sizes[n]) = i
                            /\ i # UNSORTED /\ n > 1 => sizes[n - 1] >= sizes[n]
                            /\ isHead(n) = (/\ i # UNSORTED
                                            /\ ~in_smallbin_range(sizes[n])
                                            /\ \A m \in 1 .. n - 1 : sizes[m] # sizes[n])

check_malloc_state ==
  heap.top # NIL =>
    /\ heap.contiguous =>
         heap.sbrk_base + heap.system_mem = heap.top + chunksize(heap, heap.top)
    /\ heap.max_fast <= request2size(MAX_FAST_SIZE)
    /\ check_fastbins
    /\ \A i \in DOMAIN heap.bins : check_bin(i)
    /\ check_chunk(heap.top)

----------------------------------------------------------------------------
(* Properties. *)

Addresses == 0 .. Max({HeapEnd, MmapEnd})
Headers ==
  [size : Addresses, prev_inuse : BOOLEAN, prev_size : Addresses, mmapped : BOOLEAN]

\* The chunks whose mem the program has, and the lists of chunks, are chunks.
TypeOK ==
  /\ DOMAIN heap.hdr \subseteq Addresses
  /\ \A p \in DOMAIN heap.hdr : heap.hdr[p] \in Headers
  /\ \A s \in Range(heap.bins) \union Range(heap.fast) \union Range(heap.entries) :
       s # << >> /\ Range(s) \subseteq DOMAIN heap.hdr
  /\ heap.heads \subseteq DOMAIN heap.hdr
  /\ heap.binmap \subseteq 2 .. NBINS - 2
  /\ heap.top \in DOMAIN heap.hdr
  /\ heap.tcache \in {NONE, SHUT} \union DOMAIN heap.hdr
  /\ heap.brk \in BrkStart .. HeapEnd
  /\ \A i \in DOMAIN heap.entries : Len(heap.entries[i]) <= TcacheCount
  /\ DOMAIN live \subseteq Addresses

Idle == call.pc = "idle"

\* Between calls every assertion of do_check_malloc_state holds, and those of
\* do_check_inuse_chunk hold for every block the program has.
MallocStateOK ==
  Idle => check_malloc_state /\ \A p \in DOMAIN live : check_inuse_chunk(p)

\* No program of these runs, which have room for the heap to grow and move the
\* break by whole pages, meets malloc_printerr or a failed assertion.
NoCheckFires == ~heap.abort

\* Where p is: in use, the tcache itself, top, a fencepost, or in a list.
Lists == {<<"bin", i>> : i \in DOMAIN heap.bins} \union {<<"fast", i>> : i \in DOMAIN heap.fast}
           \union {<<"tcache", i>> : i \in DOMAIN heap.entries}
List(l) == CASE l[1] = "bin" -> heap.bins[l[2]]
             [] l[1] = "fast" -> heap.fast[l[2]]
             [] l[1] = "tcache" -> heap.entries[l[2]]
Places(p) ==
  {w \in {"live"} : p \in DOMAIN live} \union {w \in {"struct"} : p = heap.tcache}
    \union {w \in {"top"} : p = heap.top}
    \union {w \in {"fencepost"} : ~mmapped(p) /\ p # NIL /\ chunksize(heap, p) < MINSIZE}
    \union {w \in Lists \X (1 .. Cardinality(DOMAIN heap.hdr)) :
              w[2] <= Len(List(w[1])) /\ List(w[1])[w[2]] = p}

\* Chunks never overlap, they cover the heap without a hole, and each is in
\* exactly one place: nothing is lost or handed out twice.
OneOwner ==
  Idle =>
    \A p \in DOMAIN heap.hdr :
      /\ Cardinality(Places(p)) = 1
      /\ \A q \in DOMAIN heap.hdr : p < q => next_chunk(heap, p) <= q
      /\ mmapped(p) \/ p = heap.top \/ chunksize(heap, p) < MINSIZE
           \/ next_chunk(heap, p) \in DOMAIN heap.hdr

musable(p) == chunksize(heap, p) - (IF mmapped(p) THEN CHUNK_HDR_SZ ELSE SIZE_SZ)

\* A block in use has room for what was asked; a new one is aligned as asked,
\* less than MINSIZE (or a page) larger than need be, and has the old data.
BlocksServe ==
  /\ Idle => \A p \in DOMAIN live : p \in DOMAIN heap.hdr /\ musable(p) >= live[p]
  /\ call.pc = "return" /\ call.p # NIL =>
       /\ musable(call.p) >= call.req
       /\ chunk2mem(call.p) % call.align = 0
       /\ ~mmapped(call.p) =>
            chunksize(heap, call.p) <= request2size(call.req) + MINSIZE
       /\ (call.op = "recopy" \/ (call.op = "realloc" /\ call.p # old /\ call.nb # 0)) =>
            call.copied \in Min({live[old], call.req}) .. musable(call.p)

\* malloc-impl.c:630: what calloc returns has "all locations set to zero".  So
\* what it does not clear was never in use: sbrk promises no more of memory that
\* was given back and is obtained again (lines 534-538, MORECORE_CLEARS = 1).
CallocClears ==
  call.pc = "return" /\ call.op = "calloc" /\ call.p # NIL =>
    \/ call.clear >= chunk2mem(call.p) + call.req
    \/ call.p = call.oldtop /\ call.clear >= call.dirty

\* malloc returns "null if no space is available": only when sbrk could not
\* have given what is missing.
NullOnlyWithoutSpace ==
  call.pc = "return" /\ call.op = "malloc" /\ call.p = NIL /\ Acceptable(call.req) =>
    ~CanSbrk
=============================================================================
