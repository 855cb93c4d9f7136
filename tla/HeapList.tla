------------------------------ MODULE HeapList ------------------------------
(***************************************************************************)
(* Block headers and the list they form, as src/mem.c and mem_internals.h  *)
(* of assignment-memory-allocator define them: the size arithmetic, and    *)
(* what splitting, merging and initialising a block do to the list.  A     *)
(* list `h` is a function from the addresses of the linked headers to      *)
(* their fields; the operators are pure.                                   *)
(***************************************************************************)
EXTENDS Integers

CONSTANTS
  HeaderSize,     \* offsetof(struct block_header, contents), 17 in the code
  MinCapacity,    \* BLOCK_MIN_CAPACITY, 24 in the code
  PageSize,       \* getpagesize()
  RegionMinSize,  \* REGION_MIN_SIZE, two pages in the code
  WordMod,        \* SIZE_MAX + 1: size_t arithmetic is modulo WordMod
  AddrLimit       \* the addresses the process can map are below AddrLimit

NULL == 0

Words == 0 .. WordMod - 1

ASSUME SizesAssumption ==
  /\ HeaderSize \in Nat \ {0}
  /\ MinCapacity \in Nat \ {0}
  /\ PageSize \in Nat \ {0}
  /\ RegionMinSize \in Nat
  /\ HeaderSize + MinCapacity <= RegionMinSize
  /\ WordMod \in Nat
  /\ AddrLimit \in Nat
  /\ AddrLimit + MinCapacity <= WordMod  \* user addresses end far below SIZE_MAX

Header == [next : Nat, capacity : Nat, is_free : BOOLEAN]

-----------------------------------------------------------------------------
(* Sizes: size_t arithmetic.                                               *)

SizeMax(x, y) == IF x >= y THEN x ELSE y

SizeFromCapacity(cap) == (cap + HeaderSize) % WordMod

CapacityFromSize(sz) == (sz - HeaderSize) % WordMod

\* How much every caller really asks for.
Wanted(q) == SizeMax(q, MinCapacity)

PagesCount(mem) == mem \div PageSize + (IF mem % PageSize > 0 THEN 1 ELSE 0)

RoundPages(mem) == (PageSize * PagesCount(mem)) % WordMod

RegionActualSize(q) == SizeMax(RoundPages(q), RegionMinSize)

-----------------------------------------------------------------------------
(* Blocks.  `h` is the list: a function from header addresses to headers.  *)

\* A free block at addr, `size` bytes with its header.
BlockInit(h, addr, size, next) ==
  [b \in DOMAIN h \union {addr} |->
     IF b = addr
     THEN [next |-> next, capacity |-> CapacityFromSize(size), is_free |-> TRUE]
     ELSE h[b]]

BlockAfter(h, a) == a + HeaderSize + h[a].capacity

BlocksContinuous(h, fst, snd) == snd = BlockAfter(h, fst)

\* Mistake: the next block may be taken.
Mergeable_TakenToo(h, a) ==
  /\ h[a].next # NULL
  /\ h[a].is_free
  /\ BlocksContinuous(h, a, h[a].next)

Mergeable(h, a) ==
  /\ h[a].next # NULL
  /\ h[a].is_free
  /\ h[h[a].next].is_free
  /\ BlocksContinuous(h, a, h[a].next)

\* Mistake: the absorbed header is not added to the capacity.
MergedWithNext_HeaderLost(h, a) ==
  LET n == h[a].next IN
  [b \in DOMAIN h \ {n} |->
     IF b = a
     THEN [next |-> h[n].next,
           capacity |-> h[a].capacity + h[n].capacity,
           is_free |-> h[a].is_free]
     ELSE h[b]]

\* The list after `a` has absorbed the block that follows it.
MergedWithNext(h, a) ==
  LET n == h[a].next IN
  [b \in DOMAIN h \ {n} |->
     IF b = a
     THEN [next |-> h[n].next,
           capacity |-> h[a].capacity + SizeFromCapacity(h[n].capacity),
           is_free |-> h[a].is_free]
     ELSE h[b]]

\* One call of try_merge_with_next.
TryMergeWithNext(h, a) == IF Mergeable(h, a) THEN MergedWithNext(h, a) ELSE h

\* Mistake: any remainder with room for a header is split off.
BlockSplittable_NoMinimum(h, a, q) ==
  h[a].is_free /\ (q + HeaderSize) % WordMod <= h[a].capacity

BlockSplittable(h, a, q) ==
  h[a].is_free /\ (q + HeaderSize + MinCapacity) % WordMod <= h[a].capacity

\* Mistake: the remainder's own header is counted as room for data.
Split_HeaderNotCounted(h, a, q) ==
  LET rest == a + q + HeaderSize IN
  [BlockInit(h, rest, h[a].capacity - q + HeaderSize, h[a].next)
     EXCEPT ![a] = [next |-> rest, capacity |-> q, is_free |-> h[a].is_free]]

\* Mistake: block->next is overwritten before the remainder gets it.
Split_TailLost(h, a, q) ==
  LET rest == a + q + HeaderSize IN
  [BlockInit(h, rest, h[a].capacity - q, NULL)
     EXCEPT ![a] = [next |-> rest, capacity |-> q, is_free |-> h[a].is_free]]

\* Block `a` cut after q bytes of data; the remainder is a block behind it.
Split(h, a, q) ==
  LET rest == a + q + HeaderSize IN
  [BlockInit(h, rest, h[a].capacity - q, h[a].next)
     EXCEPT ![a] = [next |-> rest, capacity |-> q, is_free |-> h[a].is_free]]

SplitIfTooBig(h, a, q) == IF BlockSplittable(h, a, q) THEN Split(h, a, q) ELSE h

\* Mistake: only the size is looked at.
GoodBlock_TakenToo(h, a, q) == h[a].capacity >= q

GoodBlock(h, a, q) == h[a].is_free /\ h[a].capacity >= q

-----------------------------------------------------------------------------
(* What makes the linked headers one list; the properties use it.          *)

\* Sets of headers that contain the successor of each of their members.  What
\* can be reached from a header is in every such set that contains it.
ClosedSets(h) ==
  {S \in SUBSET DOMAIN h : \A a \in S : h[a].next # NULL => h[a].next \in S}

\* Following next from `first` meets every header, and from every header the
\* last one: there is no cycle, no second end, and nothing cannot be reached.
OneList(h, first) ==
  /\ DOMAIN h \in ClosedSets(h)
  /\ DOMAIN h # {} =>
       /\ first \in DOMAIN h
       /\ \E last \in DOMAIN h :
            /\ h[last].next = NULL
            /\ \A S \in ClosedSets(h) : /\ first \in S => S = DOMAIN h
                                        /\ S # {} => last \in S

\* The headers from which a list leads to header a, but not a itself.
Before(h, a) == {b \in DOMAIN h : \E S \in ClosedSets(h) : a \in S /\ b \notin S}
=============================================================================
