--------------------------- MODULE MemAllocProofs ---------------------------
(***************************************************************************)
(* What holds of the allocator for every header size, page size, address   *)
(* space and request, and for whatever placement mmap chooses.             *)
(*                                                                         *)
(* First, what the operations on the block list preserve, for every list:  *)
(* a list that is laid out over the addresses m stays laid out over m when *)
(* a block is split, merged or taken, and over m and a fresh region when   *)
(* the region is appended behind the last block.                           *)
(*                                                                         *)
(* Second, the blocks of the heap partition the memory it has mapped.      *)
(* NoOverlap is not inductive by itself: a merge keeps it because the      *)
(* successor of a block is a block with no other predecessor, growth keeps *)
(* it because every block lies inside `mapped`, which fresh regions avoid, *)
(* and the loops run on because the block they stand on is never absorbed. *)
(* Ind adds these facts.                                                   *)
(*                                                                         *)
(* Third, what the list is good for: the headers stay one list, the search *)
(* of find_good_or_last leaves nothing useful behind, the second search    *)
(* finds what grow_heap has added, and with that the allocator implements  *)
(* the contract of MemAllocAbs.  The invariant is Ind together with        *)
(* Search, which says where a running _malloc has got to.                  *)
(***************************************************************************)
EXTENDS MemAlloc, TLAPS

-----------------------------------------------------------------------------
(* The block list.                                                         *)

Headers(h) ==
  /\ DOMAIN h \subseteq Nat \ {0}
  /\ h \in [DOMAIN h -> Header]

\* Following next stays among the blocks, and no block is followed twice.
Links(h) ==
  /\ \A a \in DOMAIN h : h[a].next \in DOMAIN h \union {NULL}
  /\ \A a, b \in DOMAIN h :
       (a # b /\ h[a].next # NULL) => h[a].next # h[b].next

Bounds(h) == \A a \in DOMAIN h : a + HeaderSize + h[a].capacity <= AddrLimit

Apart(h) ==
  \A a, b \in DOMAIN h :
    a # b => \/ a + HeaderSize + h[a].capacity <= b
             \/ b + HeaderSize + h[b].capacity <= a

Roomy(h) == \A a \in DOMAIN h : h[a].capacity >= MinCapacity

Inside(h, x, a) == a <= x /\ x < a + HeaderSize + h[a].capacity

Cover(h, m) == \A x \in Nat : x \in m <=> \E a \in DOMAIN h : Inside(h, x, a)

Layout(h, m) ==
  /\ Headers(h)
  /\ Links(h)
  /\ Bounds(h)
  /\ Apart(h)
  /\ Roomy(h)
  /\ Cover(h, m)

-----------------------------------------------------------------------------
(* Sizes.                                                                  *)

\* Inside the address space the size_t sums of the code do not wrap around.
LEMMA ModSmall == \A x \in Nat : x < WordMod => x % WordMod = x
  BY SizesAssumption

\* The size alloc_region maps is a number no smaller than REGION_MIN_SIZE.
LEMMA RegionSizeType ==
  ASSUME NEW q \in Nat
  PROVE  RegionActualSize(q) \in Nat /\ RegionActualSize(q) >= RegionMinSize
<1>1. PagesCount(q) \in Nat
  BY SizesAssumption DEF PagesCount
<1>2. PageSize * PagesCount(q) \in Nat
  BY <1>1, SizesAssumption
<1>3. WordMod \in Nat \ {0}
  BY SizesAssumption
<1>4. \A x \in Nat : x % WordMod \in Nat
  BY <1>3
<1>5. RoundPages(q) \in Nat
  BY <1>2, <1>4 DEF RoundPages
<1> QED BY <1>5, SizesAssumption DEF RegionActualSize, SizeMax

\* Every request is rounded up to BLOCK_MIN_CAPACITY.
LEMMA WantedType ==
  ASSUME NEW q \in Nat
  PROVE  Wanted(q) \in Nat /\ Wanted(q) >= MinCapacity /\ Wanted(q) >= q
  BY SizesAssumption DEF Wanted, SizeMax

-----------------------------------------------------------------------------
(* Operations on the list.                                                 *)

\* g is h with the flag of block a set to f.
Flagged(h, a, f, g) ==
  /\ DOMAIN g = DOMAIN h
  /\ \A b \in DOMAIN h : g[b].next = h[b].next /\ g[b].capacity = h[b].capacity
  /\ \A b \in DOMAIN h \ {a} : g[b] = h[b]
  /\ g[a].is_free = f

\* Taking or freeing a block changes nothing but its flag.
LEMMA FlagKeepsLayout ==
  ASSUME NEW h, NEW m, Layout(h, m), NEW a \in DOMAIN h, NEW f \in BOOLEAN
  PROVE  /\ Flagged(h, a, f, [h EXCEPT ![a].is_free = f])
         /\ Layout([h EXCEPT ![a].is_free = f], m)
<1> DEFINE g == [h EXCEPT ![a].is_free = f]
<1>1. h \in [DOMAIN h -> Header] /\ DOMAIN h \subseteq Nat \ {0}
  BY DEF Layout, Headers
<1>2. DOMAIN g = DOMAIN h
  OBVIOUS
<1>3. \A b \in DOMAIN h : g[b].next = h[b].next /\ g[b].capacity = h[b].capacity
  BY <1>1 DEF Header
<1>4. g[a].is_free = f
  BY <1>1 DEF Header
<1>5. g \in [DOMAIN g -> Header]
  BY <1>1 DEF Header
<1>6. \A b \in DOMAIN h \ {a} : g[b] = h[b]
  OBVIOUS
<1> HIDE DEF g
<1>7. Headers(g)
  BY <1>1, <1>2, <1>5 DEF Headers
<1>8. Links(g)
  BY <1>2, <1>3 DEF Layout, Links
<1>9. Bounds(g) /\ Roomy(g)
  BY <1>2, <1>3 DEF Layout, Bounds, Roomy
<1>10. Apart(g)
  BY <1>2, <1>3 DEF Layout, Apart
<1>11. Cover(g, m)
  BY <1>2, <1>3 DEF Layout, Cover, Inside
<1>12. Layout(g, m)
  BY <1>7, <1>8, <1>9, <1>10, <1>11 DEF Layout
<1>13. Flagged(h, a, f, g)
  BY <1>2, <1>3, <1>4, <1>6 DEF Flagged
<1> QED BY <1>12, <1>13 DEF g

\* g is h after block a has absorbed its successor n.
Absorbed(h, a, n, g) ==
  /\ n \in DOMAIN h /\ n # a /\ n # NULL
  /\ n = a + HeaderSize + h[a].capacity
  /\ h[a].is_free = TRUE /\ h[n].is_free = TRUE
  /\ DOMAIN g = DOMAIN h \ {n}
  /\ g = [b \in DOMAIN g |-> g[b]]
  /\ g[a] = [next |-> h[n].next,
             capacity |-> h[a].capacity + HeaderSize + h[n].capacity,
             is_free |-> TRUE]
  /\ \A b \in DOMAIN h \ {n, a} : g[b] = h[b]

\* What try_merge_with_next does to a list that is laid out: the successor is
\* gone, its bytes are in the block that absorbed it, nothing else changes.
LEMMA MergeResult ==
  ASSUME NEW h, NEW m, Layout(h, m), NEW a \in DOMAIN h, Mergeable(h, a)
  PROVE  Absorbed(h, a, h[a].next, MergedWithNext(h, a))
<1> DEFINE n == h[a].next
           g == MergedWithNext(h, a)
<1>1. n \in DOMAIN h /\ n = a + HeaderSize + h[a].capacity /\ n # NULL
  BY DEF Layout, Links, Mergeable, BlocksContinuous, BlockAfter
<1>2. h \in [DOMAIN h -> Header] /\ DOMAIN h \subseteq Nat \ {0}
  BY DEF Layout, Headers
<1>3. /\ h[a].capacity \in Nat /\ h[n].capacity \in Nat
      /\ a \in Nat /\ n \in Nat /\ n # a
      /\ h[a].is_free = TRUE
      /\ h[n].is_free = TRUE
  BY <1>1, <1>2, SizesAssumption DEF Header, Mergeable
<1>4. SizeFromCapacity(h[n].capacity) = h[n].capacity + HeaderSize
  <2>1. n + HeaderSize + h[n].capacity <= AddrLimit
    BY <1>1 DEF Layout, Bounds
  <2>2. h[n].capacity + HeaderSize \in Nat /\ h[n].capacity + HeaderSize < WordMod
    BY <2>1, <1>1, <1>3, SizesAssumption DEF NULL
  <2> QED BY <2>2, ModSmall DEF SizeFromCapacity
<1>5. DOMAIN g = DOMAIN h \ {n} /\ g = [b \in DOMAIN g |-> g[b]]
  BY DEF MergedWithNext
<1>6. g[a] = [next |-> h[n].next,
              capacity |-> h[a].capacity + SizeFromCapacity(h[n].capacity),
              is_free |-> h[a].is_free]
  BY <1>3 DEF MergedWithNext
<1>7. h[a].capacity + SizeFromCapacity(h[n].capacity) = h[a].capacity + HeaderSize + h[n].capacity
  BY <1>3, <1>4, SizesAssumption
<1>8. \A b \in DOMAIN h \ {n, a} : g[b] = h[b]
  BY DEF MergedWithNext
<1> HIDE DEF n, g
<1>9. g[a] = [next |-> h[n].next,
              capacity |-> h[a].capacity + HeaderSize + h[n].capacity,
              is_free |-> TRUE]
  BY <1>3, <1>6, <1>7
<1>10. Absorbed(h, a, n, g)
  BY <1>1, <1>3, <1>5, <1>8, <1>9 DEF Absorbed
<1> QED BY <1>10 DEF n, g

\* try_merge_with_next keeps the layout.
LEMMA MergeKeepsLayout ==
  ASSUME NEW h, NEW m, Layout(h, m), NEW a \in DOMAIN h, Mergeable(h, a)
  PROVE  Layout(MergedWithNext(h, a), m)
<1> DEFINE n == h[a].next
           g == MergedWithNext(h, a)
<1>1. /\ n \in DOMAIN h /\ n # a /\ n # NULL
      /\ n = a + HeaderSize + h[a].capacity
      /\ DOMAIN g = DOMAIN h \ {n}
      /\ g = [b \in DOMAIN g |-> g[b]]
      /\ g[a] = [next |-> h[n].next,
                 capacity |-> h[a].capacity + HeaderSize + h[n].capacity,
                 is_free |-> TRUE]
      /\ \A b \in DOMAIN h \ {n, a} : g[b] = h[b]
  <2>1. Absorbed(h, a, n, g)
    BY MergeResult
  <2> HIDE DEF n, g
  <2> QED BY <2>1 DEF Absorbed
<1>2. h \in [DOMAIN h -> Header] /\ DOMAIN h \subseteq Nat \ {0}
  BY DEF Layout, Headers
<1>3. \A b, c \in DOMAIN h : (b # c /\ h[b].next # NULL) => h[b].next # h[c].next
  BY DEF Layout, Links
<1>4. \A b \in DOMAIN h \ {a} : h[b].next # n
  BY <1>1, <1>3
<1> HIDE DEF n, g
<1>5. /\ h[a].capacity \in Nat /\ h[n].capacity \in Nat
      /\ h[n].next \in Nat /\ a \in Nat /\ n \in Nat
  BY <1>1, <1>2 DEF Header
<1>6. Headers(g)
  <2>1. g[a] \in Header
    BY <1>1, <1>5, SizesAssumption DEF Header
  <2>2. \A b \in DOMAIN g : g[b] \in Header
    BY <2>1, <1>1, <1>2
  <2> QED BY <2>2, <1>1, <1>2 DEF Headers
<1>7. Links(g)
  <2>1. \A b \in DOMAIN h : h[b].next \in DOMAIN h \union {NULL}
    BY DEF Layout, Links
  <2>2. \A b \in DOMAIN g : g[b].next \in DOMAIN g \union {NULL}
    BY <2>1, <1>1, <1>4
  <2>3. \A b, c \in DOMAIN g : (b # c /\ g[b].next # NULL) => g[b].next # g[c].next
    BY <1>1, <1>3
  <2> QED BY <2>2, <2>3 DEF Links
<1>8. Bounds(g)
  <2>1. n + HeaderSize + h[n].capacity <= AddrLimit
    BY <1>1 DEF Layout, Bounds
  <2>2. a + HeaderSize + g[a].capacity <= AddrLimit
    BY <2>1, <1>1, <1>5, SizesAssumption
  <2> QED BY <2>2, <1>1 DEF Layout, Bounds
<1>9. Apart(g)
  <2> SUFFICES ASSUME NEW b \in DOMAIN h \ {n}, NEW c \in DOMAIN h \ {n}, b # c
               PROVE \/ b + HeaderSize + g[b].capacity <= c
                     \/ c + HeaderSize + g[c].capacity <= b
    BY <1>1 DEF Apart
  <2>1. /\ b \in Nat /\ c \in Nat /\ h[b].capacity \in Nat /\ h[c].capacity \in Nat
    BY <1>2 DEF Header
  <2>2. \/ b + HeaderSize + h[b].capacity <= c
        \/ c + HeaderSize + h[c].capacity <= b
    BY DEF Layout, Apart
  <2>3. \/ b + HeaderSize + h[b].capacity <= n
        \/ n + HeaderSize + h[n].capacity <= b
    BY <1>1 DEF Layout, Apart
  <2>4. \/ c + HeaderSize + h[c].capacity <= n
        \/ n + HeaderSize + h[n].capacity <= c
    BY <1>1 DEF Layout, Apart
  <2>5. CASE b = a
    BY <2>5, <2>1, <2>2, <2>4, <1>1, <1>5, SizesAssumption
  <2>6. CASE c = a
    BY <2>6, <2>1, <2>2, <2>3, <1>1, <1>5, SizesAssumption
  <2>7. CASE b # a /\ c # a
    BY <2>7, <2>2, <1>1
  <2> QED BY <2>5, <2>6, <2>7
<1>10. Roomy(g)
  <2>1. \A b \in DOMAIN h : h[b].capacity >= MinCapacity
    BY DEF Layout, Roomy
  <2>2. g[a].capacity >= MinCapacity
    BY <2>1, <1>1, <1>5, SizesAssumption
  <2> QED BY <2>1, <2>2, <1>1 DEF Roomy
<1>11. Cover(g, m)
  <2> SUFFICES ASSUME NEW x \in Nat
               PROVE (\E b \in DOMAIN h : Inside(h, x, b)) <=> (\E b \in DOMAIN g : Inside(g, x, b))
    BY DEF Layout, Cover
  <2>1. \A b \in DOMAIN h \ {n, a} : Inside(g, x, b) <=> Inside(h, x, b)
    BY <1>1 DEF Inside
  <2>2. Inside(g, x, a) <=> Inside(h, x, a) \/ Inside(h, x, n)
    BY <1>1, <1>5, SizesAssumption DEF Inside
  <2> QED BY <2>1, <2>2, <1>1
<1>12. Layout(g, m)
  BY <1>6, <1>7, <1>8, <1>9, <1>10, <1>11 DEF Layout
<1> QED BY <1>12 DEF g

\* One call of try_merge_with_next, merging or not, keeps the layout.
LEMMA TryMergeKeepsLayout ==
  ASSUME NEW h, NEW m, Layout(h, m), NEW a \in DOMAIN h
  PROVE  Layout(TryMergeWithNext(h, a), m)
  BY MergeKeepsLayout DEF TryMergeWithNext

-----------------------------------------------------------------------------
(* Splitting.                                                              *)

\* g is h after block a was cut after q bytes, r being the remainder.
Cut(h, a, q, r, g) ==
  /\ r = a + q + HeaderSize
  /\ r \notin DOMAIN h
  /\ q + HeaderSize + MinCapacity <= h[a].capacity
  /\ DOMAIN g = DOMAIN h \union {r}
  /\ g = [b \in DOMAIN g |-> g[b]]
  /\ g[r] = [next |-> h[a].next,
             capacity |-> h[a].capacity - q - HeaderSize,
             is_free |-> TRUE]
  /\ g[a] = [next |-> r, capacity |-> q, is_free |-> TRUE]
  /\ \A b \in DOMAIN h \ {a} : g[b] = h[b]

\* What split_if_too_big does to a list that is laid out.
LEMMA SplitResult ==
  ASSUME NEW h, NEW m, Layout(h, m), NEW a \in DOMAIN h, NEW q \in Nat,
         h[a].capacity >= q, BlockSplittable(h, a, q)
  PROVE  Cut(h, a, q, a + q + HeaderSize, Split(h, a, q))
<1> DEFINE r == a + q + HeaderSize
           g == Split(h, a, q)
<1>1. /\ h \in [DOMAIN h -> Header] /\ DOMAIN h \subseteq Nat \ {0}
      /\ h[a] \in Header /\ h[a].capacity \in Nat /\ a \in Nat \ {0}
      /\ h[a].is_free = TRUE
  BY DEF Layout, Headers, Header, BlockSplittable
<1>2. a + HeaderSize + h[a].capacity <= AddrLimit
  BY DEF Layout, Bounds
<1>3. q + HeaderSize + MinCapacity <= h[a].capacity
  <2>1. /\ q + HeaderSize + MinCapacity \in Nat
        /\ q + HeaderSize + MinCapacity < WordMod
    BY <1>1, <1>2, SizesAssumption
  <2> QED BY <2>1, ModSmall DEF BlockSplittable
<1>4. r \notin DOMAIN h
  <2> SUFFICES ASSUME r \in DOMAIN h
               PROVE FALSE
    OBVIOUS
  <2>1. r # a
    BY <1>1, SizesAssumption
  <2>2. \/ a + HeaderSize + h[a].capacity <= r
        \/ r + HeaderSize + h[r].capacity <= a
    BY <2>1 DEF Layout, Apart
  <2>3. h[r].capacity \in Nat
    BY <1>1 DEF Header
  <2> QED BY <2>2, <2>3, <1>1, <1>3, SizesAssumption
<1>5. CapacityFromSize(h[a].capacity - q) = h[a].capacity - q - HeaderSize
  <2>1. /\ h[a].capacity - q - HeaderSize \in Nat
        /\ h[a].capacity - q - HeaderSize < WordMod
    BY <1>1, <1>2, <1>3, SizesAssumption
  <2> QED BY <2>1, ModSmall DEF CapacityFromSize
<1>6. DOMAIN g = DOMAIN h \union {r} /\ g = [b \in DOMAIN g |-> g[b]]
  BY DEF Split, BlockInit
<1>7. g[a] = [next |-> r, capacity |-> q, is_free |-> TRUE]
  BY <1>1 DEF Split, BlockInit
<1>8. \A b \in DOMAIN h \ {a} : g[b] = h[b]
  BY <1>4 DEF Split, BlockInit
<1>9. g[r] = [next |-> h[a].next,
              capacity |-> CapacityFromSize(h[a].capacity - q),
              is_free |-> TRUE]
  BY <1>4 DEF Split, BlockInit
<1> HIDE DEF g, r
<1>10. g[r] = [next |-> h[a].next,
               capacity |-> h[a].capacity - q - HeaderSize,
               is_free |-> TRUE]
  BY <1>5, <1>9
<1>11. r = a + q + HeaderSize
  BY DEF r
<1>12. Cut(h, a, q, r, g)
  BY <1>3, <1>4, <1>6, <1>7, <1>8, <1>10, <1>11 DEF Cut
<1> QED BY <1>12 DEF g, r

\* split_if_too_big keeps the layout.
LEMMA SplitKeepsLayout ==
  ASSUME NEW h, NEW m, Layout(h, m), NEW a \in DOMAIN h, NEW q \in Nat,
         q >= MinCapacity, h[a].capacity >= q, BlockSplittable(h, a, q)
  PROVE  Layout(Split(h, a, q), m)
<1> DEFINE r == a + q + HeaderSize
           g == Split(h, a, q)
<1>1. Cut(h, a, q, r, g)
  BY SplitResult
<1> HIDE DEF g, r
<1>2. /\ r = a + q + HeaderSize
      /\ r \notin DOMAIN h
      /\ q + HeaderSize + MinCapacity <= h[a].capacity
      /\ DOMAIN g = DOMAIN h \union {r}
      /\ g = [b \in DOMAIN g |-> g[b]]
      /\ g[r] = [next |-> h[a].next,
                 capacity |-> h[a].capacity - q - HeaderSize,
                 is_free |-> TRUE]
      /\ g[a] = [next |-> r, capacity |-> q, is_free |-> TRUE]
      /\ \A b \in DOMAIN h \ {a} : g[b] = h[b]
  BY <1>1 DEF Cut
<1>3. /\ h \in [DOMAIN h -> Header] /\ DOMAIN h \subseteq Nat \ {0}
      /\ h[a].capacity \in Nat /\ h[a].next \in Nat /\ a \in Nat \ {0}
      /\ r \in Nat \ {0} /\ r # a
  <2>1. h \in [DOMAIN h -> Header] /\ DOMAIN h \subseteq Nat \ {0}
    BY DEF Layout, Headers
  <2>2. h[a].capacity \in Nat /\ h[a].next \in Nat /\ a \in Nat \ {0}
    BY <2>1 DEF Header
  <2>3. r \in Nat \ {0} /\ r # a
    BY <2>2, <1>2, SizesAssumption
  <2> QED BY <2>1, <2>2, <2>3
<1>4. /\ g[a].next = r /\ g[a].capacity = q
      /\ g[r].next = h[a].next /\ g[r].capacity = h[a].capacity - q - HeaderSize
  BY <1>2
<1>5. Headers(g)
  <2>1. g[a] \in Header
    BY <1>2, <1>3 DEF Header
  <2>2. g[r] \in Header
    <3>1. h[a].capacity - q - HeaderSize \in Nat
      BY <1>2, <1>3, SizesAssumption
    <3> QED BY <3>1, <1>2, <1>3 DEF Header
  <2>3. \A b \in DOMAIN g : g[b] \in Header
    BY <2>1, <2>2, <1>2, <1>3
  <2> QED BY <2>3, <1>2, <1>3 DEF Headers
<1>6. Links(g)
  <2>1. \A b \in DOMAIN h : h[b].next \in DOMAIN h \union {NULL}
    BY DEF Layout, Links
  <2>2. \A b, c \in DOMAIN h : (b # c /\ h[b].next # NULL) => h[b].next # h[c].next
    BY DEF Layout, Links
  <2>3. \A b \in DOMAIN g : g[b].next \in DOMAIN g \union {NULL}
    BY <2>1, <1>2, <1>3, <1>4
  <2>4. \A b, c \in DOMAIN g : (b # c /\ g[b].next # NULL) => g[b].next # g[c].next
    BY <2>1, <2>2, <1>2, <1>3, <1>4 DEF NULL
  <2> QED BY <2>3, <2>4 DEF Links
<1>7. Bounds(g)
  <2>1. a + HeaderSize + h[a].capacity <= AddrLimit
    BY DEF Layout, Bounds
  <2>2. r + HeaderSize + g[r].capacity <= AddrLimit
    BY <2>1, <1>2, <1>3, <1>4, SizesAssumption
  <2>3. a + HeaderSize + g[a].capacity <= AddrLimit
    BY <2>1, <1>2, <1>3, <1>4, SizesAssumption
  <2> QED BY <2>2, <2>3, <1>2 DEF Layout, Bounds
<1>8. Apart(g)
  <2>1. \A b \in DOMAIN h \ {a} :
          \/ a + HeaderSize + h[a].capacity <= b
          \/ b + HeaderSize + h[b].capacity <= a
    BY DEF Layout, Apart
  <2>2. \A b \in DOMAIN h : b \in Nat /\ h[b].capacity \in Nat
    BY <1>3 DEF Header
  <2>3. a + HeaderSize + g[a].capacity <= r
    BY <1>2, <1>3, <1>4, SizesAssumption
  <2>4. \A b \in DOMAIN h \ {a} :
          /\ \/ a + HeaderSize + g[a].capacity <= b
             \/ b + HeaderSize + g[b].capacity <= a
          /\ \/ r + HeaderSize + g[r].capacity <= b
             \/ b + HeaderSize + g[b].capacity <= r
    <3> TAKE b \in DOMAIN h \ {a}
    <3>1. g[b] = h[b]
      BY <1>2
    <3>2. b \in Nat /\ h[b].capacity \in Nat
      BY <2>2
    <3>3. \/ a + HeaderSize + h[a].capacity <= b
          \/ b + HeaderSize + h[b].capacity <= a
      BY <2>1
    <3> QED BY <3>1, <3>2, <3>3, <1>2, <1>3, <1>4, SizesAssumption
  <2>5. \A b, c \in DOMAIN h \ {a} :
          b # c => \/ b + HeaderSize + g[b].capacity <= c
                   \/ c + HeaderSize + g[c].capacity <= b
    BY <1>2 DEF Layout, Apart
  <2> QED BY <2>3, <2>4, <2>5, <1>2 DEF Apart
<1>9. Roomy(g)
  <2>1. g[r].capacity >= MinCapacity
    BY <1>2, <1>3, <1>4, SizesAssumption
  <2>2. g[a].capacity >= MinCapacity
    BY <1>4
  <2> QED BY <2>1, <2>2, <1>2 DEF Layout, Roomy
<1>10. Cover(g, m)
  <2> SUFFICES ASSUME NEW x \in Nat
               PROVE (\E b \in DOMAIN h : Inside(h, x, b)) <=> (\E b \in DOMAIN g : Inside(g, x, b))
    BY DEF Layout, Cover
  <2>1. \A b \in DOMAIN h \ {a} : Inside(g, x, b) <=> Inside(h, x, b)
    BY <1>2 DEF Inside
  <2>2. Inside(h, x, a) <=> Inside(g, x, a) \/ Inside(g, x, r)
    BY <1>2, <1>3, <1>4, SizesAssumption DEF Inside
  <2> QED BY <2>1, <2>2, <1>2
<1>11. Layout(g, m)
  BY <1>5, <1>6, <1>7, <1>8, <1>9, <1>10 DEF Layout
<1> QED BY <1>11 DEF g

-----------------------------------------------------------------------------
(* Regions.                                                                *)

\* g is h with a block over the region of `size` bytes at r behind it.
Extended(h, r, size, g) ==
  /\ r \notin DOMAIN h
  /\ DOMAIN g = DOMAIN h \union {r}
  /\ g = [b \in DOMAIN g |-> g[b]]
  /\ g[r] = [next |-> NULL, capacity |-> size - HeaderSize, is_free |-> TRUE]
  /\ \A b \in DOMAIN h : g[b] = h[b]

\* block_init of a region that shares no byte with the heap.
LEMMA RegionResult ==
  ASSUME NEW h, NEW r \in Nat \ {0}, NEW size \in Nat,
         size >= RegionMinSize, r + size <= AddrLimit, r \notin DOMAIN h
  PROVE  Extended(h, r, size, BlockInit(h, r, size, NULL))
<1>1. CapacityFromSize(size) = size - HeaderSize
  <2>1. size - HeaderSize \in Nat /\ size - HeaderSize < WordMod
    BY SizesAssumption
  <2> QED BY <2>1, ModSmall DEF CapacityFromSize
<1> QED BY <1>1 DEF Extended, BlockInit

\* A region mapped away from the heap's memory m adds a block of its own.  The
\* block may already be linked from `last`, whose next may be r.
LEMMA RegionKeepsLayout ==
  ASSUME NEW h, NEW m, NEW h0, Layout(h0, m), NEW r \in Nat \ {0}, NEW size \in Nat,
         size >= RegionMinSize, r + size <= AddrLimit,
         \A x \in m : ~(r <= x /\ x < r + size),
         h \in [DOMAIN h0 -> Header],
         \A b \in DOMAIN h0 : h[b].capacity = h0[b].capacity,
         \A b \in DOMAIN h : h[b].next \in DOMAIN h \union {NULL, r},
         \A b, c \in DOMAIN h : (b # c /\ h[b].next # NULL) => h[b].next # h[c].next
  PROVE  Layout(BlockInit(h, r, size, NULL), m \union (r .. r + size - 1))
<1> DEFINE g == BlockInit(h, r, size, NULL)
           p == m \union (r .. r + size - 1)
<1>1. /\ DOMAIN h = DOMAIN h0 /\ DOMAIN h0 \subseteq Nat \ {0}
      /\ \A b \in DOMAIN h : b \in Nat /\ h[b].capacity \in Nat /\ h[b] \in Header
  BY DEF Layout, Headers, Header
<1>2. \A x \in Nat : x \in m <=> \E a \in DOMAIN h : Inside(h, x, a)
  BY <1>1 DEF Layout, Cover, Inside
<1>3. \A b \in DOMAIN h : \/ b + HeaderSize + h[b].capacity <= r
                          \/ r + size <= b
  <2> TAKE b \in DOMAIN h
  <2>1. b \in Nat /\ h[b].capacity \in Nat
    BY <1>1
  <2>2. b \in m
    BY <2>1, <1>2, SizesAssumption DEF Inside
  <2>3. CASE b <= r
    <3>1. r \in m \/ b + HeaderSize + h[b].capacity <= r
      BY <2>1, <2>3, <1>2, SizesAssumption DEF Inside
    <3>2. r \notin m
      BY SizesAssumption
    <3> QED BY <3>1, <3>2
  <2>4. CASE r < b
    BY <2>1, <2>2, <2>4
  <2> QED BY <2>1, <2>3, <2>4
<1>4. r \notin DOMAIN h
  BY <1>1, <1>3, SizesAssumption
<1>5. Extended(h, r, size, g)
  BY <1>4, RegionResult
<1> HIDE DEF g
<1>6. /\ DOMAIN g = DOMAIN h \union {r}
      /\ g = [b \in DOMAIN g |-> g[b]]
      /\ g[r] = [next |-> NULL, capacity |-> size - HeaderSize, is_free |-> TRUE]
      /\ \A b \in DOMAIN h : g[b] = h[b]
  BY <1>5 DEF Extended
<1>7. /\ size - HeaderSize \in Nat
      /\ g[r].next = NULL /\ g[r].capacity = size - HeaderSize
  BY <1>6, SizesAssumption
<1>8. Headers(g)
  <2>1. g[r] \in Header
    BY <1>6, <1>7 DEF Header, NULL
  <2> QED BY <2>1, <1>1, <1>6 DEF Headers
<1>9. Links(g)
  <2>1. \A b \in DOMAIN g : g[b].next \in DOMAIN g \union {NULL}
    BY <1>6, <1>7
  <2>2. \A b, c \in DOMAIN g : (b # c /\ g[b].next # NULL) => g[b].next # g[c].next
    BY <1>6, <1>7
  <2> QED BY <2>1, <2>2 DEF Links
<1>10. Bounds(g)
  <2>1. \A b \in DOMAIN h : b + HeaderSize + g[b].capacity <= AddrLimit
    BY <1>1, <1>6 DEF Layout, Bounds
  <2>2. r + HeaderSize + g[r].capacity <= AddrLimit
    BY <1>7, SizesAssumption
  <2> QED BY <2>1, <2>2, <1>6 DEF Bounds
<1>11. Apart(g)
  <2>1. r + HeaderSize + g[r].capacity = r + size
    BY <1>7, SizesAssumption
  <2>2. \A b, c \in DOMAIN h :
          b # c => \/ b + HeaderSize + g[b].capacity <= c
                   \/ c + HeaderSize + g[c].capacity <= b
    BY <1>1, <1>6 DEF Layout, Apart
  <2>3. \A b \in DOMAIN h : \/ b + HeaderSize + g[b].capacity <= r
                            \/ r + HeaderSize + g[r].capacity <= b
    BY <2>1, <1>3, <1>6
  <2> QED BY <2>2, <2>3, <1>6 DEF Apart
<1>12. Roomy(g)
  <2>1. g[r].capacity >= MinCapacity
    BY <1>7, SizesAssumption
  <2> QED BY <2>1, <1>1, <1>6 DEF Layout, Roomy
<1>13. Cover(g, p)
  <2> SUFFICES ASSUME NEW x \in Nat
               PROVE x \in p <=> \E b \in DOMAIN g : Inside(g, x, b)
    BY DEF Cover
  <2>1. \A b \in DOMAIN h : Inside(g, x, b) <=> Inside(h, x, b)
    BY <1>6 DEF Inside
  <2>2. Inside(g, x, r) <=> x \in r .. r + size - 1
    BY <1>7, SizesAssumption DEF Inside
  <2> QED BY <2>1, <2>2, <1>2, <1>6
<1>14. Layout(g, p)
  BY <1>8, <1>9, <1>10, <1>11, <1>12, <1>13 DEF Layout
<1> QED BY <1>14 DEF g
-----------------------------------------------------------------------------
(* The headers stay one list.  Closed sets of the new list are turned into *)
(* closed sets of the old one: that takes the place of an induction along  *)
(* the list.                                                               *)

\* What it takes to be a closed set.
LEMMA ClosedSet ==
  ASSUME NEW h, NEW S
  PROVE  S \in ClosedSets(h) <=>
           /\ S \subseteq DOMAIN h
           /\ \A a \in S : h[a].next # NULL => h[a].next \in S
  BY DEF ClosedSets

\* A list with a header in it has a first and a last one.
LEMMA ListEnd ==
  ASSUME NEW h, NEW first, OneList(h, first), NEW a \in DOMAIN h
  PROVE  /\ first \in DOMAIN h
         /\ \E last \in DOMAIN h :
              /\ h[last].next = NULL
              /\ \A S \in ClosedSets(h) : /\ first \in S => S = DOMAIN h
                                          /\ S # {} => last \in S
  BY DEF OneList

\* Whether headers form a list depends on their links only.
LEMMA SameLinks ==
  ASSUME NEW h, NEW g, DOMAIN g = DOMAIN h,
         \A b \in DOMAIN h : g[b].next = h[b].next
  PROVE  /\ ClosedSets(g) = ClosedSets(h)
         /\ \A a : OneList(g, a) <=> OneList(h, a)
         /\ \A a : Before(g, a) = Before(h, a)
<1>1. ClosedSets(g) = ClosedSets(h)
  BY DEF ClosedSets
<1>2. \A a : OneList(g, a) <=> OneList(h, a)
  BY <1>1 DEF OneList
<1>3. \A a : Before(g, a) = Before(h, a)
  BY <1>1 DEF Before
<1> QED BY <1>1, <1>2, <1>3

\* Nothing lies before the first header.
LEMMA NothingBeforeFirst ==
  ASSUME NEW h, NEW first, OneList(h, first)
  PROVE  Before(h, first) = {}
  BY DEF OneList, Before

\* One step along the list leaves one more header behind.
LEMMA BeforeNext ==
  ASSUME NEW h, NEW a \in DOMAIN h, NEW b \in Before(h, h[a].next)
  PROVE  b = a \/ b \in Before(h, a)
<1>1. b \in DOMAIN h /\ \E S \in ClosedSets(h) : h[a].next \in S /\ b \notin S
  BY DEF Before
<1>2. PICK S \in ClosedSets(h) : h[a].next \in S /\ b \notin S
  BY <1>1
<1>3. S \union {a} \in ClosedSets(h)
  <2>1. /\ S \subseteq DOMAIN h
        /\ \A c \in S : h[c].next # NULL => h[c].next \in S
    BY ClosedSet
  <2>2. \A c \in S \union {a} : h[c].next # NULL => h[c].next \in S \union {a}
    BY <1>2, <2>1
  <2>3. S \union {a} \subseteq DOMAIN h
    BY <2>1
  <2> QED BY <2>2, <2>3, ClosedSet
<1>4. CASE b # a
  <2>1. a \in S \union {a} /\ b \notin S \union {a}
    BY <1>2, <1>4
  <2> QED BY <2>1, <1>1, <1>3 DEF Before
<1> QED BY <1>4

\* A list has one end.
LEMMA OneEnd ==
  ASSUME NEW h, NEW first, OneList(h, first),
         NEW a \in DOMAIN h, h[a].next = NULL,
         NEW b \in DOMAIN h, h[b].next = NULL
  PROVE  a = b
<1>1. {a} \in ClosedSets(h) /\ {b} \in ClosedSets(h)
  BY ClosedSet
<1>2. PICK last \in DOMAIN h :
        /\ h[last].next = NULL
        /\ \A S \in ClosedSets(h) : /\ first \in S => S = DOMAIN h
                                    /\ S # {} => last \in S
  BY ListEnd
<1>3. last \in {a} /\ last \in {b}
  BY <1>1, <1>2
<1> QED BY <1>3

\* A list of one header.
LEMMA SingleList ==
  ASSUME NEW h, NEW a, DOMAIN h = {a}, h[a].next = NULL
  PROVE  OneList(h, a)
<1>1. \A S \in ClosedSets(h) : S = {} \/ S = {a}
  <2> TAKE S \in ClosedSets(h)
  <2>1. S \subseteq {a}
    BY ClosedSet
  <2> QED BY <2>1
<1>2. DOMAIN h \in ClosedSets(h)
  BY ClosedSet
<1> QED BY <1>1, <1>2 DEF OneList

\* Merging takes the successor out of the list; a header that is behind block
\* a stays behind it.
LEMMA MergeKeepsList ==
  ASSUME NEW h, NEW m, Layout(h, m), NEW a \in DOMAIN h, Mergeable(h, a),
         NEW first, OneList(h, first), first # h[a].next
  PROVE  /\ OneList(MergedWithNext(h, a), first)
         /\ Before(MergedWithNext(h, a), a) \subseteq Before(h, a)
<1> DEFINE n == h[a].next
           g == MergedWithNext(h, a)
           Old(S) == IF a \in S THEN S \union {n} ELSE S
<1>1. /\ n \in DOMAIN h /\ n # a /\ n # NULL
      /\ DOMAIN g = DOMAIN h \ {n}
      /\ g[a].next = h[n].next
      /\ \A b \in DOMAIN h \ {n, a} : g[b] = h[b]
  <2>1. Absorbed(h, a, n, g)
    BY MergeResult
  <2> HIDE DEF n, g
  <2> QED BY <2>1 DEF Absorbed
<1>2. \A b \in DOMAIN g : g[b].next # NULL => g[b].next \in DOMAIN g
  BY MergeKeepsLayout DEF Layout, Links
<1>3. PICK last \in DOMAIN h :
        /\ h[last].next = NULL
        /\ \A S \in ClosedSets(h) : /\ first \in S => S = DOMAIN h
                                    /\ S # {} => last \in S
  BY DEF OneList
<1>4. first \in DOMAIN g
  BY <1>1 DEF OneList
<1> HIDE DEF g
<1>5. ASSUME NEW S \in ClosedSets(g)
      PROVE  /\ Old(S) \in ClosedSets(h)
             /\ S = Old(S) \ {n}
             /\ n \in Old(S) => a \in S
  <2>1. S \subseteq DOMAIN g /\ \A b \in S : g[b].next # NULL => g[b].next \in S
    BY DEF ClosedSets
  <2>2. Old(S) \subseteq DOMAIN h
    BY <2>1, <1>1
  <2>3. ASSUME NEW b \in Old(S), h[b].next # NULL
        PROVE  h[b].next \in Old(S)
    <3>1. CASE b = a
      BY <3>1, <2>3, <2>1, <1>1
    <3>2. CASE b = n
      <4>1. a \in S
        BY <3>2, <2>1, <1>1
      <4> QED BY <4>1, <3>2, <2>3, <2>1, <1>1
    <3>3. CASE b # a /\ b # n
      BY <3>3, <2>3, <2>1, <1>1
    <3> QED BY <3>1, <3>2, <3>3
  <2> QED BY <2>1, <2>2, <2>3, <1>1 DEF ClosedSets
<1> HIDE DEF Old
<1>6. OneList(g, first)
  <2> DEFINE end == IF last = n THEN a ELSE last
  <2>1. DOMAIN g \in ClosedSets(g)
    BY <1>2, ClosedSet
  <2>2. end \in DOMAIN g /\ g[end].next = NULL
    <3>1. last # a
      BY <1>1, <1>3
    <3> QED BY <3>1, <1>1, <1>3
  <2>3. ASSUME NEW S \in ClosedSets(g)
        PROVE  /\ first \in S => S = DOMAIN g
               /\ S # {} => end \in S
    <3>1. Old(S) \in ClosedSets(h) /\ S = Old(S) \ {n} /\ (n \in Old(S) => a \in S)
      BY <1>5
    <3>2. first \in S => Old(S) = DOMAIN h
      BY <3>1, <1>3
    <3>3. S # {} => last \in Old(S)
      BY <3>1, <1>3
    <3> QED BY <3>1, <3>2, <3>3, <1>1
  <2> HIDE DEF end
  <2> QED BY <2>1, <2>2, <2>3, <1>4 DEF OneList
<1>7. ASSUME NEW b \in Before(g, a)
      PROVE  b \in Before(h, a)
  <2>1. PICK S \in ClosedSets(g) : a \in S /\ b \notin S
    BY DEF Before
  <2>2. b \in DOMAIN g
    BY DEF Before
  <2>3. Old(S) \in ClosedSets(h) /\ S = Old(S) \ {n}
    BY <1>5
  <2>4. a \in Old(S) /\ b \notin Old(S) /\ b \in DOMAIN h
    BY <2>1, <2>2, <2>3, <1>1
  <2> QED BY <2>3, <2>4 DEF Before
<1> QED BY <1>6, <1>7 DEF g

\* The remainder of a split takes its place behind the block it was cut from.
LEMMA SplitKeepsList ==
  ASSUME NEW h, NEW m, Layout(h, m), NEW a \in DOMAIN h, NEW q \in Nat, NEW r, NEW g,
         Cut(h, a, q, r, g), NEW first, OneList(h, first)
  PROVE  OneList(g, first)
<1>0. r # NULL
  <2>1. a \in Nat \ {0} /\ r = a + q + HeaderSize
    BY DEF Cut, Layout, Headers
  <2> QED BY <2>1, SizesAssumption DEF NULL
<1>1. /\ r \notin DOMAIN h
      /\ DOMAIN g = DOMAIN h \union {r}
      /\ g[a].next = r /\ g[r].next = h[a].next
      /\ \A b \in DOMAIN h \ {a} : g[b].next = h[b].next
  BY DEF Cut
<1>2. \A b \in DOMAIN h : h[b].next \in DOMAIN h \union {NULL}
  BY DEF Layout, Links
<1>3. PICK last \in DOMAIN h :
        /\ h[last].next = NULL
        /\ \A S \in ClosedSets(h) : /\ first \in S => S = DOMAIN h
                                    /\ S # {} => last \in S
  BY DEF OneList
<1>4. first \in DOMAIN h
  BY DEF OneList
<1>5. ASSUME NEW S \in ClosedSets(g)
      PROVE  S \ {r} \in ClosedSets(h)
  <2>1. S \subseteq DOMAIN g /\ \A b \in S : g[b].next # NULL => g[b].next \in S
    BY DEF ClosedSets
  <2>2. ASSUME NEW b \in S \ {r}, h[b].next # NULL
        PROVE  h[b].next \in S \ {r}
    <3>1. b \in DOMAIN h
      BY <2>1, <1>1
    <3>2. h[b].next \in DOMAIN h
      BY <2>2, <3>1, <1>2
    <3>3. CASE b = a
      <4>1. a \in DOMAIN h /\ r # NULL => r \in S
        BY <3>3, <2>1, <1>1
      <4> QED BY <3>2, <3>3, <4>1, <1>0, <2>1, <2>2, <1>1
    <3>4. CASE b # a
      BY <3>1, <3>2, <3>4, <2>1, <2>2, <1>1
    <3> QED BY <3>3, <3>4
  <2> QED BY <2>1, <2>2, <1>1 DEF ClosedSets
<1> DEFINE end == IF last = a THEN r ELSE last
<1>6. DOMAIN g \in ClosedSets(g)
  BY <1>1, <1>2 DEF ClosedSets
<1>7. end \in DOMAIN g /\ g[end].next = NULL
  BY <1>1, <1>3
<1>8. ASSUME NEW S \in ClosedSets(g)
      PROVE  /\ first \in S => S = DOMAIN g
             /\ S # {} => end \in S
  <2>1. S \ {r} \in ClosedSets(h)
    BY <1>5
  <2>2. S \subseteq DOMAIN g /\ \A b \in S : g[b].next # NULL => g[b].next \in S
    BY DEF ClosedSets
  <2>3. a \in S => r \in S
    BY <2>2, <1>0, <1>1
  <2>4. first \in S => S = DOMAIN g
    <3> SUFFICES ASSUME first \in S PROVE S = DOMAIN g
      OBVIOUS
    <3>1. S \ {r} = DOMAIN h
      BY <2>1, <1>1, <1>3, <1>4
    <3> QED BY <3>1, <2>3, <1>1
  <2>5. S # {} => end \in S
    <3>1. CASE S \ {r} # {}
      <4>1. last \in S \ {r}
        BY <3>1, <2>1, <1>3
      <4> QED BY <4>1, <2>3
    <3>2. CASE S = {r}
      <4>1. h[a].next = NULL
        BY <3>2, <2>2, <1>1, <1>2
      <4>2. last = a
        BY <4>1, <1>3, OneEnd
      <4> QED BY <3>2, <4>2
    <3> QED BY <3>1, <3>2
  <2> QED BY <2>4, <2>5
<1> HIDE DEF end
<1> QED BY <1>1, <1>4, <1>6, <1>7, <1>8 DEF OneList

\* A header linked behind the last one becomes the last one.
LEMMA AppendKeepsList ==
  ASSUME NEW h, NEW m, Layout(h, m), NEW first, OneList(h, first),
         NEW a \in DOMAIN h, h[a].next = NULL, NEW r, r # NULL, r \notin DOMAIN h,
         NEW g, DOMAIN g = DOMAIN h \union {r}, g[r].next = NULL, g[a].next = r,
         \A b \in DOMAIN h \ {a} : g[b].next = h[b].next
  PROVE  OneList(g, first)
<1>1. \A b \in DOMAIN h : h[b].next \in DOMAIN h \union {NULL}
  BY DEF Layout, Links
<1>2. PICK last \in DOMAIN h :
        /\ h[last].next = NULL
        /\ \A S \in ClosedSets(h) : /\ first \in S => S = DOMAIN h
                                    /\ S # {} => last \in S
  BY DEF OneList
<1>3. last = a /\ first \in DOMAIN h
  BY <1>2, OneEnd DEF OneList
<1>4. DOMAIN g \in ClosedSets(g)
  BY <1>1 DEF ClosedSets
<1>5. ASSUME NEW S \in ClosedSets(g)
      PROVE  /\ first \in S => S = DOMAIN g
             /\ S # {} => r \in S
  <2>1. S \subseteq DOMAIN g /\ \A b \in S : g[b].next # NULL => g[b].next \in S
    BY DEF ClosedSets
  <2>2. S \ {r} \in ClosedSets(h)
    BY <2>1, <1>1 DEF ClosedSets
  <2>3. a \in S => r \in S
    BY <2>1
  <2>4. first \in S => S \ {r} = DOMAIN h
    BY <2>2, <1>2, <1>3
  <2>5. S \ {r} # {} => a \in S
    BY <2>2, <1>2, <1>3
  <2> QED BY <2>3, <2>4, <2>5
<1> QED BY <1>3, <1>4, <1>5 DEF OneList

-----------------------------------------------------------------------------
(* The blocks partition the memory.                                        *)

\* The first block is never absorbed: nothing points to it.  When heap_init
\* put it elsewhere than HEAP_START, no malloc ever succeeds.
Head ==
  /\ heap # NULL => heap \in Blocks
  /\ \A a \in Blocks : hdr[a].next = NULL \/ hdr[a].next # heap
  /\ heap # HEAP_START => Blocks \subseteq {heap}
  /\ pc = "start" => Blocks = {} /\ mapped = {} /\ heap = NULL /\ lent = {}
  /\ pc \in {"scan", "grow"} => heap = HEAP_START

Control ==
  /\ mapped \intersect foreign = {}
  /\ pc = "grow" => hdr[cur].next = NULL

Ind == TypeOK /\ Layout(hdr, mapped) /\ Head /\ Control

-----------------------------------------------------------------------------
\* What alloc_region returns, unless it is NULL, is a range of the address
\* space.
LEMMA PlacementRange ==
  ASSUME NEW addr \in Nat, NEW size \in Nat, NEW r \in Placements(addr, size),
         r # NULL
  PROVE  r \in Nat \ {0} /\ r + size <= AddrLimit
  BY SizesAssumption DEF Placements, FixedFits, UnusedRanges, NULL

\* grow_heap asks for a region that has room for the minimal block.
LEMMA GrowSizeType ==
  ASSUME NEW q \in Words
  PROVE  GrowSize(q) \in Nat /\ GrowSize(q) >= RegionMinSize
<1>1. WordMod \in Nat \ {0}
  BY SizesAssumption
<1>2. \A x \in Nat : x % WordMod \in Nat
  BY <1>1
<1>3. q \in Nat
  BY <1>1 DEF Words
<1>4. Wanted(q) + HeaderSize \in Nat
  BY <1>3, WantedType, SizesAssumption
<1>5. ((Wanted(q) + HeaderSize) % WordMod) + HeaderSize \in Nat
  BY <1>2, <1>4, SizesAssumption
<1>6. SizeFromCapacity((Wanted(q) + HeaderSize) % WordMod) \in Nat
  BY <1>2, <1>5 DEF SizeFromCapacity
<1> QED BY <1>6, RegionSizeType DEF GrowSize

\* What the layout says of a single block.
LEMMA BlockType ==
  ASSUME TypeOK, Layout(hdr, mapped), NEW a \in Blocks
  PROVE  /\ a \in Nat \ {0}
         /\ hdr[a] \in Header
         /\ hdr[a].next \in Nat /\ hdr[a].capacity \in Nat /\ hdr[a].is_free \in BOOLEAN
         /\ hdr[a].next # NULL => hdr[a].next \in Blocks
         /\ BlockAfter(hdr, a) \in Nat
<1>1. a \in Nat \ {0} /\ hdr[a] \in Header
  BY DEF Layout, Headers, Blocks
<1>2. hdr[a].next \in Nat /\ hdr[a].capacity \in Nat /\ hdr[a].is_free \in BOOLEAN
  BY <1>1 DEF Header
<1>3. hdr[a].next # NULL => hdr[a].next \in Blocks
  BY DEF Layout, Links, Blocks
<1> QED BY <1>1, <1>2, <1>3, SizesAssumption DEF BlockAfter

-----------------------------------------------------------------------------
\* Before heap_init there is no block and nothing is mapped: the invariant holds.
LEMMA InitInd == Init => Ind
<1> SUFFICES ASSUME Init PROVE Ind
  OBVIOUS
<1>1. DOMAIN hdr = {} /\ hdr \in [{} -> Header]
  BY DEF Init
<1>2. TypeOK
  <2>1. 0 \in Words
    BY SizesAssumption DEF Words
  <2>2. hdr \in [DOMAIN hdr -> Header] /\ DOMAIN hdr \subseteq Nat
    BY <1>1
  <2> QED BY <2>1, <2>2 DEF Init, TypeOK, NULL
<1>3. Layout(hdr, mapped)
  BY <1>1 DEF Init, Layout, Headers, Links, Bounds, Apart, Roomy, Cover
<1>4. Head /\ Control
  BY <1>1 DEF Init, Head, Control, Blocks
<1> QED BY <1>2, <1>3, <1>4 DEF Ind

\* A step that leaves the list alone keeps its layout.
LEMMA SameListInd ==
  ASSUME Ind, UNCHANGED <<hdr, mapped>>
  PROVE  Layout(hdr', mapped')
  BY DEF Ind

\* A mapping made by another part of the process takes no byte of the heap.
LEMMA ForeignMmapInd ==
  ASSUME Ind, NEW p \in ForeignPages, ForeignMmap(p)
  PROVE  Ind'
<1>1. Layout(hdr', mapped')
  BY SameListInd DEF ForeignMmap
<1>2. TypeOK'
  <2>1. Bytes(p, PageSize) \subseteq Nat
    BY ArgsAssumption, SizesAssumption DEF Bytes
  <2> QED BY <2>1 DEF Ind, TypeOK, ForeignMmap
<1>3. Head' /\ Control'
  BY DEF Ind, Head, Control, ForeignMmap, Blocks
<1> QED BY <1>1, <1>2, <1>3 DEF Ind

\* heap_init leaves either no heap or a single free block filling its region.
LEMMA HeapInitInd ==
  ASSUME Ind, NEW i \in InitialSizes, HeapInit(i)
  PROVE  Ind'
<1> DEFINE size == RegionActualSize(SizeFromCapacity(i))
<1>1. size \in Nat /\ size >= RegionMinSize
  <2>1. i \in Nat /\ WordMod \in Nat \ {0}
    BY ArgsAssumption, SizesAssumption DEF Words
  <2>2. SizeFromCapacity(i) \in Nat
    BY <2>1, SizesAssumption DEF SizeFromCapacity
  <2> QED BY <2>2, RegionSizeType
<1> HIDE DEF size
<1>2. PICK r \in Placements(HEAP_START, size) :
        /\ heap' = r
        /\ IF r = NULL
           THEN UNCHANGED <<hdr, mapped, foreign>>
           ELSE /\ hdr' = BlockInit(hdr, r, size, NULL)
                /\ mapped' = Bytes(r, size)
                /\ foreign' = foreign \ Bytes(r, size)
  BY DEF HeapInit, size
<1>3. /\ pc = "start" /\ pc' = "idle"
      /\ UNCHANGED <<lent, cur, query, retry, region, result>>
  BY DEF HeapInit
<1>4. /\ DOMAIN hdr = {} /\ mapped = {} /\ lent = {} /\ hdr \in [{} -> Header]
      /\ foreign \subseteq Nat /\ Layout(hdr, mapped)
  BY <1>3 DEF Ind, TypeOK, Head, Blocks
<1>5. CASE r = NULL
  <2>1. UNCHANGED <<hdr, mapped, foreign>> /\ heap' = NULL
    BY <1>2, <1>5
  <2>2. TypeOK'
    BY <2>1, <1>3 DEF Ind, TypeOK, NULL
  <2>3. Head' /\ Control'
    BY <2>1, <1>3, <1>4 DEF Ind, Head, Control, Blocks
  <2> QED BY <2>1, <2>2, <2>3, <1>4 DEF Ind
<1>6. CASE r # NULL
  <2>1. /\ hdr' = BlockInit(hdr, r, size, NULL)
        /\ mapped' = Bytes(r, size)
        /\ foreign' = foreign \ Bytes(r, size)
        /\ heap' = r
    BY <1>2, <1>6
  <2>2. r \in Nat \ {0} /\ r + size <= AddrLimit
    BY <1>1, <1>6, PlacementRange, ArgsAssumption
  <2>3. Layout(BlockInit(hdr, r, size, NULL), mapped \union (r .. r + size - 1))
    BY <2>2, <1>1, <1>4, RegionKeepsLayout
  <2>4. Layout(hdr', mapped')
    BY <2>1, <2>3, <1>4 DEF Bytes
  <2>5. Extended(hdr, r, size, hdr')
    BY <2>1, <2>2, <1>1, <1>4, RegionResult
  <2>6. /\ DOMAIN hdr' = {r} /\ hdr'[r].next = NULL
        /\ hdr' \in [DOMAIN hdr' -> Header]
    <3>1. DOMAIN hdr' = {r}
      BY <2>5, <1>4 DEF Extended
    <3>2. hdr'[r].next = NULL
      BY <2>5 DEF Extended
    <3> QED BY <3>1, <3>2, <2>4 DEF Layout, Headers
  <2>7. TypeOK'
    <3>1. mapped' \subseteq Nat
      BY <2>1, <2>2, <1>1 DEF Bytes
    <3> QED BY <3>1, <2>1, <2>2, <2>6, <1>3, <1>4 DEF Ind, TypeOK
  <2>8. Head' /\ Control'
    BY <2>1, <2>6, <1>3 DEF Head, Control, Blocks
  <2> QED BY <2>4, <2>7, <2>8 DEF Ind
<1> QED BY <1>5, <1>6

\* Entering _malloc only puts the search on the first header.
LEMMA MallocInd ==
  ASSUME Ind, NEW q \in Queries, Malloc(q)
  PROVE  Ind'
<1>1. Layout(hdr', mapped')
  BY SameListInd DEF Malloc
<1>2. q \in Words
  BY ArgsAssumption
<1>3. HEAP_START \in DOMAIN hdr => heap = HEAP_START
  BY DEF Ind, Head, Blocks
<1>4. TypeOK'
  BY <1>2, ArgsAssumption DEF Ind, TypeOK, Malloc, NULL
<1>5. Head'
  BY <1>3 DEF Ind, Head, Malloc, Blocks
<1>6. Control'
  BY DEF Ind, Control, Malloc
<1> QED BY <1>1, <1>4, <1>5, <1>6 DEF Ind

-----------------------------------------------------------------------------
(* The steps of the two loops.                                             *)

\* One try_merge_with_next on a block: the heap keeps its first block, and the
\* block itself stays.
LEMMA MergeInd ==
  ASSUME Ind, NEW a \in Blocks, Mergeable(hdr, a), hdr' = MergedWithNext(hdr, a),
         UNCHANGED <<heap, mapped>>
  PROVE  /\ Layout(hdr', mapped')
         /\ DOMAIN hdr' = DOMAIN hdr \ {hdr[a].next}
         /\ hdr[a].next # a
         /\ DOMAIN hdr' \subseteq Nat /\ hdr' \in [DOMAIN hdr' -> Header]
         /\ heap # NULL => heap \in Blocks'
         /\ \A b \in Blocks' : hdr'[b].next = NULL \/ hdr'[b].next # heap
<1>1. Layout(hdr, mapped)
  BY DEF Ind
<1>2. Layout(hdr', mapped')
  BY <1>1, MergeKeepsLayout DEF Blocks
<1>3. Absorbed(hdr, a, hdr[a].next, hdr')
  BY <1>1, MergeResult DEF Blocks
<1>4. /\ DOMAIN hdr' = DOMAIN hdr \ {hdr[a].next}
      /\ hdr[a].next # a /\ hdr[a].next # NULL
      /\ hdr[a].next \in DOMAIN hdr
      /\ hdr'[a].next = hdr[hdr[a].next].next
      /\ \A b \in DOMAIN hdr \ {hdr[a].next, a} : hdr'[b] = hdr[b]
  BY <1>3 DEF Absorbed
<1>5. DOMAIN hdr' \subseteq Nat /\ hdr' \in [DOMAIN hdr' -> Header]
  BY <1>2 DEF Layout, Headers
<1>6. heap # NULL => heap \in Blocks'
  BY <1>4 DEF Ind, Head, Blocks
<1>7. \A b \in Blocks' : hdr'[b].next = NULL \/ hdr'[b].next # heap
  BY <1>4 DEF Ind, Head, Blocks
<1> QED BY <1>2, <1>4, <1>5, <1>6, <1>7

\* One round of `while (try_merge_with_next(current));` keeps the invariant.
LEMMA ScanMergeInd ==
  ASSUME Ind, ScanMerge
  PROVE  Ind'
<1>1. cur \in Blocks /\ pc = "scan"
  BY DEF Ind, TypeOK, ScanMerge, Blocks
<1>2. /\ Layout(hdr', mapped')
      /\ DOMAIN hdr' = DOMAIN hdr \ {hdr[cur].next}
      /\ hdr[cur].next # cur
      /\ DOMAIN hdr' \subseteq Nat /\ hdr' \in [DOMAIN hdr' -> Header]
      /\ heap # NULL => heap \in Blocks'
      /\ \A b \in Blocks' : hdr'[b].next = NULL \/ hdr'[b].next # heap
  BY <1>1, MergeInd DEF ScanMerge
<1>3. TypeOK'
  BY <1>1, <1>2 DEF Ind, TypeOK, ScanMerge, Blocks
<1>4. Head'
  BY <1>1, <1>2 DEF Ind, Head, ScanMerge, Blocks
<1>5. Control'
  BY <1>1 DEF Ind, Control, ScanMerge
<1> QED BY <1>2, <1>3, <1>4, <1>5 DEF Ind

\* Splitting a good block, taking and returning it keeps the invariant.
LEMMA ScanTakeInd ==
  ASSUME Ind, ScanTake
  PROVE  Ind'
<1> DEFINE q == Wanted(query)
           s == SplitIfTooBig(hdr, cur, q)
<1>1. /\ cur \in Blocks /\ pc = "scan" /\ heap = HEAP_START
      /\ Layout(hdr, mapped)
  BY DEF Ind, TypeOK, Head, ScanTake, Blocks
<1>2. q \in Nat /\ q >= MinCapacity
  <2>1. query \in Nat
    BY SizesAssumption DEF Ind, TypeOK, Words
  <2> QED BY <2>1, WantedType
<1>3. /\ hdr[cur].capacity >= q
      /\ hdr' = [s EXCEPT ![cur].is_free = FALSE]
      /\ lent' = lent \union {cur} /\ pc' = "idle" /\ cur' = NULL
      /\ query' = 0 /\ retry' = FALSE /\ region' = NULL
      /\ result' = cur + HeaderSize
      /\ UNCHANGED <<heap, mapped, foreign>>
  BY DEF ScanTake, GoodBlock, Return
<1>4. /\ Layout(s, mapped) /\ DOMAIN hdr \subseteq DOMAIN s
      /\ \A b \in DOMAIN s : s[b].next = NULL \/ s[b].next # heap
  <2>1. CASE BlockSplittable(hdr, cur, q)
    <3> DEFINE r == cur + q + HeaderSize
    <3>1. s = Split(hdr, cur, q)
      BY <2>1 DEF SplitIfTooBig
    <3>2. Layout(s, mapped)
      BY <3>1, <2>1, <1>1, <1>2, <1>3, SplitKeepsLayout DEF Blocks
    <3>3. Cut(hdr, cur, q, r, s)
      BY <3>1, <2>1, <1>1, <1>2, <1>3, SplitResult DEF Blocks
    <3> HIDE DEF s, q, r
    <3>4. /\ r \notin DOMAIN hdr
          /\ DOMAIN s = DOMAIN hdr \union {r}
          /\ s[cur].next = r /\ s[r].next = hdr[cur].next
          /\ \A b \in DOMAIN hdr \ {cur} : s[b] = hdr[b]
      BY <3>3 DEF Cut
    <3>5. heap \in DOMAIN hdr
      BY <1>1, ArgsAssumption DEF Ind, Head, Blocks, NULL
    <3>6. \A b \in DOMAIN s : s[b].next = NULL \/ s[b].next # heap
      BY <3>4, <3>5, <1>1 DEF Ind, Head, Blocks
    <3> QED BY <3>2, <3>4, <3>6
  <2>2. CASE ~BlockSplittable(hdr, cur, q)
    <3>1. s = hdr
      BY <2>2 DEF SplitIfTooBig
    <3> QED BY <3>1, <1>1 DEF Ind, Head, Blocks
  <2> QED BY <2>1, <2>2
<1> HIDE DEF s, q
<1>5. cur \in DOMAIN s
  BY <1>1, <1>4 DEF Blocks
<1>6. Flagged(s, cur, FALSE, hdr') /\ Layout(hdr', mapped)
  BY <1>3, <1>4, <1>5, FlagKeepsLayout
<1>7. /\ DOMAIN hdr' = DOMAIN s
      /\ \A b \in DOMAIN s : hdr'[b].next = s[b].next
  BY <1>6 DEF Flagged
<1>8. DOMAIN hdr' \subseteq Nat /\ hdr' \in [DOMAIN hdr' -> Header]
  BY <1>6 DEF Layout, Headers
<1>9. TypeOK'
  <2>1. 0 \in Words
    BY SizesAssumption DEF Words
  <2>2. lent' \subseteq DOMAIN hdr'
    BY <1>1, <1>3, <1>4, <1>7 DEF Ind, TypeOK, Blocks
  <2>3. result' \in Nat
    BY <1>3, SizesAssumption DEF Ind, TypeOK
  <2> QED BY <2>1, <2>2, <2>3, <1>3, <1>8 DEF Ind, TypeOK, NULL
<1>10. Head'
  BY <1>1, <1>3, <1>4, <1>7 DEF Ind, Head, Blocks
<1>11. Control'
  BY <1>3 DEF Ind, Control
<1> QED BY <1>3, <1>6, <1>9, <1>10, <1>11 DEF Ind

\* Moving on to the next block leaves the search on a header of the list.
LEMMA ScanAdvanceInd ==
  ASSUME Ind, ScanAdvance
  PROVE  Ind'
<1>1. Layout(hdr', mapped')
  BY SameListInd DEF ScanAdvance
<1>2. /\ cur \in Blocks /\ pc = "scan" /\ pc' = pc /\ cur' = hdr[cur].next
      /\ hdr[cur].next # NULL
  BY DEF Ind, TypeOK, ScanAdvance, Blocks
<1>3. cur' \in Blocks /\ cur' \in Nat
  BY <1>2, BlockType DEF Ind
<1>4. TypeOK'
  BY <1>2, <1>3 DEF Ind, TypeOK, ScanAdvance, Blocks
<1>5. Head' /\ Control'
  BY <1>2 DEF Ind, Head, Control, ScanAdvance, Blocks
<1> QED BY <1>1, <1>4, <1>5 DEF Ind

\* Reaching the end of the list changes no block.
LEMMA ScanEndInd ==
  ASSUME Ind, ScanEnd
  PROVE  Ind'
<1>1. Layout(hdr', mapped')
  BY SameListInd DEF ScanEnd
<1>2. TypeOK'
  BY DEF Ind, TypeOK, ScanEnd, AtEnd
<1>3. Head' /\ Control'
  BY DEF Ind, Head, Control, ScanEnd, AtEnd, Blocks
<1> QED BY <1>1, <1>2, <1>3 DEF Ind

\* Giving up with NULL changes no block.
LEMMA ScanFailInd ==
  ASSUME Ind, ScanFail
  PROVE  Ind'
<1>1. Layout(hdr', mapped')
  BY SameListInd DEF ScanFail
<1>2. TypeOK'
  <2>1. 0 \in Words
    BY SizesAssumption DEF Words
  <2> QED BY <2>1 DEF Ind, TypeOK, ScanFail, Return, NULL
<1>3. Head' /\ Control'
  BY DEF Ind, Head, Control, ScanFail, Return, AtEnd, Blocks
<1> QED BY <1>1, <1>2, <1>3 DEF Ind

\* Entering _free changes a flag only, and stands on the freed block.
LEMMA FreeInd ==
  ASSUME Ind, NEW a \in lent, Free(a)
  PROVE  Ind'
<1>1. a \in DOMAIN hdr /\ Layout(hdr, mapped)
  BY DEF Ind, TypeOK
<1>2. Flagged(hdr, a, TRUE, hdr') /\ Layout(hdr', mapped)
  BY <1>1, FlagKeepsLayout DEF Free
<1>3. /\ DOMAIN hdr' = DOMAIN hdr
      /\ \A b \in DOMAIN hdr : hdr'[b].next = hdr[b].next
  BY <1>2 DEF Flagged
<1>4. hdr' \in [DOMAIN hdr' -> Header]
  BY <1>2 DEF Layout, Headers
<1>5. TypeOK'
  BY <1>1, <1>3, <1>4 DEF Ind, TypeOK, Free, NULL
<1>6. Head' /\ Control'
  BY <1>3 DEF Ind, Head, Control, Free, Blocks
<1> QED BY <1>2, <1>5, <1>6 DEF Ind, Free

\* One iteration of the loop of _free keeps the invariant.
LEMMA FreeStepInd ==
  ASSUME Ind, FreeStep
  PROVE  Ind'
<1>1. cur \in Blocks /\ pc = "free" /\ Layout(hdr, mapped)
  BY DEF Ind, TypeOK, FreeStep, Blocks
<1>2. /\ Layout(hdr', mapped')
      /\ DOMAIN hdr' = IF Mergeable(hdr, cur) THEN DOMAIN hdr \ {hdr[cur].next} ELSE DOMAIN hdr
      /\ cur \in DOMAIN hdr'
      /\ DOMAIN hdr' \subseteq Nat /\ hdr' \in [DOMAIN hdr' -> Header]
      /\ heap # NULL => heap \in Blocks'
      /\ \A b \in Blocks' : hdr'[b].next = NULL \/ hdr'[b].next # heap
  <2>1. CASE Mergeable(hdr, cur)
    <3>1. hdr' = MergedWithNext(hdr, cur) /\ UNCHANGED <<heap, mapped>>
      BY <2>1 DEF FreeStep, TryMergeWithNext
    <3> QED BY <3>1, <2>1, <1>1, MergeInd DEF Blocks
  <2>2. CASE ~Mergeable(hdr, cur)
    <3>1. UNCHANGED <<hdr, heap, mapped>>
      BY <2>2 DEF FreeStep, TryMergeWithNext
    <3> QED BY <3>1, <2>2, <1>1 DEF Ind, TypeOK, Head, Blocks
  <2> QED BY <2>1, <2>2
<1>3. /\ cur' = hdr'[cur].next
      /\ cur' \in DOMAIN hdr' \union {NULL}
      /\ pc' = IF cur' = NULL THEN "idle" ELSE "free"
  BY <1>2 DEF FreeStep, Layout, Links
<1>4. lent' \subseteq DOMAIN hdr'
  BY <1>2 DEF Ind, TypeOK, FreeStep
<1>5. TypeOK'
  BY <1>2, <1>3, <1>4 DEF Ind, TypeOK, FreeStep, NULL
<1>6. Head'
  BY <1>1, <1>2, <1>3 DEF Ind, Head, FreeStep, Blocks
<1>7. Control'
  BY <1>1, <1>3 DEF Ind, Control, FreeStep
<1> QED BY <1>2, <1>5, <1>6, <1>7 DEF Ind

-----------------------------------------------------------------------------
(* Growth.                                                                 *)

\* g is h with a free block over the region at r linked behind `last`.
Linked(h, last, r, size, g) ==
  /\ r \notin DOMAIN h /\ r # NULL
  /\ DOMAIN g = DOMAIN h \union {r}
  /\ g[r].next = NULL /\ g[r].capacity = size - HeaderSize /\ g[r].is_free = TRUE
  /\ g[last].next = r
  /\ \A b \in DOMAIN h \ {last} : g[b].next = h[b].next
  /\ \A b \in DOMAIN h : g[b].capacity = h[b].capacity /\ g[b].is_free = h[b].is_free

\* A region outside the heap's memory is linked behind the last block.
LEMMA RegionLinked ==
  ASSUME Ind, pc = "grow", NEW r \in Nat \ {0}, NEW size \in Nat,
         size >= RegionMinSize, r + size <= AddrLimit,
         Bytes(r, size) \intersect mapped = {}
  PROVE  LET h2 == BlockInit([hdr EXCEPT ![cur].next = r], r, size, NULL) IN
         /\ Layout(h2, mapped \union Bytes(r, size))
         /\ Linked(hdr, cur, r, size, h2)
<1> DEFINE h1 == [hdr EXCEPT ![cur].next = r]
           h2 == BlockInit(h1, r, size, NULL)
<1>1. /\ cur \in DOMAIN hdr /\ hdr[cur].next = NULL
      /\ Layout(hdr, mapped) /\ mapped \subseteq Nat
  BY DEF Ind, TypeOK, Control
<1>2. hdr \in [DOMAIN hdr -> Header] /\ DOMAIN hdr \subseteq Nat \ {0}
  BY <1>1 DEF Layout, Headers
<1>3. \A x \in mapped : ~(r <= x /\ x < r + size)
  BY <1>1 DEF Bytes
<1>4. /\ DOMAIN h1 = DOMAIN hdr
      /\ h1 \in [DOMAIN hdr -> Header]
      /\ h1[cur].next = r
      /\ \A b \in DOMAIN hdr : h1[b].capacity = hdr[b].capacity /\ h1[b].is_free = hdr[b].is_free
      /\ \A b \in DOMAIN hdr \ {cur} : h1[b] = hdr[b]
  <2>1. DOMAIN h1 = DOMAIN hdr
    OBVIOUS
  <2>2. h1 \in [DOMAIN hdr -> Header]
    BY <1>1, <1>2 DEF Header
  <2>3. h1[cur].next = r
    BY <1>1, <1>2 DEF Header
  <2>4. \A b \in DOMAIN hdr : h1[b].capacity = hdr[b].capacity /\ h1[b].is_free = hdr[b].is_free
    BY <1>2 DEF Header
  <2>5. \A b \in DOMAIN hdr \ {cur} : h1[b] = hdr[b]
    OBVIOUS
  <2> HIDE DEF h1
  <2> QED BY <2>1, <2>2, <2>3, <2>4, <2>5
<1>5. r \notin DOMAIN hdr
  <2> SUFFICES ASSUME r \in DOMAIN hdr PROVE FALSE
    OBVIOUS
  <2>1. Inside(hdr, r, r)
    BY <1>2, SizesAssumption DEF Inside, Header
  <2>2. r \in mapped
    BY <2>1, <1>1 DEF Layout, Cover
  <2> QED BY <2>2, <1>3, SizesAssumption
<1> HIDE DEF h1
<1>6. /\ \A b \in DOMAIN h1 : h1[b].next \in DOMAIN h1 \union {NULL, r}
      /\ \A b, c \in DOMAIN h1 : (b # c /\ h1[b].next # NULL) => h1[b].next # h1[c].next
  <2>1. /\ \A b \in DOMAIN hdr : hdr[b].next \in DOMAIN hdr \union {NULL}
        /\ \A b, c \in DOMAIN hdr : (b # c /\ hdr[b].next # NULL) => hdr[b].next # hdr[c].next
    BY <1>1 DEF Layout, Links
  <2>2. \A b \in DOMAIN hdr : hdr[b].next # r
    BY <2>1, <1>5 DEF NULL
  <2> QED BY <2>1, <2>2, <1>4, <1>1
<1>7. Layout(h2, mapped \union Bytes(r, size))
  <2>1. \A b \in DOMAIN hdr : h1[b].capacity = hdr[b].capacity
    BY <1>4
  <2>2. h1 \in [DOMAIN hdr -> Header] /\ Layout(hdr, mapped)
    BY <1>1, <1>4
  <2>3. Layout(h2, mapped \union (r .. r + size - 1))
    BY <2>1, <2>2, <1>3, <1>6, RegionKeepsLayout
  <2> QED BY <2>3 DEF Bytes
<1>8. Extended(h1, r, size, h2)
  BY <1>4, <1>5, RegionResult
<1>9. Linked(hdr, cur, r, size, h2)
  <2> HIDE DEF h2
  <2>1. /\ DOMAIN h2 = DOMAIN hdr \union {r}
        /\ h2[r].next = NULL /\ h2[r].capacity = size - HeaderSize /\ h2[r].is_free = TRUE
    BY <1>4, <1>8 DEF Extended
  <2>2. h2[cur].next = r
    BY <1>1, <1>4, <1>8 DEF Extended
  <2>3. \A b \in DOMAIN hdr \ {cur} : h2[b].next = hdr[b].next
    BY <1>4, <1>8 DEF Extended
  <2>4. \A b \in DOMAIN hdr : h2[b].capacity = hdr[b].capacity /\ h2[b].is_free = hdr[b].is_free
    BY <1>4, <1>8 DEF Extended
  <2> QED BY <2>1, <2>2, <2>3, <2>4, <1>5 DEF Linked, NULL
<1> QED BY <1>7, <1>9 DEF h1

\* The linked region is merged with the last block if it can be: the layout is
\* kept, and no block in use is touched.
LEMMA GrownLayout ==
  ASSUME Ind, pc = "grow", NEW r \in Nat \ {0}, NEW size \in Nat,
         size >= RegionMinSize, r + size <= AddrLimit,
         Bytes(r, size) \intersect mapped = {},
         hdr' = Grown(hdr, cur, r, size), mapped' = mapped \union Bytes(r, size),
         heap' = heap
  PROVE  /\ Layout(hdr', mapped')
         /\ DOMAIN hdr \subseteq DOMAIN hdr'
         /\ \A b \in Blocks' : hdr'[b].next = NULL \/ hdr'[b].next # heap
         /\ \A b \in DOMAIN hdr :
              hdr[b].is_free # TRUE => /\ hdr'[b].capacity = hdr[b].capacity
                                      /\ hdr'[b].is_free = hdr[b].is_free
<1> DEFINE h2 == BlockInit([hdr EXCEPT ![cur].next = r], r, size, NULL)
<1>1. cur \in DOMAIN hdr /\ heap = HEAP_START /\ heap \in DOMAIN hdr
  BY ArgsAssumption DEF Ind, TypeOK, Head, Blocks, NULL
<1>2. Layout(h2, mapped') /\ Linked(hdr, cur, r, size, h2)
  BY RegionLinked
<1>3. hdr' = TryMergeWithNext(h2, cur)
  BY DEF Grown
<1> HIDE DEF h2
<1>4. /\ r \notin DOMAIN hdr
      /\ DOMAIN h2 = DOMAIN hdr \union {r}
      /\ h2[r].next = NULL /\ h2[cur].next = r
      /\ \A b \in DOMAIN hdr \ {cur} : h2[b].next = hdr[b].next
      /\ \A b \in DOMAIN hdr : h2[b].capacity = hdr[b].capacity /\ h2[b].is_free = hdr[b].is_free
  BY <1>2 DEF Linked
<1>5. Layout(hdr', mapped')
  BY <1>1, <1>2, <1>3, <1>4, TryMergeKeepsLayout
<1>6. /\ DOMAIN hdr \subseteq DOMAIN hdr'
      /\ \A b \in DOMAIN hdr' : hdr'[b].next = NULL \/ hdr'[b].next # heap
      /\ \A b \in DOMAIN hdr :
           hdr[b].is_free # TRUE => /\ hdr'[b].capacity = hdr[b].capacity
                                   /\ hdr'[b].is_free = hdr[b].is_free
  <2>1. \A b \in DOMAIN h2 : h2[b].next = NULL \/ h2[b].next # heap
    BY <1>1, <1>4 DEF Ind, Head, Blocks
  <2>2. CASE Mergeable(h2, cur)
    <3>1. hdr' = MergedWithNext(h2, cur)
      BY <2>2, <1>3 DEF TryMergeWithNext
    <3>2. Absorbed(h2, cur, h2[cur].next, hdr')
      BY <3>1, <2>2, <1>1, <1>2, <1>4, MergeResult
    <3>3. /\ DOMAIN hdr' = DOMAIN h2 \ {r}
          /\ hdr'[cur].next = h2[r].next
          /\ \A b \in DOMAIN h2 \ {r, cur} : hdr'[b] = h2[b]
          /\ h2[cur].is_free = TRUE
      BY <3>2, <1>4 DEF Absorbed
    <3>4. \A b \in DOMAIN hdr' : hdr'[b].next = NULL \/ hdr'[b].next # heap
      BY <3>3, <2>1, <1>4
    <3>5. \A b \in DOMAIN hdr : hdr[b].is_free # TRUE => b # cur /\ b # r
      BY <3>3, <1>4
    <3>6. \A b \in DOMAIN hdr :
            hdr[b].is_free # TRUE => /\ hdr'[b].capacity = hdr[b].capacity
                                     /\ hdr'[b].is_free = hdr[b].is_free
      BY <3>3, <3>5, <1>4
    <3> QED BY <3>3, <3>4, <3>6, <1>4
  <2>3. CASE ~Mergeable(h2, cur)
    <3>1. hdr' = h2
      BY <2>3, <1>3 DEF TryMergeWithNext
    <3> QED BY <3>1, <2>1, <1>4
  <2> QED BY <2>2, <2>3
<1> QED BY <1>5, <1>6 DEF Blocks

\* grow_heap keeps the invariant, whether mmap extends the last region, places
\* a new one elsewhere, refuses, or takes pages of the heap itself away.
LEMMA GrowInd ==
  ASSUME Ind, Grow
  PROVE  Ind'
<1> DEFINE size == GrowSize(query)
<1>1. PICK r \in Placements(BlockAfter(hdr, cur), size) :
        /\ region' = r
        /\ IF r # NULL /\ Bytes(r, size) \intersect mapped # {}
           THEN pc' = "corrupt" /\ UNCHANGED <<hdr, mapped, foreign, cur, retry>>
           ELSE /\ pc' = "scan"
                /\ cur' = HEAP_START
                /\ retry' = TRUE
                /\ IF r = NULL
                   THEN UNCHANGED <<hdr, mapped, foreign>>
                   ELSE /\ hdr' = Grown(hdr, cur, r, size)
                        /\ mapped' = mapped \union Bytes(r, size)
                        /\ foreign' = foreign \ Bytes(r, size)
  BY DEF Grow
<1>2. pc = "grow" /\ UNCHANGED <<heap, lent, query, result>>
  BY DEF Grow
<1>3. size \in Nat /\ size >= RegionMinSize
  BY GrowSizeType DEF Ind, TypeOK
<1> HIDE DEF size
<1>4. /\ cur \in Blocks /\ heap = HEAP_START /\ HEAP_START \in Blocks
      /\ HEAP_START \in Nat
  BY <1>2, ArgsAssumption DEF Ind, TypeOK, Head, Blocks, NULL
<1>5. BlockAfter(hdr, cur) \in Nat
  BY <1>4, BlockType DEF Ind
<1>6. r # NULL => r \in Nat \ {0} /\ r + size <= AddrLimit
  BY <1>3, <1>5, PlacementRange
<1>7. r \in Nat
  BY <1>6 DEF NULL
<1>8. CASE r # NULL /\ Bytes(r, size) \intersect mapped # {}
  <2>1. pc' = "corrupt" /\ region' = r /\ UNCHANGED <<hdr, mapped, foreign, cur, retry>>
    BY <1>1, <1>8
  <2>2. TypeOK'
    BY <2>1, <1>2, <1>7 DEF Ind, TypeOK
  <2>3. Head' /\ Control'
    BY <2>1, <1>2 DEF Ind, Head, Control, Blocks
  <2> QED BY <2>1, <2>2, <2>3 DEF Ind
<1>9. CASE r = NULL
  <2>1. /\ pc' = "scan" /\ cur' = HEAP_START /\ retry' = TRUE /\ region' = NULL
        /\ UNCHANGED <<hdr, mapped, foreign>>
    BY <1>1, <1>9
  <2>2. TypeOK'
    BY <2>1, <1>2, <1>4 DEF Ind, TypeOK, Blocks, NULL
  <2>3. Head' /\ Control'
    BY <2>1, <1>2 DEF Ind, Head, Control, Blocks
  <2> QED BY <2>1, <2>2, <2>3 DEF Ind
<1>10. CASE r # NULL /\ Bytes(r, size) \intersect mapped = {}
  <2>1. /\ pc' = "scan" /\ cur' = HEAP_START /\ retry' = TRUE /\ region' = r
        /\ hdr' = Grown(hdr, cur, r, size)
        /\ mapped' = mapped \union Bytes(r, size)
        /\ foreign' = foreign \ Bytes(r, size)
    BY <1>1, <1>10
  <2>2. /\ Layout(hdr', mapped')
        /\ DOMAIN hdr \subseteq DOMAIN hdr'
        /\ \A b \in Blocks' : hdr'[b].next = NULL \/ hdr'[b].next # heap
    BY <2>1, <1>2, <1>3, <1>6, <1>10, GrownLayout
  <2>3. DOMAIN hdr' \subseteq Nat /\ hdr' \in [DOMAIN hdr' -> Header]
    BY <2>2 DEF Layout, Headers
  <2>4. mapped' \subseteq Nat
    <3>1. Bytes(r, size) \subseteq Nat
      BY <1>3, <1>7 DEF Bytes
    <3> QED BY <3>1, <2>1 DEF Ind, TypeOK
  <2>5. TypeOK'
    BY <2>1, <2>2, <2>3, <2>4, <1>2, <1>4, <1>7 DEF Ind, TypeOK, Blocks
  <2>6. Head'
    BY <2>1, <2>2, <1>2, <1>4 DEF Ind, Head, Blocks
  <2>7. Control'
    BY <2>1 DEF Ind, Control
  <2> QED BY <2>2, <2>5, <2>6, <2>7 DEF Ind
<1> QED BY <1>8, <1>9, <1>10

-----------------------------------------------------------------------------
\* Every step of the allocator keeps the invariant.
LEMMA NextInd ==
  ASSUME Ind, [Next]_vars
  PROVE  Ind'
<1>1. ASSUME NEW p \in ForeignPages, ForeignMmap(p)
      PROVE  Ind'
  BY <1>1, ForeignMmapInd
<1>2. ASSUME NEW i \in InitialSizes, HeapInit(i)
      PROVE  Ind'
  BY <1>2, HeapInitInd
<1>3. ASSUME NEW q \in Queries, Malloc(q)
      PROVE  Ind'
  BY <1>3, MallocInd
<1>4. ASSUME NEW a \in lent, Free(a)
      PROVE  Ind'
  BY <1>4, FreeInd
<1>5. CASE Steps
  BY <1>5, ScanMergeInd, ScanTakeInd, ScanAdvanceInd, ScanEndInd, ScanFailInd,
     GrowInd, FreeStepInd DEF Steps
<1>6. CASE UNCHANGED vars
  <2>1. UNCHANGED <<heap, hdr, mapped, foreign, lent, pc, cur, query, retry, region, result>>
    BY <1>6 DEF vars
  <2> QED BY <2>1 DEF Ind, TypeOK, Head, Control, Blocks
<1> QED BY <1>1, <1>2, <1>3, <1>4, <1>5, <1>6 DEF Next, Calls

\* The inductive invariant holds in every reachable state.
THEOREM Invariance == Spec => []Ind
<1>1. Init => Ind
  BY InitInd
<1>2. Ind /\ [Next]_vars => Ind'
  BY NextInd
<1> QED BY <1>1, <1>2, PTL DEF Spec

\* Every variable of the allocator has its type; in particular the loops of
\* find_good_or_last and _free always stand on a header of the list.
THEOREM TypeCorrect == Spec => []TypeOK
<1>1. Ind => TypeOK
  BY DEF Ind
<1> QED BY <1>1, Invariance, PTL

\* No two blocks ever overlap, whatever is split, merged, grown and refused.
THEOREM BlocksDisjoint == Spec => []NoOverlap
<1>1. Ind => NoOverlap
  BY DEF Ind, Layout, Apart, NoOverlap, Blocks
<1> QED BY <1>1, Invariance, PTL

\* The blocks fill the memory obtained from mmap, and nothing else.
THEOREM BlocksFillRegions == Spec => []Coverage
<1>1. Ind => Coverage
  <2> SUFFICES ASSUME Ind PROVE Coverage
    OBVIOUS
  <2>1. mapped \subseteq Nat /\ Layout(hdr, mapped) /\ mapped \intersect foreign = {}
    BY DEF Ind, TypeOK, Control
  <2>2. \A a \in Blocks : a \in Nat /\ hdr[a].capacity \in Nat
    BY <2>1 DEF Layout, Headers, Header, Blocks
  <2>3. \A a \in Blocks : Extent(a) \subseteq Nat
    BY <2>2, SizesAssumption DEF Extent, Bytes
  <2>4. \A x \in Nat, a \in Blocks : x \in Extent(a) <=> Inside(hdr, x, a)
    BY <2>2, SizesAssumption DEF Extent, Bytes, Inside
  <2>5. mapped = UNION {Extent(a) : a \in Blocks}
    BY <2>1, <2>3, <2>4 DEF Layout, Cover, Blocks
  <2> QED BY <2>1, <2>5 DEF Coverage
<1> QED BY <1>1, Invariance, PTL

\* No block has less than BLOCK_MIN_CAPACITY bytes.
THEOREM BlocksUseful == Spec => []NoTinyBlock
<1>1. Ind => NoTinyBlock
  BY DEF Ind, Layout, Roomy, NoTinyBlock, Blocks
<1> QED BY <1>1, Invariance, PTL

-----------------------------------------------------------------------------
(* A block in use is stable.                                               *)

\* A step of an operation that takes no list apart leaves blocks alone.
LEMMA StableStep ==
  ASSUME Ind, [Next]_vars, NEW a \in Blocks, hdr[a].is_free # TRUE
  PROVE  /\ a \in Blocks'
         /\ hdr'[a].capacity = hdr[a].capacity
         /\ hdr'[a].is_free => pc' = "free" /\ cur' = a
<1> DEFINE Stable == /\ a \in DOMAIN hdr'
                     /\ hdr'[a].capacity = hdr[a].capacity
                     /\ hdr'[a].is_free => pc' = "free" /\ cur' = a
<1> SUFFICES Stable
  BY DEF Blocks
<1>0. /\ Layout(hdr, mapped) /\ a \in DOMAIN hdr /\ TypeOK
      /\ hdr[a].is_free \in BOOLEAN
  BY BlockType DEF Ind, Blocks
<1>1. CASE UNCHANGED hdr
  BY <1>0, <1>1 DEF Blocks
<1>2. ASSUME NEW i \in InitialSizes, HeapInit(i)
      PROVE  Stable
  BY <1>0, <1>2 DEF Ind, Head, HeapInit, Blocks
<1>3. ASSUME NEW b \in lent, Free(b)
      PROVE  Stable
  <2>1. b \in DOMAIN hdr
    BY <1>0 DEF TypeOK
  <2>2. Flagged(hdr, b, TRUE, hdr')
    BY <2>1, <1>0, <1>3, FlagKeepsLayout DEF Free
  <2>3. a # b => hdr'[a] = hdr[a]
    BY <2>2, <1>0 DEF Flagged
  <2> QED BY <2>2, <2>3, <1>0, <1>3 DEF Flagged, Free
<1>4. ASSUME NEW b \in DOMAIN hdr, Mergeable(hdr, b), hdr' = MergedWithNext(hdr, b)
      PROVE  Stable
  <2>1. Absorbed(hdr, b, hdr[b].next, hdr')
    BY <1>0, <1>4, MergeResult
  <2>2. a # b /\ a # hdr[b].next
    BY <2>1 DEF Absorbed
  <2>3. a \in DOMAIN hdr' /\ hdr'[a] = hdr[a]
    BY <2>1, <2>2, <1>0 DEF Absorbed
  <2> QED BY <2>3, <1>0
<1>5. CASE ScanMerge
  <2>1. cur \in DOMAIN hdr
    BY <1>0, <1>5 DEF TypeOK, ScanMerge
  <2>2. Mergeable(hdr, cur) /\ hdr' = MergedWithNext(hdr, cur)
    BY <1>5 DEF ScanMerge
  <2> QED BY <2>1, <2>2, <1>4
<1>6. CASE FreeStep
  <2>1. cur \in DOMAIN hdr
    BY <1>0, <1>6 DEF TypeOK, FreeStep
  <2>2. CASE Mergeable(hdr, cur)
    <3>1. hdr' = MergedWithNext(hdr, cur)
      BY <2>2, <1>6 DEF FreeStep, TryMergeWithNext
    <3> QED BY <3>1, <2>1, <2>2, <1>4
  <2>3. CASE ~Mergeable(hdr, cur)
    <3>1. UNCHANGED hdr
      BY <2>3, <1>6 DEF FreeStep, TryMergeWithNext
    <3> QED BY <3>1, <1>1
  <2> QED BY <2>2, <2>3
<1>7. CASE ScanTake
  <2> DEFINE q == Wanted(query)
             s == SplitIfTooBig(hdr, cur, q)
  <2>1. /\ cur \in DOMAIN hdr /\ hdr[cur].is_free /\ hdr[cur].capacity >= q
        /\ hdr' = [s EXCEPT ![cur].is_free = FALSE]
    BY <1>0, <1>7 DEF TypeOK, ScanTake, GoodBlock
  <2>2. q \in Nat /\ q >= MinCapacity
    BY <1>0, WantedType, SizesAssumption DEF TypeOK, Words
  <2>3. a # cur
    BY <2>1, <1>0
  <2>4. /\ Layout(s, mapped) /\ DOMAIN hdr \subseteq DOMAIN s
        /\ s[a] = hdr[a]
    <3>1. CASE BlockSplittable(hdr, cur, q)
      <4>1. s = Split(hdr, cur, q)
        BY <3>1 DEF SplitIfTooBig
      <4>2. /\ Layout(s, mapped)
            /\ Cut(hdr, cur, q, cur + q + HeaderSize, s)
        BY <4>1, <3>1, <2>1, <2>2, <1>0, SplitKeepsLayout, SplitResult
      <4> HIDE DEF s, q
      <4> QED BY <4>2, <2>3, <1>0 DEF Cut
    <3>2. CASE ~BlockSplittable(hdr, cur, q)
      BY <3>2, <1>0 DEF SplitIfTooBig
    <3> QED BY <3>1, <3>2
  <2> HIDE DEF s, q
  <2>5. Flagged(s, cur, FALSE, hdr')
    BY <2>1, <2>4, FlagKeepsLayout
  <2>6. a \in DOMAIN hdr' /\ hdr'[a] = hdr[a]
    BY <2>3, <2>4, <2>5, <1>0 DEF Flagged
  <2> QED BY <2>6, <1>0
<1>8. CASE Grow
  <2> DEFINE size == GrowSize(query)
  <2>1. PICK r \in Placements(BlockAfter(hdr, cur), size) :
          IF r # NULL /\ Bytes(r, size) \intersect mapped # {}
          THEN UNCHANGED hdr
          ELSE IF r = NULL
               THEN UNCHANGED hdr
               ELSE /\ hdr' = Grown(hdr, cur, r, size)
                    /\ mapped' = mapped \union Bytes(r, size)
    BY <1>8 DEF Grow
  <2>2. /\ size \in Nat /\ size >= RegionMinSize
        /\ pc = "grow" /\ heap' = heap /\ cur \in Blocks
    BY <1>0, <1>8, GrowSizeType DEF TypeOK, Grow, Blocks
  <2> HIDE DEF size
  <2>3. r # NULL => r \in Nat \ {0} /\ r + size <= AddrLimit
    BY <2>2, <1>0, BlockType, PlacementRange
  <2>4. CASE r # NULL /\ Bytes(r, size) \intersect mapped = {}
    <3>1. /\ DOMAIN hdr \subseteq DOMAIN hdr'
          /\ hdr'[a].capacity = hdr[a].capacity
          /\ hdr'[a].is_free = hdr[a].is_free
      BY <2>1, <2>2, <2>3, <2>4, <1>0, GrownLayout
    <3> QED BY <3>1, <1>0
  <2>5. CASE ~(r # NULL /\ Bytes(r, size) \intersect mapped = {})
    BY <2>1, <2>5, <1>1
  <2> QED BY <2>4, <2>5
<1>9. CASE UNCHANGED vars
  BY <1>1, <1>9 DEF vars
<1>10. CASE Calls
  <2>1. ASSUME NEW p \in ForeignPages, ForeignMmap(p)
        PROVE  Stable
    BY <2>1, <1>1 DEF ForeignMmap
  <2>2. ASSUME NEW q \in Queries, Malloc(q)
        PROVE  Stable
    BY <2>2, <1>1 DEF Malloc
  <2> QED BY <2>1, <2>2, <1>2, <1>3, <1>10 DEF Calls
<1>11. CASE Steps
  <2>1. CASE ScanAdvance \/ ScanEnd \/ ScanFail
    BY <2>1, <1>1 DEF ScanAdvance, ScanEnd, ScanFail
  <2> QED BY <2>1, <1>5, <1>6, <1>7, <1>8, <1>11 DEF Steps
<1> QED BY <1>9, <1>10, <1>11 DEF Next

\* A block in use keeps its place and its size until the client frees it.
THEOREM BlocksInUseStable == Spec => TakenStable
<1>1. Ind /\ [Next]_vars =>
        [\A a \in Blocks :
           ~hdr[a].is_free =>
             /\ a \in Blocks'
             /\ hdr'[a].capacity = hdr[a].capacity
             /\ hdr'[a].is_free => pc' = "free" /\ cur' = a]_vars
  BY StableStep
<1> QED BY <1>1, Invariance, PTL DEF Spec, TakenStable

-----------------------------------------------------------------------------
(* The list is complete, and so is the search.                             *)

\* In the second search the last block of the list would serve the request,
\* if there is a new region and its size was computed without wrapping around.
LastBlockServes ==
  (pc = "scan" /\ retry /\ region # NULL /\ ~Wraps(query)) =>
    \A a \in Blocks : hdr[a].next = NULL => GoodBlock(hdr, a, Wanted(query))

Search ==
  /\ ListIntegrity
  /\ ScannedBlocksUnfit
  /\ LastBlockServes
  /\ pc # "scan" => ~retry
  /\ pc # "idle" => result = NULL

-----------------------------------------------------------------------------
(* The headers stay one list.                                              *)

\* A header that absorbs its successor: the list has one header less, and what
\* lies before a header does not change.
LEMMA MergeOneList ==
  ASSUME Ind, ListIntegrity, NEW a \in Blocks, Mergeable(hdr, a),
         hdr' = MergedWithNext(hdr, a), UNCHANGED heap
  PROVE  /\ ListIntegrity'
         /\ Before(hdr', a) \subseteq Before(hdr, a)
<1>1. Layout(hdr, mapped) /\ a \in DOMAIN hdr /\ OneList(hdr, heap)
  BY DEF Ind, Blocks, ListIntegrity
<1>2. heap # hdr[a].next
  BY DEF Ind, Head, Mergeable, Blocks
<1>3. OneList(hdr', heap) /\ Before(hdr', a) \subseteq Before(hdr, a)
  BY <1>1, <1>2, MergeKeepsList
<1> QED BY <1>3 DEF ListIntegrity

\* A region that grow_heap has linked behind the last block, merged or not.
LEMMA GrownOneList ==
  ASSUME Ind, ListIntegrity, pc = "grow", NEW r \in Nat \ {0}, NEW size \in Nat,
         size >= RegionMinSize, r + size <= AddrLimit,
         Bytes(r, size) \intersect mapped = {},
         hdr' = Grown(hdr, cur, r, size), UNCHANGED heap
  PROVE  ListIntegrity'
<1> DEFINE h2 == BlockInit([hdr EXCEPT ![cur].next = r], r, size, NULL)
           m2 == mapped \union Bytes(r, size)
<1>1. /\ cur \in DOMAIN hdr /\ hdr[cur].next = NULL
      /\ Layout(hdr, mapped) /\ OneList(hdr, heap)
      /\ heap \in DOMAIN hdr
  BY ArgsAssumption DEF Ind, TypeOK, Head, Control, ListIntegrity, Blocks, NULL
<1>2. Layout(h2, m2) /\ Linked(hdr, cur, r, size, h2)
  BY RegionLinked
<1>3. hdr' = TryMergeWithNext(h2, cur)
  BY DEF Grown
<1> HIDE DEF h2, m2
<1>4. /\ r \notin DOMAIN hdr /\ r # NULL
      /\ DOMAIN h2 = DOMAIN hdr \union {r}
      /\ h2[r].next = NULL /\ h2[cur].next = r
      /\ \A b \in DOMAIN hdr \ {cur} : h2[b].next = hdr[b].next
  BY <1>2 DEF Linked
<1>5. OneList(h2, heap)
  <2>1. Layout(hdr, mapped) /\ OneList(hdr, heap) /\ cur \in DOMAIN hdr /\ hdr[cur].next = NULL
    BY <1>1
  <2> QED BY ONLY <2>1, <1>4, AppendKeepsList
<1>6. CASE Mergeable(h2, cur)
  <2>1. hdr' = MergedWithNext(h2, cur) /\ cur \in DOMAIN h2 /\ heap # h2[cur].next
    BY <1>1, <1>3, <1>4, <1>6 DEF TryMergeWithNext
  <2>2. OneList(MergedWithNext(h2, cur), heap)
    BY <2>1, <1>2, <1>5, <1>6, MergeKeepsList
  <2> QED BY <2>1, <2>2 DEF ListIntegrity
<1>7. CASE ~Mergeable(h2, cur)
  <2>1. hdr' = h2
    BY <1>3, <1>7 DEF TryMergeWithNext
  <2> QED BY <2>1, <1>5 DEF ListIntegrity
<1> QED BY <1>6, <1>7

\* The split and the flag of find_good_or_last's caller leave one list.
LEMMA TakeOneList ==
  ASSUME Ind, ListIntegrity, ScanTake
  PROVE  ListIntegrity'
<1> DEFINE q == Wanted(query)
           s == SplitIfTooBig(hdr, cur, q)
<1>1. /\ cur \in DOMAIN hdr /\ Layout(hdr, mapped) /\ OneList(hdr, heap)
      /\ hdr[cur].capacity >= q
      /\ hdr' = [s EXCEPT ![cur].is_free = FALSE] /\ heap' = heap
  BY DEF Ind, TypeOK, ScanTake, GoodBlock, ListIntegrity
<1>2. q \in Nat /\ q >= MinCapacity
  BY WantedType, SizesAssumption DEF Ind, TypeOK, Words
<1>3. OneList(s, heap) /\ Layout(s, mapped) /\ cur \in DOMAIN s
  <2>1. CASE BlockSplittable(hdr, cur, q)
    <3>1. s = Split(hdr, cur, q)
      BY <2>1 DEF SplitIfTooBig
    <3>2. /\ Layout(s, mapped)
          /\ Cut(hdr, cur, q, cur + q + HeaderSize, s)
      BY <3>1, <2>1, <1>1, <1>2, SplitKeepsLayout, SplitResult
    <3> HIDE DEF s, q
    <3>3. OneList(s, heap)
      BY <3>2, <1>1, <1>2, SplitKeepsList
    <3>4. cur \in DOMAIN s
      BY <3>2, <1>1 DEF Cut
    <3> QED BY <3>2, <3>3, <3>4
  <2>2. CASE ~BlockSplittable(hdr, cur, q)
    BY <2>2, <1>1 DEF SplitIfTooBig
  <2> QED BY <2>1, <2>2
<1> HIDE DEF s, q
<1>4. Flagged(s, cur, FALSE, hdr')
  BY <1>1, <1>3, FlagKeepsLayout
<1>5. DOMAIN hdr' = DOMAIN s /\ \A b \in DOMAIN s : hdr'[b].next = s[b].next
  BY <1>4 DEF Flagged
<1>6. OneList(hdr', heap)
  BY <1>3, <1>5, SameLinks
<1> QED BY <1>1, <1>6 DEF ListIntegrity

\* Whatever the step, the headers are one list again.
LEMMA NextOneList ==
  ASSUME Ind, ListIntegrity, [Next]_vars
  PROVE  ListIntegrity'
<1>0. TypeOK /\ Layout(hdr, mapped) /\ OneList(hdr, heap)
  BY DEF Ind, ListIntegrity
<1>1. CASE UNCHANGED <<hdr, heap>>
  BY <1>1 DEF ListIntegrity
<1>2. ASSUME NEW i \in InitialSizes, HeapInit(i)
      PROVE  ListIntegrity'
  <2> DEFINE size == RegionActualSize(SizeFromCapacity(i))
  <2>1. PICK r \in Placements(HEAP_START, size) :
          /\ heap' = r
          /\ IF r = NULL
             THEN UNCHANGED hdr
             ELSE hdr' = BlockInit(hdr, r, size, NULL)
    BY <1>2 DEF HeapInit
  <2>2. DOMAIN hdr = {}
    BY <1>2 DEF Ind, Head, HeapInit, Blocks
  <2> HIDE DEF size
  <2>3. CASE r = NULL
    <3>1. DOMAIN hdr' = {}
      BY <2>1, <2>2, <2>3
    <3>2. DOMAIN hdr' \in ClosedSets(hdr')
      BY <3>1, ClosedSet
    <3> QED BY <3>1, <3>2 DEF ListIntegrity, OneList
  <2>4. CASE r # NULL
    <3>1. DOMAIN hdr' = {r} /\ hdr'[r].next = NULL
      BY <2>1, <2>2, <2>4 DEF BlockInit
    <3> QED BY <3>1, <2>1, SingleList DEF ListIntegrity
  <2> QED BY <2>3, <2>4
<1>3. ASSUME NEW a \in lent, Free(a)
      PROVE  ListIntegrity'
  <2>1. a \in DOMAIN hdr
    BY <1>0 DEF TypeOK
  <2>2. Flagged(hdr, a, TRUE, hdr') /\ heap' = heap
    BY <2>1, <1>0, <1>3, FlagKeepsLayout DEF Free
  <2>3. DOMAIN hdr' = DOMAIN hdr /\ \A b \in DOMAIN hdr : hdr'[b].next = hdr[b].next
    BY <2>2 DEF Flagged
  <2> QED BY <2>2, <2>3, <1>0, SameLinks DEF ListIntegrity
<1>4. CASE ScanMerge
  <2>1. cur \in Blocks
    BY <1>0, <1>4 DEF TypeOK, ScanMerge, Blocks
  <2> QED BY <2>1, <1>4, MergeOneList DEF ScanMerge
<1>5. CASE FreeStep
  <2>1. cur \in Blocks /\ heap' = heap
    BY <1>0, <1>5 DEF TypeOK, FreeStep, Blocks
  <2>2. CASE Mergeable(hdr, cur)
    <3>1. hdr' = MergedWithNext(hdr, cur)
      BY <2>2, <1>5 DEF FreeStep, TryMergeWithNext
    <3> QED BY <3>1, <2>1, <2>2, MergeOneList
  <2>3. CASE ~Mergeable(hdr, cur)
    <3>1. UNCHANGED hdr
      BY <2>3, <1>5 DEF FreeStep, TryMergeWithNext
    <3> QED BY <3>1, <2>1, <1>1
  <2> QED BY <2>2, <2>3
<1>6. CASE ScanTake
  BY <1>6, TakeOneList
<1>7. CASE Grow
  <2> DEFINE size == GrowSize(query)
  <2>1. PICK r \in Placements(BlockAfter(hdr, cur), size) :
          IF r # NULL /\ Bytes(r, size) \intersect mapped # {}
          THEN UNCHANGED hdr
          ELSE IF r = NULL
               THEN UNCHANGED hdr
               ELSE hdr' = Grown(hdr, cur, r, size)
    BY <1>7 DEF Grow
  <2>2. /\ size \in Nat /\ size >= RegionMinSize
        /\ pc = "grow" /\ heap' = heap /\ cur \in Blocks
    BY <1>0, <1>7, GrowSizeType DEF TypeOK, Grow, Blocks
  <2> HIDE DEF size
  <2>3. r # NULL => r \in Nat \ {0} /\ r + size <= AddrLimit
    BY <2>2, <1>0, BlockType, PlacementRange
  <2>4. CASE r # NULL /\ Bytes(r, size) \intersect mapped = {}
    BY <2>1, <2>2, <2>3, <2>4, GrownOneList
  <2>5. CASE ~(r # NULL /\ Bytes(r, size) \intersect mapped = {})
    BY <2>1, <2>2, <2>5, <1>1
  <2> QED BY <2>4, <2>5
<1>8. CASE Calls
  <2>1. ASSUME NEW p \in ForeignPages, ForeignMmap(p)
        PROVE  ListIntegrity'
    BY <2>1, <1>1 DEF ForeignMmap
  <2>2. ASSUME NEW q \in Queries, Malloc(q)
        PROVE  ListIntegrity'
    BY <2>2, <1>1 DEF Malloc
  <2> QED BY <2>1, <2>2, <1>2, <1>3, <1>8 DEF Calls
<1>9. CASE Steps
  <2>1. CASE ScanAdvance \/ ScanEnd \/ ScanFail
    BY <2>1, <1>1 DEF ScanAdvance, ScanEnd, ScanFail
  <2> QED BY <2>1, <1>4, <1>5, <1>6, <1>7, <1>9 DEF Steps
<1>10. CASE UNCHANGED vars
  BY <1>1, <1>10 DEF vars
<1> QED BY <1>8, <1>9, <1>10 DEF Next

-----------------------------------------------------------------------------
(* Sizes of regions.                                                       *)

\* Unless the sums of grow_heap wrap around, the region has room for a header
\* and for the bytes asked for.
LEMMA GrowSizeEnough ==
  ASSUME NEW q \in Words, ~Wraps(q)
  PROVE  GrowSize(q) - HeaderSize >= Wanted(q)
<1> DEFINE w == Wanted(q)
           mem == w + 2 * HeaderSize
           pages == PagesCount(mem)
<1>1. q \in Nat /\ WordMod \in Nat
  BY SizesAssumption DEF Words
<1>2. w \in Nat
  BY <1>1, WantedType
<1>3. mem \in Nat /\ mem + PageSize <= WordMod
  BY <1>2, SizesAssumption DEF Wraps
<1> HIDE DEF w
<1>4. SizeFromCapacity((w + HeaderSize) % WordMod) = mem
  <2>1. (w + HeaderSize) % WordMod = w + HeaderSize
    BY <1>2, <1>3, ModSmall, SizesAssumption
  <2>2. mem % WordMod = mem
    BY <1>3, ModSmall, SizesAssumption
  <2>3. (w + HeaderSize) + HeaderSize = mem
    BY <1>2, SizesAssumption
  <2> QED BY <2>1, <2>2, <2>3 DEF SizeFromCapacity
<1> HIDE DEF mem
<1>5. PageSize * pages >= mem /\ PageSize * pages < mem + PageSize /\ PageSize * pages \in Nat
  <2> DEFINE k == mem \div PageSize
             rest == mem % PageSize
  <2>1. k \in Nat /\ rest \in 0 .. PageSize - 1 /\ mem = PageSize * k + rest
    BY <1>3, SizesAssumption
  <2>2. pages = k + (IF rest > 0 THEN 1 ELSE 0)
    BY DEF PagesCount
  <2> HIDE DEF k, rest, pages
  <2>3. PageSize * (k + 1) = PageSize * k + PageSize /\ PageSize * (k + 0) = PageSize * k
        /\ PageSize * k \in Nat
    BY <2>1, SizesAssumption
  <2> QED BY <2>1, <2>2, <2>3, SizesAssumption
<1>6. RoundPages(mem) = PageSize * pages
  <2>1. PageSize * pages < WordMod
    BY <1>1, <1>3, <1>5, SizesAssumption
  <2> QED BY <2>1, <1>5, ModSmall DEF RoundPages
<1> HIDE DEF pages
<1>7. RegionActualSize(mem) >= mem /\ RegionActualSize(mem) \in Nat
  BY <1>3, <1>5, <1>6, SizesAssumption, RegionSizeType DEF RegionActualSize, SizeMax
<1>8. GrowSize(q) = RegionActualSize(mem)
  BY <1>4 DEF GrowSize, w
<1>9. GrowSize(q) - HeaderSize >= w
  BY <1>2, <1>7, <1>8, SizesAssumption DEF mem
<1> QED BY <1>9 DEF w

-----------------------------------------------------------------------------
(* What the search has seen.                                               *)

\* A block behind the search is not changed by a merge in front of it, and
\* neither is what follows it.
LEMMA MergeKeepsScanned ==
  ASSUME Ind, Search, ScanMerge
  PROVE  ScannedBlocksUnfit'
<1> DEFINE n == hdr[cur].next
<1>1. /\ cur \in Blocks /\ pc = "scan" /\ Mergeable(hdr, cur)
      /\ hdr' = MergedWithNext(hdr, cur) /\ UNCHANGED <<heap, cur, query, pc>>
      /\ Layout(hdr, mapped) /\ ListIntegrity
  BY DEF Ind, TypeOK, ScanMerge, Blocks, Search
<1>2. Before(hdr', cur) \subseteq Before(hdr, cur)
  BY <1>1, MergeOneList
<1>3. Absorbed(hdr, cur, n, hdr')
  BY <1>1, MergeResult DEF Blocks
<1> HIDE DEF n
<1>4. /\ n \in DOMAIN hdr /\ n # cur /\ n # NULL
      /\ hdr[cur].is_free = TRUE
      /\ DOMAIN hdr' = DOMAIN hdr \ {n}
      /\ hdr'[cur].is_free = TRUE
      /\ \A b \in DOMAIN hdr \ {n, cur} : hdr'[b] = hdr[b]
  BY <1>3 DEF Absorbed
<1>5. SUFFICES ASSUME NEW a \in Before(hdr', cur)
               PROVE  ~GoodBlock(hdr', a, Wanted(query)) /\ ~Mergeable(hdr', a)
  BY <1>1 DEF ScannedBlocksUnfit
<1>6. ~GoodBlock(hdr, a, Wanted(query)) /\ ~Mergeable(hdr, a)
  BY <1>1, <1>2 DEF ScannedBlocksUnfit, Search
<1>7. a \in DOMAIN hdr' /\ a # cur
  BY DEF Before
<1>8. hdr'[a] = hdr[a] /\ a \in DOMAIN hdr
  BY <1>4, <1>7
<1>9. ~GoodBlock(hdr', a, Wanted(query))
  BY <1>6, <1>8 DEF GoodBlock
<1>10. ~Mergeable(hdr', a)
  <2> SUFFICES ASSUME Mergeable(hdr', a) PROVE FALSE
    OBVIOUS
  <2> DEFINE x == hdr[a].next
  <2>1. /\ x # NULL /\ hdr[a].is_free /\ hdr'[x].is_free
        /\ x = BlockAfter(hdr, a)
    BY <1>8 DEF Mergeable, BlocksContinuous, BlockAfter
  <2>2. x \in DOMAIN hdr
    BY <2>1, <1>1, <1>8 DEF Layout, Links
  <2>3. x # n
    BY <2>1, <1>1, <1>7, <1>8 DEF Layout, Links, Blocks, n
  <2>4. hdr[x].is_free
    BY <2>1, <2>2, <2>3, <1>4
  <2> QED BY <2>1, <2>4, <1>6 DEF Mergeable, BlocksContinuous
<1> QED BY <1>9, <1>10

\* The search moves on only from a block that is neither good nor mergeable.
LEMMA AdvanceKeepsScanned ==
  ASSUME Ind, Search, ScanAdvance
  PROVE  ScannedBlocksUnfit'
<1>1. /\ cur \in DOMAIN hdr /\ pc = "scan" /\ cur' = hdr[cur].next
      /\ ~Mergeable(hdr, cur) /\ ~GoodBlock(hdr, cur, Wanted(query))
      /\ UNCHANGED <<hdr, query, pc>>
  BY DEF Ind, TypeOK, ScanAdvance
<1>2. ASSUME NEW a \in Before(hdr, cur')
      PROVE  ~GoodBlock(hdr, a, Wanted(query)) /\ ~Mergeable(hdr, a)
  <2>1. a = cur \/ a \in Before(hdr, cur)
    BY <1>1, BeforeNext
  <2> QED BY <2>1, <1>1 DEF Search, ScannedBlocksUnfit
<1> QED BY <1>1, <1>2 DEF ScannedBlocksUnfit

\* The block that absorbs the last one serves what the last one served.
LEMMA MergeKeepsLast ==
  ASSUME Ind, Search, ScanMerge
  PROVE  LastBlockServes'
<1> DEFINE n == hdr[cur].next
           w == Wanted(query)
<1>1. /\ cur \in DOMAIN hdr /\ pc = "scan" /\ Mergeable(hdr, cur)
      /\ hdr' = MergedWithNext(hdr, cur) /\ UNCHANGED <<query, pc, retry, region>>
      /\ Layout(hdr, mapped) /\ query \in Nat
  BY SizesAssumption DEF Ind, TypeOK, ScanMerge, Words
<1>2. Absorbed(hdr, cur, n, hdr')
  BY <1>1, MergeResult
<1> HIDE DEF n
<1>3. /\ n \in DOMAIN hdr /\ n # cur
      /\ DOMAIN hdr' = DOMAIN hdr \ {n}
      /\ hdr'[cur] = [next |-> hdr[n].next,
                      capacity |-> hdr[cur].capacity + HeaderSize + hdr[n].capacity,
                      is_free |-> TRUE]
      /\ \A b \in DOMAIN hdr \ {n, cur} : hdr'[b] = hdr[b]
  BY <1>2 DEF Absorbed
<1>4. w \in Nat /\ hdr[cur].capacity \in Nat /\ hdr[n].capacity \in Nat
  BY <1>1, <1>3, WantedType DEF Layout, Headers, Header
<1> HIDE DEF w
<1>5. SUFFICES ASSUME retry, region # NULL, ~Wraps(query),
                      NEW a \in DOMAIN hdr', hdr'[a].next = NULL
               PROVE  GoodBlock(hdr', a, w)
  BY <1>1 DEF LastBlockServes, Blocks, w
<1>6. \A b \in DOMAIN hdr : hdr[b].next = NULL => GoodBlock(hdr, b, w)
  BY <1>1, <1>5 DEF Search, LastBlockServes, Blocks, w
<1>7. CASE a = cur
  <2>1. GoodBlock(hdr, n, w)
    BY <1>3, <1>5, <1>6, <1>7
  <2>2. hdr[n].capacity >= w
    BY <2>1 DEF GoodBlock
  <2>3. hdr'[a].capacity >= w /\ hdr'[a].is_free = TRUE
    BY <2>2, <1>3, <1>4, <1>7, SizesAssumption
  <2> QED BY <2>3 DEF GoodBlock
<1>8. CASE a # cur
  <2>1. hdr'[a] = hdr[a] /\ a \in DOMAIN hdr
    BY <1>3, <1>8
  <2> QED BY <2>1, <1>5, <1>6 DEF GoodBlock
<1> QED BY <1>7, <1>8

\* The last block of a heap that has grown is the new region, alone or merged
\* with the block that was the last one.
LEMMA GrownLast ==
  ASSUME Ind, ListIntegrity, pc = "grow", NEW r \in Nat \ {0}, NEW size \in Nat,
         size >= RegionMinSize, r + size <= AddrLimit,
         Bytes(r, size) \intersect mapped = {},
         hdr' = Grown(hdr, cur, r, size),
         NEW w \in Nat, size - HeaderSize >= w,
         NEW a \in DOMAIN hdr', hdr'[a].next = NULL
  PROVE  GoodBlock(hdr', a, w)
<1> DEFINE h2 == BlockInit([hdr EXCEPT ![cur].next = r], r, size, NULL)
           m2 == mapped \union Bytes(r, size)
<1>1. /\ cur \in DOMAIN hdr /\ hdr[cur].next = NULL
      /\ Layout(hdr, mapped) /\ OneList(hdr, heap)
  BY DEF Ind, TypeOK, Control, ListIntegrity
<1>2. Layout(h2, m2) /\ Linked(hdr, cur, r, size, h2)
  BY RegionLinked
<1>3. hdr' = TryMergeWithNext(h2, cur)
  BY DEF Grown
<1> HIDE DEF h2, m2
<1>4. /\ r \notin DOMAIN hdr /\ r # NULL
      /\ DOMAIN h2 = DOMAIN hdr \union {r}
      /\ h2[r].next = NULL /\ h2[r].capacity = size - HeaderSize /\ h2[r].is_free = TRUE
      /\ h2[cur].next = r
      /\ \A b \in DOMAIN hdr \ {cur} : h2[b].next = hdr[b].next
  BY <1>2 DEF Linked
<1>5. \A b \in DOMAIN h2 : h2[b].next = NULL => b = r
  <2> SUFFICES ASSUME NEW b \in DOMAIN hdr, h2[b].next = NULL PROVE FALSE
    BY <1>4
  <2>1. b # cur
    BY <1>4
  <2>2. hdr[b].next = NULL
    BY <2>1, <1>4
  <2> QED BY <2>1, <2>2, <1>1, OneEnd
<1>6. CASE Mergeable(h2, cur)
  <2>1. hdr' = MergedWithNext(h2, cur) /\ cur \in DOMAIN h2
    BY <1>1, <1>3, <1>4, <1>6 DEF TryMergeWithNext
  <2>2. Absorbed(h2, cur, r, hdr')
    BY <2>1, <1>2, <1>4, <1>6, MergeResult
  <2>3. /\ DOMAIN hdr' = DOMAIN h2 \ {r}
        /\ hdr'[cur] = [next |-> h2[r].next,
                        capacity |-> h2[cur].capacity + HeaderSize + h2[r].capacity,
                        is_free |-> TRUE]
        /\ \A b \in DOMAIN h2 \ {r, cur} : hdr'[b] = h2[b]
    BY <2>2 DEF Absorbed
  <2>4. a = cur
    BY <2>3, <1>5
  <2>5. h2[cur].capacity \in Nat
    BY <2>1, <1>2 DEF Layout, Headers, Header
  <2>6. hdr'[a].capacity >= w /\ hdr'[a].is_free = TRUE
    BY <2>3, <2>4, <2>5, <1>4, SizesAssumption
  <2> QED BY <2>6 DEF GoodBlock
<1>7. CASE ~Mergeable(h2, cur)
  <2>1. hdr' = h2
    BY <1>3, <1>7 DEF TryMergeWithNext
  <2>2. a = r
    BY <2>1, <1>5
  <2> QED BY <2>1, <2>2, <1>4 DEF GoodBlock
<1> QED BY <1>6, <1>7

\* After grow_heap the search starts over at the first header, and if there is
\* a new region it has the room that was missing.
LEMMA GrowSearch ==
  ASSUME Ind, Search, Grow
  PROVE  Search'
<1> DEFINE size == GrowSize(query)
<1>1. PICK r \in Placements(BlockAfter(hdr, cur), size) :
        /\ region' = r
        /\ IF r # NULL /\ Bytes(r, size) \intersect mapped # {}
           THEN pc' = "corrupt" /\ UNCHANGED <<hdr, cur, retry>>
           ELSE /\ pc' = "scan"
                /\ cur' = HEAP_START
                /\ retry' = TRUE
                /\ IF r = NULL
                   THEN UNCHANGED hdr
                   ELSE hdr' = Grown(hdr, cur, r, size)
  BY DEF Grow
<1>2. /\ pc = "grow" /\ UNCHANGED <<heap, query, result>> /\ heap = HEAP_START
      /\ query \in Words /\ cur \in Blocks /\ TypeOK /\ Layout(hdr, mapped)
      /\ ~retry /\ result = NULL /\ ListIntegrity
  BY DEF Ind, TypeOK, Head, Grow, Search, Blocks
<1>3. size \in Nat /\ size >= RegionMinSize
  BY <1>2, GrowSizeType
<1>4. Wanted(query) \in Nat
  BY <1>2, WantedType, SizesAssumption DEF Words
<1>5. ~Wraps(query) => size - HeaderSize >= Wanted(query)
  BY <1>2, GrowSizeEnough
<1> HIDE DEF size
<1>6. r # NULL => r \in Nat \ {0} /\ r + size <= AddrLimit
  BY <1>2, <1>3, BlockType, PlacementRange
<1>7. ListIntegrity'
  <2>1. [Next]_vars
    BY DEF Next, Steps
  <2> QED BY <2>1, <1>2, NextOneList
<1>8. CASE r # NULL /\ Bytes(r, size) \intersect mapped # {}
  BY <1>1, <1>2, <1>7, <1>8 DEF Search, ScannedBlocksUnfit, LastBlockServes
<1>9. CASE ~(r # NULL /\ Bytes(r, size) \intersect mapped # {})
  <2>1. pc' = "scan" /\ cur' = heap' /\ region' = r
    BY <1>1, <1>2, <1>9
  <2>2. ScannedBlocksUnfit'
    <3>1. Before(hdr', heap') = {}
      BY <1>7, NothingBeforeFirst DEF ListIntegrity
    <3> QED BY <3>1, <2>1 DEF ScannedBlocksUnfit
  <2>3. LastBlockServes'
    <3>1. SUFFICES ASSUME r # NULL, ~Wraps(query),
                          NEW a \in DOMAIN hdr', hdr'[a].next = NULL
                   PROVE  GoodBlock(hdr', a, Wanted(query))
      BY <2>1, <1>2 DEF LastBlockServes, Blocks, Wraps
    <3>2. hdr' = Grown(hdr, cur, r, size) /\ Bytes(r, size) \intersect mapped = {}
      BY <3>1, <1>1, <1>9
    <3> QED BY <3>1, <3>2, <1>2, <1>3, <1>4, <1>5, <1>6, GrownLast
  <2> QED BY <2>1, <2>2, <2>3, <1>2, <1>7 DEF Search
<1> QED BY <1>8, <1>9

\* _malloc starts its search at the first header, for the first time.
LEMMA MallocSearch ==
  ASSUME Ind, Search, NEW q \in Queries, Malloc(q)
  PROVE  Search'
<1>1. /\ UNCHANGED <<hdr, heap, retry>> /\ ~retry /\ result' = NULL
      /\ pc' = "scan" => cur' = heap'
      /\ pc' # "grow" /\ ListIntegrity
  BY DEF Malloc, Search, Ind, Head, Blocks
<1>2. Before(hdr', heap') = {}
  BY <1>1, NothingBeforeFirst DEF ListIntegrity
<1>3. ScannedBlocksUnfit'
  BY <1>1, <1>2 DEF ScannedBlocksUnfit
<1> QED BY <1>1, <1>3 DEF Search, LastBlockServes, ListIntegrity

\* Every step keeps the list and what is known about the running search.
LEMMA NextSearch ==
  ASSUME Ind, Search, [Next]_vars
  PROVE  Search'
<1>1. ListIntegrity'
  BY NextOneList DEF Search
<1>2. ASSUME NEW p \in ForeignPages, ForeignMmap(p)
      PROVE  Search'
  BY <1>1, <1>2 DEF ForeignMmap, Search, ScannedBlocksUnfit, LastBlockServes
<1>3. ASSUME NEW i \in InitialSizes, HeapInit(i)
      PROVE  Search'
  BY <1>1, <1>3 DEF HeapInit, Search, ScannedBlocksUnfit, LastBlockServes
<1>4. ASSUME NEW q \in Queries, Malloc(q)
      PROVE  Search'
  BY <1>4, MallocSearch
<1>5. ASSUME NEW a \in lent, Free(a)
      PROVE  Search'
  BY <1>1, <1>5 DEF Free, Search, ScannedBlocksUnfit, LastBlockServes
<1>6. CASE ScanMerge
  <2>1. ScannedBlocksUnfit' /\ LastBlockServes'
    BY <1>6, MergeKeepsScanned, MergeKeepsLast
  <2> QED BY <1>1, <1>6, <2>1 DEF ScanMerge, Search
<1>7. CASE ScanTake
  BY <1>1, <1>7 DEF ScanTake, Return, Search, ScannedBlocksUnfit, LastBlockServes
<1>8. CASE ScanAdvance
  <2>1. ScannedBlocksUnfit'
    BY <1>8, AdvanceKeepsScanned
  <2>2. LastBlockServes'
    BY <1>8 DEF ScanAdvance, Search, LastBlockServes, Blocks, Wraps
  <2> QED BY <1>1, <1>8, <2>1, <2>2 DEF ScanAdvance, Search
<1>9. CASE ScanEnd
  <2>1. ScannedBlocksUnfit'
    BY <1>9 DEF ScanEnd, AtEnd, Search, ScannedBlocksUnfit
  <2> QED BY <1>1, <1>9, <2>1 DEF ScanEnd, AtEnd, Search, LastBlockServes
<1>10. CASE ScanFail
  BY <1>1, <1>10 DEF ScanFail, Return, Search, ScannedBlocksUnfit, LastBlockServes
<1>11. CASE Grow
  BY <1>11, GrowSearch
<1>12. CASE FreeStep
  BY <1>1, <1>12 DEF FreeStep, Search, ScannedBlocksUnfit, LastBlockServes
<1>13. CASE UNCHANGED vars
  <2>1. UNCHANGED <<heap, hdr, pc, cur, query, retry, region, result>>
    BY <1>13 DEF vars
  <2> QED BY <1>1, <2>1 DEF Search, ScannedBlocksUnfit, LastBlockServes, Blocks, Wraps
<1> QED BY <1>2, <1>3, <1>4, <1>5, <1>6, <1>7, <1>8, <1>9, <1>10, <1>11, <1>12, <1>13
        DEF Next, Calls, Steps

\* The list, the search and their invariant, in every reachable state.
THEOREM SearchInvariance == Spec => [](Ind /\ Search)
<1>1. Init => Ind /\ Search
  <2> SUFFICES ASSUME Init PROVE Ind /\ Search
    OBVIOUS
  <2>1. DOMAIN hdr = {}
    BY DEF Init
  <2>2. DOMAIN hdr \in ClosedSets(hdr)
    BY <2>1, ClosedSet
  <2>3. ListIntegrity
    BY <2>1, <2>2 DEF ListIntegrity, OneList
  <2> QED BY <2>3, InitInd DEF Init, Search, ScannedBlocksUnfit, LastBlockServes
<1>2. (Ind /\ Search) /\ [Next]_vars => (Ind /\ Search)'
  BY NextInd, NextSearch
<1> QED BY <1>1, <1>2, PTL DEF Spec

\* Following next from what heap_init returned meets every block once and ends,
\* whatever was split, merged or appended.
THEOREM HeadersFormOneList == Spec => []ListIntegrity
<1>1. Ind /\ Search => ListIntegrity
  BY DEF Search
<1> QED BY <1>1, SearchInvariance, PTL

\* find_good_or_last leaves no block behind that would have served, alone or
\* together with the free block next to it.
THEOREM SearchMissesNothing == Spec => []ScannedBlocksUnfit
<1>1. Ind /\ Search => ScannedBlocksUnfit
  BY DEF Search
<1> QED BY <1>1, SearchInvariance, PTL

\* A heap that has grown serves the request, unless mmap refused or the size
\* computation of grow_heap wrapped around.
THEOREM GrowthIsEnough == Spec => []GrowthServes
<1>1. Ind /\ Search => GrowthServes
  <2> SUFFICES ASSUME Ind, Search, retry, AtEnd, ~(region = NULL \/ Wraps(query))
               PROVE  FALSE
    BY DEF GrowthServes
  <2>1. cur \in Blocks /\ pc = "scan"
    BY DEF Ind, TypeOK, AtEnd, Blocks
  <2> QED BY <2>1 DEF Search, LastBlockServes, AtEnd
<1> QED BY <1>1, SearchInvariance, PTL

-----------------------------------------------------------------------------
(* The allocator implements its contract: the steps that move the search    *)
(* along, merge free blocks or add a region are invisible to the client,   *)
(* the others are the steps of MemAllocAbs.                                *)

\* The client sees the blocks in use only.
LEMMA SameLive ==
  ASSUME DOMAIN hdr \subseteq Nat, hdr \in [DOMAIN hdr -> Header],
         hdr' \in [DOMAIN hdr' -> Header],
         \A a \in DOMAIN hdr : hdr[a].is_free = FALSE =>
            /\ a \in DOMAIN hdr'
            /\ hdr'[a].is_free = FALSE /\ hdr'[a].capacity = hdr[a].capacity,
         \A a \in DOMAIN hdr' : hdr'[a].is_free = FALSE =>
            a \in DOMAIN hdr /\ hdr[a].is_free = FALSE
  PROVE  Live' = Live
<1>1. \A a \in DOMAIN hdr : ~hdr[a].is_free <=> hdr[a].is_free = FALSE
  BY DEF Header
<1>2. \A a \in DOMAIN hdr' : ~hdr'[a].is_free <=> hdr'[a].is_free = FALSE
  BY DEF Header
<1>3. TakenBlocks' = TakenBlocks
  BY <1>1, <1>2 DEF TakenBlocks, Blocks
<1>4. \A a \in TakenBlocks : hdr'[a].capacity = hdr[a].capacity
  BY <1>1 DEF TakenBlocks, Blocks
<1> QED BY <1>3, <1>4 DEF Live

\* Two free blocks become one free block.
LEMMA MergeLive ==
  ASSUME Ind, NEW a \in Blocks, Mergeable(hdr, a), hdr' = MergedWithNext(hdr, a)
  PROVE  Live' = Live
<1>1. Layout(hdr, mapped) /\ a \in DOMAIN hdr
  BY DEF Ind, Blocks
<1>2. Layout(hdr', mapped)
  BY <1>1, MergeKeepsLayout
<1>3. Absorbed(hdr, a, hdr[a].next, hdr')
  BY <1>1, MergeResult
<1>4. /\ hdr[a].is_free = TRUE /\ hdr[hdr[a].next].is_free = TRUE
      /\ DOMAIN hdr' = DOMAIN hdr \ {hdr[a].next}
      /\ hdr'[a].is_free = TRUE
      /\ \A b \in DOMAIN hdr \ {hdr[a].next, a} : hdr'[b] = hdr[b]
  BY <1>3 DEF Absorbed
<1>5. \A b \in DOMAIN hdr : hdr[b].is_free = FALSE =>
        /\ b \in DOMAIN hdr'
        /\ hdr'[b].is_free = FALSE /\ hdr'[b].capacity = hdr[b].capacity
  BY <1>4
<1>6. \A b \in DOMAIN hdr' : hdr'[b].is_free = FALSE =>
        b \in DOMAIN hdr /\ hdr[b].is_free = FALSE
  BY <1>4
<1>7. /\ DOMAIN hdr \subseteq Nat /\ hdr \in [DOMAIN hdr -> Header]
      /\ hdr' \in [DOMAIN hdr' -> Header]
  BY <1>1, <1>2 DEF Layout, Headers
<1> QED BY <1>5, <1>6, <1>7, SameLive

\* A region that is added is free.
LEMMA GrownLive ==
  ASSUME Ind, pc = "grow", NEW r \in Nat \ {0}, NEW size \in Nat,
         size >= RegionMinSize, r + size <= AddrLimit,
         Bytes(r, size) \intersect mapped = {},
         hdr' = Grown(hdr, cur, r, size)
  PROVE  Live' = Live
<1> DEFINE h2 == BlockInit([hdr EXCEPT ![cur].next = r], r, size, NULL)
           m2 == mapped \union Bytes(r, size)
<1>1. cur \in DOMAIN hdr /\ Layout(hdr, mapped)
  BY DEF Ind, TypeOK
<1>2. Layout(h2, m2) /\ Linked(hdr, cur, r, size, h2)
  BY RegionLinked
<1>3. hdr' = TryMergeWithNext(h2, cur)
  BY DEF Grown
<1> HIDE DEF h2, m2
<1>4. /\ r \notin DOMAIN hdr
      /\ DOMAIN h2 = DOMAIN hdr \union {r}
      /\ h2[r].is_free = TRUE /\ h2[cur].next = r
      /\ \A b \in DOMAIN hdr : h2[b].capacity = hdr[b].capacity /\ h2[b].is_free = hdr[b].is_free
  BY <1>2 DEF Linked
<1>5. Layout(hdr', m2)
  BY <1>1, <1>2, <1>3, <1>4, TryMergeKeepsLayout
<1>6. /\ \A b \in DOMAIN hdr : hdr[b].is_free = FALSE =>
           /\ b \in DOMAIN hdr'
           /\ hdr'[b].is_free = FALSE /\ hdr'[b].capacity = hdr[b].capacity
      /\ \A b \in DOMAIN hdr' : hdr'[b].is_free = FALSE =>
           b \in DOMAIN hdr /\ hdr[b].is_free = FALSE
  <2>1. CASE Mergeable(h2, cur)
    <3>1. hdr' = MergedWithNext(h2, cur)
      BY <2>1, <1>3 DEF TryMergeWithNext
    <3>2. Absorbed(h2, cur, r, hdr')
      BY <3>1, <2>1, <1>1, <1>2, <1>4, MergeResult
    <3>3. /\ DOMAIN hdr' = DOMAIN h2 \ {r}
          /\ h2[cur].is_free = TRUE /\ hdr'[cur].is_free = TRUE
          /\ \A b \in DOMAIN h2 \ {r, cur} : hdr'[b] = h2[b]
      BY <3>2 DEF Absorbed
    <3> QED BY <3>3, <1>1, <1>4
  <2>2. CASE ~Mergeable(h2, cur)
    <3>1. hdr' = h2
      BY <2>2, <1>3 DEF TryMergeWithNext
    <3> QED BY <3>1, <1>4
  <2> QED BY <2>1, <2>2
<1>7. /\ DOMAIN hdr \subseteq Nat /\ hdr \in [DOMAIN hdr -> Header]
      /\ hdr' \in [DOMAIN hdr' -> Header]
  BY <1>1, <1>5 DEF Layout, Headers
<1> QED BY <1>6, <1>7, SameLive

\* What taking a good block does: the block is in use and large enough, what it
\* has too much would not make a block, and no other block is taken or changed.
LEMMA TakeResult ==
  ASSUME Ind, ScanTake
  PROVE  LET cap == hdr'[cur].capacity
             q   == Wanted(query)
         IN  /\ cur \in DOMAIN hdr' /\ hdr'[cur].is_free = FALSE
             /\ cap \in Nat /\ cap >= q /\ cap < q + HeaderSize + MinCapacity
             /\ \A b \in DOMAIN hdr \ {cur} : b \in DOMAIN hdr' /\ hdr'[b] = hdr[b]
             /\ \A b \in DOMAIN hdr' \ DOMAIN hdr : hdr'[b].is_free = TRUE
             /\ Layout(hdr', mapped)
<1> DEFINE q == Wanted(query)
           s == SplitIfTooBig(hdr, cur, q)
<1>1. /\ cur \in DOMAIN hdr /\ Layout(hdr, mapped)
      /\ hdr[cur].capacity >= q /\ hdr[cur].is_free
      /\ hdr' = [s EXCEPT ![cur].is_free = FALSE]
  BY DEF Ind, TypeOK, ScanTake, GoodBlock
<1>2. q \in Nat /\ q >= MinCapacity
  BY WantedType, SizesAssumption DEF Ind, TypeOK, Words
<1>3. /\ cur \in Nat \ {0} /\ hdr[cur].capacity \in Nat
      /\ cur + HeaderSize + hdr[cur].capacity <= AddrLimit
  BY <1>1 DEF Layout, Headers, Header, Bounds
<1>4. /\ Layout(s, mapped) /\ cur \in DOMAIN s
      /\ s[cur].capacity \in Nat /\ s[cur].capacity >= q
      /\ s[cur].capacity < q + HeaderSize + MinCapacity
      /\ \A b \in DOMAIN hdr \ {cur} : b \in DOMAIN s /\ s[b] = hdr[b]
      /\ \A b \in DOMAIN s \ DOMAIN hdr : s[b].is_free = TRUE
  <2>1. CASE BlockSplittable(hdr, cur, q)
    <3> DEFINE r == cur + q + HeaderSize
    <3>1. s = Split(hdr, cur, q)
      BY <2>1 DEF SplitIfTooBig
    <3>2. Layout(s, mapped) /\ Cut(hdr, cur, q, r, s)
      BY <3>1, <2>1, <1>1, <1>2, SplitKeepsLayout, SplitResult
    <3> HIDE DEF s, q, r
    <3>3. /\ DOMAIN s = DOMAIN hdr \union {r}
          /\ s[r].is_free = TRUE /\ s[cur].capacity = q
          /\ \A b \in DOMAIN hdr \ {cur} : s[b] = hdr[b]
      BY <3>2 DEF Cut
    <3> QED BY <3>2, <3>3, <1>1, <1>2, SizesAssumption
  <2>2. CASE ~BlockSplittable(hdr, cur, q)
    <3>1. s = hdr
      BY <2>2 DEF SplitIfTooBig
    <3>2. q + HeaderSize + MinCapacity \in Nat
      BY <1>2, SizesAssumption
    <3>3. q + HeaderSize + MinCapacity < WordMod
      BY <1>1, <1>2, <1>3, SizesAssumption
    <3>4. (q + HeaderSize + MinCapacity) % WordMod = q + HeaderSize + MinCapacity
      BY <3>2, <3>3, ModSmall
    <3>5. ~(q + HeaderSize + MinCapacity <= hdr[cur].capacity)
      BY <3>4, <2>2, <1>1 DEF BlockSplittable
    <3> QED BY <3>1, <3>2, <3>5, <1>1, <1>2, <1>3
  <2> QED BY <2>1, <2>2
<1> HIDE DEF s, q
<1>5. Flagged(s, cur, FALSE, hdr') /\ Layout(hdr', mapped)
  BY <1>1, <1>4, FlagKeepsLayout
<1>6. /\ DOMAIN hdr' = DOMAIN s
      /\ \A b \in DOMAIN s \ {cur} : hdr'[b] = s[b]
      /\ hdr'[cur].is_free = FALSE /\ hdr'[cur].capacity = s[cur].capacity
  BY <1>4, <1>5 DEF Flagged
<1>7. /\ \A b \in DOMAIN hdr \ {cur} : b \in DOMAIN hdr' /\ hdr'[b] = hdr[b]
      /\ \A b \in DOMAIN hdr' \ DOMAIN hdr : hdr'[b].is_free = TRUE
  BY <1>1, <1>4, <1>6
<1> QED BY <1>4, <1>5, <1>6, <1>7 DEF q

\* The search hands out a block: the contract serves the request.
LEMMA TakeServes ==
  ASSUME Ind, ScanTake
  PROVE  Contract!Serve
<1> DEFINE q == Wanted(query)
           cap == hdr'[cur].capacity
<1>1. /\ pc = "scan" /\ pc' = "idle" /\ result' = cur + HeaderSize
      /\ cur \in DOMAIN hdr /\ hdr[cur].is_free = TRUE
      /\ Layout(hdr, mapped) /\ query \in Nat
  BY SizesAssumption DEF Ind, TypeOK, Layout, Headers, Header, ScanTake, Return, GoodBlock, Words
<1>2. /\ cur \in DOMAIN hdr' /\ hdr'[cur].is_free = FALSE
      /\ cap \in Nat /\ cap >= q /\ cap < q + HeaderSize + MinCapacity
      /\ \A b \in DOMAIN hdr \ {cur} : b \in DOMAIN hdr' /\ hdr'[b] = hdr[b]
      /\ \A b \in DOMAIN hdr' \ DOMAIN hdr : hdr'[b].is_free = TRUE
      /\ Layout(hdr', mapped)
  BY TakeResult
<1>3. q \in Nat /\ q = Contract!AtLeast(query)
  BY <1>1, WantedType DEF Wanted, SizeMax, Contract!AtLeast
<1>4. TakenBlocks' = TakenBlocks \union {cur} /\ cur \notin TakenBlocks
  BY <1>1, <1>2 DEF TakenBlocks, Blocks
<1>5. DOMAIN Live = TakenBlocks /\ \A b \in TakenBlocks : Live[b] = hdr[b].capacity
  BY DEF Live
<1>6. \A b \in TakenBlocks : b \in DOMAIN hdr' /\ b # cur /\ hdr'[b].capacity = hdr[b].capacity
  BY <1>2, <1>4 DEF TakenBlocks, Blocks
<1> HIDE DEF q, cap
<1>7. Live' = [b \in DOMAIN Live \union {cur} |-> IF b = cur THEN cap ELSE Live[b]]
  <2>1. Live' = [b \in TakenBlocks \union {cur} |-> hdr'[b].capacity]
    BY <1>4 DEF Live
  <2> QED BY <2>1, <1>5, <1>6 DEF cap
<1>8. \A b \in DOMAIN Live : \/ cur + HeaderSize + cap <= b
                             \/ b + HeaderSize + Live[b] <= cur
  <2> TAKE b \in DOMAIN Live
  <2>1. b \in DOMAIN hdr' /\ b # cur /\ Live[b] = hdr'[b].capacity
    BY <1>5, <1>6
  <2> QED BY <2>1, <1>2 DEF Layout, Apart, cap
<1>9. cur \in 1 .. AddrLimit - 1
  <2>1. cur \in Nat \ {0} /\ hdr[cur].capacity \in Nat
        /\ cur + HeaderSize + hdr[cur].capacity <= AddrLimit
    BY <1>1 DEF Layout, Headers, Header, Bounds
  <2> QED BY <2>1, SizesAssumption
<1>10. cap - q \in 0 .. HeaderSize + MinCapacity - 1 /\ q + (cap - q) = cap
  BY <1>2, <1>3, SizesAssumption
<1>11. /\ Request = query /\ Request # NoRequest /\ Request' = NoRequest
       /\ Lost' = Lost
  BY <1>1 DEF Request, NoRequest, Lost
<1>12. LET c == Contract!AtLeast(Request) + (cap - q) IN
       /\ cur \notin DOMAIN Live
       /\ Contract!Disjoint(cur, c)
       /\ Live' = [b \in DOMAIN Live \union {cur} |-> IF b = cur THEN c ELSE Live[b]]
       /\ result' = cur + HeaderSize
  BY <1>1, <1>3, <1>4, <1>5, <1>7, <1>8, <1>10, <1>11 DEF Contract!Disjoint
<1> QED BY <1>9, <1>10, <1>11, <1>12 DEF Contract!Serve

\* _free gives up the block it is called for, and no other; a block that was
\* free already stays free.
LEMMA FreeFrees ==
  ASSUME Ind, NEW a \in lent, Free(a)
  PROVE  (\E b \in DOMAIN Live : Contract!Free(b)) \/ Contract!FreeAgain
<1>1. /\ a \in DOMAIN hdr /\ Layout(hdr, mapped)
      /\ pc = "idle" /\ pc' = "free" /\ result' = NULL
      /\ DOMAIN hdr \subseteq Nat /\ hdr \in [DOMAIN hdr -> Header]
  BY DEF Ind, TypeOK, Free
<1>2. Flagged(hdr, a, TRUE, hdr') /\ Layout(hdr', mapped)
  BY <1>1, FlagKeepsLayout DEF Free
<1>3. /\ DOMAIN hdr' = DOMAIN hdr /\ hdr'[a].is_free = TRUE
      /\ hdr'[a].capacity = hdr[a].capacity
      /\ \A b \in DOMAIN hdr \ {a} : hdr'[b] = hdr[b]
      /\ hdr' \in [DOMAIN hdr' -> Header]
  BY <1>1, <1>2 DEF Flagged, Layout, Headers
<1>4. /\ ~Lost /\ Lost' = Lost /\ Request = NoRequest /\ Request' = NoRequest
  BY <1>1 DEF Lost, Request, NoRequest
<1>5. CASE hdr[a].is_free = TRUE
  <2>1. Live' = Live
    BY <1>1, <1>3, <1>5, SameLive
  <2> QED BY <2>1, <1>1, <1>4 DEF Contract!FreeAgain, Contract!NULL, NULL
<1>6. CASE hdr[a].is_free = FALSE
  <2>1. a \in TakenBlocks /\ TakenBlocks' = TakenBlocks \ {a}
    BY <1>1, <1>3, <1>6 DEF TakenBlocks, Blocks
  <2>2. DOMAIN Live = TakenBlocks /\ \A b \in TakenBlocks : Live[b] = hdr[b].capacity
    BY DEF Live
  <2>3. \A b \in TakenBlocks \ {a} : hdr'[b].capacity = hdr[b].capacity
    BY <1>3 DEF TakenBlocks, Blocks
  <2>4. Live' = [b \in DOMAIN Live \ {a} |-> Live[b]]
    BY <2>1, <2>2, <2>3 DEF Live
  <2> QED BY <2>1, <2>2, <2>4, <1>1, <1>4 DEF Contract!Free, Contract!NULL, NULL
<1>7. hdr[a].is_free \in BOOLEAN
  BY <1>1 DEF Header
<1> QED BY <1>5, <1>6, <1>7

\* The client does not notice that a region was added or refused; when it was
\* mapped over the heap itself, all promises end.
LEMMA GrowUnseen ==
  ASSUME Ind, Search, Grow
  PROVE  Contract!Lose \/ UNCHANGED Contract!vars
<1> DEFINE size == GrowSize(query)
<1>1. PICK r \in Placements(BlockAfter(hdr, cur), size) :
        IF r # NULL /\ Bytes(r, size) \intersect mapped # {}
        THEN pc' = "corrupt" /\ UNCHANGED hdr
        ELSE /\ pc' = "scan"
             /\ IF r = NULL THEN UNCHANGED hdr ELSE hdr' = Grown(hdr, cur, r, size)
  BY DEF Grow
<1>2. /\ pc = "grow" /\ UNCHANGED <<query, result>> /\ result = NULL
      /\ query \in Words /\ cur \in Blocks /\ TypeOK /\ Layout(hdr, mapped)
  BY DEF Ind, TypeOK, Grow, Search, Blocks
<1>3. size \in Nat /\ size >= RegionMinSize
  BY <1>2, GrowSizeType
<1> HIDE DEF size
<1>4. r # NULL => r \in Nat \ {0} /\ r + size <= AddrLimit
  BY <1>2, <1>3, BlockType, PlacementRange
<1>5. UNCHANGED hdr => Live' = Live
  BY DEF Live, TakenBlocks, Blocks
<1>6. CASE r # NULL /\ Bytes(r, size) \intersect mapped # {}
  <2>1. pc' = "corrupt" /\ Live' = Live
    BY <1>1, <1>5, <1>6
  <2>2. Lost' = TRUE /\ Request' = NoRequest
    BY <2>1 DEF Lost, Request
  <2> QED BY <2>1, <2>2, <1>2 DEF Contract!Lose, Contract!NULL, NULL
<1>7. CASE ~(r # NULL /\ Bytes(r, size) \intersect mapped # {})
  <2>1. pc' = "scan"
    BY <1>1, <1>7
  <2>2. Live' = Live
    <3>1. CASE r = NULL
      BY <3>1, <1>1, <1>5
    <3>2. CASE r # NULL
      <4>1. hdr' = Grown(hdr, cur, r, size) /\ Bytes(r, size) \intersect mapped = {}
        BY <3>2, <1>1, <1>7
      <4> QED BY <4>1, <3>2, <1>2, <1>3, <1>4, GrownLive
    <3> QED BY <3>1, <3>2
  <2>3. Lost' = Lost /\ Request' = Request
    BY <2>1, <1>2 DEF Lost, Request
  <2> QED BY <2>2, <2>3, <1>2 DEF Contract!vars
<1> QED BY <1>6, <1>7

\* Every step of the allocator is a step of the contract, or unseen.
LEMMA StepImplements ==
  ASSUME Ind, Search, [Next]_vars
  PROVE  [Contract!Next]_Contract!vars
<1>0. TypeOK /\ Layout(hdr, mapped)
  BY DEF Ind
<1>1. ASSUME UNCHANGED hdr
      PROVE  Live' = Live
  BY <1>1 DEF Live, TakenBlocks, Blocks
<1>2. ASSUME NEW p \in ForeignPages, ForeignMmap(p)
      PROVE  UNCHANGED Contract!vars
  BY <1>1, <1>2 DEF ForeignMmap, Contract!vars, Request, Lost
<1>3. ASSUME NEW i \in InitialSizes, HeapInit(i)
      PROVE  UNCHANGED Contract!vars
  <2> DEFINE size == RegionActualSize(SizeFromCapacity(i))
  <2>1. PICK r \in Placements(HEAP_START, size) :
          IF r = NULL
          THEN UNCHANGED hdr
          ELSE hdr' = BlockInit(hdr, r, size, NULL)
    BY <1>3 DEF HeapInit
  <2>2. DOMAIN hdr = {} /\ pc = "start" /\ pc' = "idle" /\ result' = result
    BY <1>3 DEF Ind, Head, HeapInit, Blocks
  <2> HIDE DEF size
  <2>3. TakenBlocks' = {} /\ TakenBlocks = {}
    BY <2>1, <2>2 DEF BlockInit, TakenBlocks, Blocks
  <2>4. Live' = Live
    BY <2>3 DEF Live
  <2> QED BY <2>2, <2>4 DEF Contract!vars, Request, Lost
<1>4. ASSUME NEW q \in Queries, Malloc(q)
      PROVE  Contract!Ask(q) \/ Contract!Lose
  <2>1. Live' = Live /\ pc = "idle" /\ result' = NULL
    BY <1>1, <1>4 DEF Malloc
  <2>2. Request = NoRequest /\ ~Lost
    BY <2>1 DEF Request, Lost
  <2>3. CASE HEAP_START \in DOMAIN hdr
    <3>1. pc' = "scan" /\ query' = q
      BY <2>3, <1>4 DEF Malloc
    <3>2. Request' = q /\ Lost' = Lost
      BY <3>1, <2>1 DEF Request, Lost
    <3> QED BY <3>2, <2>1, <2>2 DEF Contract!Ask, Contract!NULL, NULL
  <2>4. CASE HEAP_START \notin DOMAIN hdr
    <3>1. pc' = "fault"
      BY <2>4, <1>4 DEF Malloc
    <3>2. Request' = NoRequest /\ Lost' = TRUE
      BY <3>1 DEF Request, Lost
    <3> QED BY <3>2, <2>1 DEF Contract!Lose, Contract!NULL, NULL
  <2> QED BY <2>3, <2>4
<1>5. ASSUME NEW a \in lent, Free(a)
      PROVE  (\E b \in DOMAIN Live : Contract!Free(b)) \/ Contract!FreeAgain
  BY <1>5, FreeFrees
<1>6. CASE ScanMerge
  <2>1. cur \in Blocks /\ Mergeable(hdr, cur) /\ hdr' = MergedWithNext(hdr, cur)
    BY <1>0, <1>6 DEF TypeOK, ScanMerge, Blocks
  <2>2. Live' = Live
    BY <2>1, MergeLive
  <2> QED BY <2>2, <1>6 DEF ScanMerge, Contract!vars, Request, Lost
<1>7. CASE ScanTake
  BY <1>7, TakeServes DEF Contract!Next
<1>8. CASE ScanAdvance
  BY <1>1, <1>8 DEF ScanAdvance, Contract!vars, Request, Lost
<1>9. CASE ScanEnd
  <2>1. pc = "scan" /\ pc' = "grow" /\ UNCHANGED <<hdr, query, result>>
    BY <1>9 DEF ScanEnd, AtEnd
  <2> QED BY <2>1, <1>1 DEF Contract!vars, Request, Lost
<1>10. CASE ScanFail
  <2>1. /\ pc = "scan" /\ pc' = "idle" /\ result' = NULL /\ UNCHANGED hdr
        /\ query \in Nat
    BY <1>0, <1>10, SizesAssumption DEF TypeOK, ScanFail, AtEnd, Return, Words
  <2>2. Request # NoRequest /\ Request' = NoRequest /\ Lost' = Lost /\ Live' = Live
    BY <2>1, <1>1 DEF Request, NoRequest, Lost
  <2> QED BY <2>1, <2>2 DEF Contract!Next, Contract!Refuse, Contract!NULL, NULL
<1>11. CASE Grow
  BY <1>11, GrowUnseen DEF Contract!Next
<1>12. CASE FreeStep
  <2>1. /\ cur \in Blocks /\ pc = "free" /\ pc' \in {"idle", "free"}
        /\ hdr' = TryMergeWithNext(hdr, cur) /\ result' = result
    BY <1>0, <1>12 DEF TypeOK, FreeStep, Blocks
  <2>2. Live' = Live
    <3>1. CASE Mergeable(hdr, cur)
      BY <3>1, <2>1, MergeLive DEF TryMergeWithNext
    <3>2. CASE ~Mergeable(hdr, cur)
      BY <3>2, <2>1, <1>1 DEF TryMergeWithNext
    <3> QED BY <3>1, <3>2
  <2> QED BY <2>1, <2>2 DEF Contract!vars, Request, Lost
<1>13. CASE UNCHANGED vars
  <2>1. UNCHANGED <<hdr, pc, query, result>>
    BY <1>13 DEF vars
  <2> QED BY <2>1, <1>1 DEF Contract!vars, Request, Lost
<1> QED BY <1>2, <1>3, <1>4, <1>5, <1>6, <1>7, <1>8, <1>9, <1>10, <1>11, <1>12, <1>13
        DEF Next, Calls, Steps, Contract!Next

\* The allocator implements the contract of a heap: until the program is lost,
\* _malloc returns NULL or a block of its own that is large enough and not much
\* larger, and _free takes back exactly the block it was given.
THEOREM AllocatorImplementsContract == Spec => ImplementsContract
<1>1. Init => Contract!Init
  <2> SUFFICES ASSUME Init PROVE Contract!Init
    OBVIOUS
  <2>1. TakenBlocks = {} /\ pc = "start" /\ result = NULL
    BY DEF Init, TakenBlocks, Blocks
  <2>2. Live = [a \in {} |-> 0]
    BY <2>1 DEF Live
  <2>3. Request = NoRequest /\ Lost = FALSE
    BY <2>1 DEF Request, Lost
  <2> QED BY <2>1, <2>2, <2>3 DEF Contract!Init, Contract!NULL, NULL
<1>2. (Ind /\ Search) /\ [Next]_vars => [Contract!Next]_Contract!vars
  BY StepImplements
<1> QED BY <1>1, <1>2, SearchInvariance, PTL DEF Spec, ImplementsContract, Contract!Spec
=============================================================================
