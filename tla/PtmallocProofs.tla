--------------------------- MODULE PtmallocProofs ---------------------------
(***************************************************************************)
(* What the calls of Ptmalloc keep, for every program, every word size and *)
(* every answer of the system.  The first part is sysmalloc, which moves   *)
(* top; the second is the invariant of a call, IInv, with a lemma per      *)
(* action and the theorems: the invariant is inductive, and it implies     *)
(* that every state is well typed (TypeOK), that every chunk is in exactly *)
(* one place between calls (OneOwner), and that every block serves the     *)
(* request it was made for (BlocksServe).                                  *)
(***************************************************************************)
EXTENDS PtmallocHeap, FiniteSetTheorems

-----------------------------------------------------------------------------
(* Top moves: sysmalloc.                                                   *)

SystemFields == {"contiguous", "system_mem", "sbrk_base", "brk", "mapped"}

\* The system gave [a, b): h1 has it, and top is to move there.
MovesTop(h, h1, a, b) ==
  /\ Same(h, h1, Loose \cup SystemFields)
  /\ a \in Nat /\ b \in Nat /\ 0 < a /\ aligned_OK(a) /\ a + MINSIZE <= b /\ Vacant(h.hdr, a, b)
  /\ Space(h.brk, h.mapped) \subseteq Space(h1.brk, h1.mapped)
  /\ \A z \in Nat : a <= z /\ z < b => z \in Space(h1.brk, h1.mapped)
  /\ h.top # NIL => h1.sbrk_base = h.sbrk_base
  /\ h.top = NIL => h1.sbrk_base <= a
  /\ h1.contiguous => /\ h.contiguous /\ h.top < a
                      /\ b <= h1.brk /\ h1.sbrk_base + h1.system_mem = b
  /\ h1.contiguous \in BOOLEAN /\ h1.brk \in BrkStart .. HeapEnd
  /\ h1.sbrk_base \in Nat /\ h1.sbrk_base # 0 /\ h1.system_mem \in Int

TopSet(h1, h2, a, b) ==
  /\ Same(h1, h2, {"hdr", "top", "touched"}) /\ h2.top = a
  /\ DOMAIN h2.hdr = DOMAIN h1.hdr \cup {a}
  /\ h2.hdr[a] = Hd(b - a, TRUE, 0, FALSE)
  /\ \A x \in DOMAIN h1.hdr : x # a => h2.hdr[x] = h1.hdr[x]

\* Top is set to [a, b).
LEMMA SetTop ==
  ASSUME NEW h1, Rec(h1), NEW a, NEW b, NEW x,
         NEW h2, h2 = Touch([set_head(h1, a, b - a) EXCEPT !.top = a], x)
  PROVE  TopSet(h1, h2, a, b)
<1> DEFINE hA == set_head(h1, a, b - a)
           hB == [hA EXCEPT !.top = a]
<1>1. hA = set_head(h1, a, b - a) /\ hB = [hA EXCEPT !.top = a] /\ h2 = Touch(hB, x) OBVIOUS
<1> HIDE DEF hA, hB
<1>2. Wrote(h1, hA, a, Hd(b - a, TRUE, 0, FALSE)) BY ONLY <1>1, Rec(h1), SetHead
<1>3. Rec(hA) BY ONLY <1>2 DEF Wrote, Same
<1>4. Same(hA, hB, {"top"}) /\ hB.top = a BY ONLY <1>1, <1>3 DEF Rec, Same, Fields
<1>5. Same(hB, h2, {"touched"})
  <2>1. Rec(hB) BY ONLY <1>4 DEF Same
  <2> QED BY ONLY <2>1, <1>1, TouchSame
<1>6. Same(h1, h2, {"hdr", "top", "touched"}) /\ h2.top = a /\ h2.hdr = hA.hdr
  BY ONLY <1>2, <1>4, <1>5 DEF Wrote, Same, Fields
<1> QED BY ONLY <1>2, <1>6 DEF Wrote, TopSet

\* The first top.
LEMMA FirstMoved ==
  ASSUME NEW h, NEW u, NEW t, HeapOK(h, u, {}, t), h.top = NIL,
         NEW h1, NEW a, NEW b, MovesTop(h, h1, a, b),
         NEW hA, TopSet(h1, hA, a, b), NEW h2, h2 = Forget(hA, NIL)
  PROVE  HeapOK(h2, u, {}, t)
<1>1. /\ Shape(h.hdr, NIL, Space(h.brk, h.mapped), h.contiguous, h.sbrk_base)
      /\ Tagged(h.hdr, NIL, Members(h.bins)) /\ Rec(h) /\ h.sbrk_base \in Nat
  BY LaidOut
<1>2. h.contiguous = TRUE BY DEF HeapOK, Bounds
<1>3. /\ Same(h, h1, Loose \cup SystemFields)
      /\ a \in Nat /\ b \in Nat /\ 0 < a /\ aligned_OK(a) /\ a + MINSIZE <= b /\ Vacant(h.hdr, a, b)
      /\ Space(h.brk, h.mapped) \subseteq Space(h1.brk, h1.mapped)
      /\ \A z \in Nat : a <= z /\ z < b => z \in Space(h1.brk, h1.mapped)
      /\ h1.sbrk_base <= a
  BY DEF MovesTop
<1>4. /\ Rec(hA) /\ hA.top = a /\ DOMAIN hA.hdr = DOMAIN h.hdr \cup {a}
      /\ hA.hdr[a] = Hd(b - a, TRUE, 0, FALSE)
      /\ \A x \in DOMAIN h.hdr : x # a => hA.hdr[x] = h.hdr[x]
      /\ Same(h, hA, Loose \cup Moving)
      /\ hA.contiguous = h1.contiguous /\ hA.sbrk_base = h1.sbrk_base /\ hA.brk = h1.brk
      /\ hA.mapped = h1.mapped /\ hA.system_mem = h1.system_mem /\ h1.top_pad = h.top_pad
      /\ hA.top_pad = h.top_pad
  <2>1. h1.hdr = h.hdr /\ h1.top_pad = h.top_pad BY ONLY <1>3 DEF Same, Fields, Loose, SystemFields
  <2> QED BY ONLY TopSet(h1, hA, a, b), <1>3, <2>1 DEF TopSet, Same, Fields, Loose, SystemFields, Moving
<1>5. Forgot(hA, h2, NIL) BY ONLY <1>4, h2 = Forget(hA, NIL), Forgotten
<1>6. /\ Same(h, h2, Loose \cup Moving) /\ h2.top = a
      /\ h2.contiguous = h1.contiguous /\ h2.sbrk_base = h1.sbrk_base /\ h2.brk = h1.brk
      /\ h2.mapped = h1.mapped /\ h2.system_mem = h1.system_mem /\ h2.top_pad = h.top_pad
  BY ONLY <1>4, <1>5 DEF Forgot, Same, Fields, Moving
<1>7. a # NIL BY ONLY <1>3 DEF NIL
<1>8. /\ DOMAIN h2.hdr = (DOMAIN h.hdr \ {NIL}) \cup {a}
      /\ h2.hdr[a] = Hd(b - a, TRUE, 0, FALSE)
      /\ \A x \in DOMAIN h.hdr \ {NIL} : x # a => h2.hdr[x] = h.hdr[x]
  <2>1. DOMAIN h2.hdr = DOMAIN hA.hdr \ {NIL} /\ \A x \in DOMAIN h2.hdr : h2.hdr[x] = hA.hdr[x]
    BY ONLY <1>5 DEF Forgot
  <2>2. DOMAIN h2.hdr = (DOMAIN h.hdr \ {NIL}) \cup {a} BY ONLY <2>1, <1>4, <1>7
  <2> QED BY ONLY <2>1, <2>2, <1>4
<1>9. a \notin DOMAIN h.hdr
  <2> SUFFICES ASSUME a \in DOMAIN h.hdr PROVE FALSE OBVIOUS
  <2>1. /\ h.hdr[a].prev_size \in Nat /\ h.hdr[a].mmapped \in BOOLEAN /\ h.hdr[a].size \in Nat
    BY HeaderFacts
  <2>2. h.hdr[a].size > 0 BY ONLY <1>1, <1>7, a \in DOMAIN h.hdr DEF Shape, Typed
  <2>3. End(h.hdr, a) <= a \/ b <= Start(h.hdr, a) BY ONLY <1>3, a \in DOMAIN h.hdr DEF Vacant
  <2>4. Start(h.hdr, a) <= a /\ Start(h.hdr, a) \in Int BY ONLY <2>1, <1>3 DEF Start
  <2>5. End(h.hdr, a) > a /\ End(h.hdr, a) \in Int BY ONLY <2>1, <2>2, <1>3 DEF End
  <2>6. MINSIZE \in Nat /\ MINSIZE > 0 BY Units
  <2> QED BY ONLY <2>3, <2>4, <2>5, <2>6, <1>3
<1>10. /\ Shape(h2.hdr, a, Space(h2.brk, h2.mapped), h2.contiguous, h2.sbrk_base)
       /\ Tagged(h2.hdr, a, {}) /\ Members(h.bins) = {} /\ Chunks(h2.hdr, a) = {}
       /\ Chunks(h.hdr, NIL) = {}
  <2> DEFINE hdr == h.hdr
             hdr2 == h2.hdr
             W == Space(h.brk, h.mapped)
             W2 == Space(h2.brk, h2.mapped)
             lo == h.sbrk_base
             lo2 == h2.sbrk_base
             c2 == h2.contiguous
             B == Members(h.bins)
  <2>1. StartsTop(hdr, a, b, W, W2, lo2, hdr2)
    BY ONLY <1>3, <1>6, <1>8, <1>9 DEF StartsTop
  <2>2. Shape(hdr, NIL, W, TRUE, lo) BY ONLY <1>1, <1>2
  <2>3. Tagged(hdr, NIL, B) BY ONLY <1>1
  <2>4. /\ Shape(hdr2, a, W2, c2, lo2) /\ Tagged(hdr2, a, {}) /\ B = {}
        /\ Chunks(hdr2, a) = {} /\ Chunks(hdr, NIL) = {}
    <3> HIDE DEF hdr, hdr2, W, W2, lo, lo2, c2, B
    <3> QED BY ONLY <2>1, <2>2, <2>3, FirstTop
  <2> QED BY ONLY <2>4
<1>11. Bounds(h2)
  <2>1. End(h2.hdr, a) = b
    <3>1. End(h2.hdr, a) = a + (b - a) BY ONLY <1>8 DEF End, Hd
    <3> QED BY ONLY <3>1, <1>3
  <2>2. h.top_pad \in Nat BY DEF HeapOK, Bounds
  <2> QED BY ONLY <2>1, <2>2, <1>6, <1>7, MovesTop(h, h1, a, b) DEF Bounds, MovesTop
<1> DEFINE T == {NIL, a}
<1>12. NIL \notin Listed(h) /\ NIL \notin Members(h.bins) /\ NIL \notin DOMAIN u
  BY TopFree
<1>13. a \notin Listed(h) /\ a \notin Members(h.bins) /\ a \notin DOMAIN u
  <2>1. a \notin Chunks(h.hdr, h.top) BY ONLY <1>9 DEF Chunks
  <2> QED BY ONLY HeapOK(h, u, {}, t), <2>1, <1>9, NoChunk
<1>14. Untouched(h, u, h2, u, T)
  BY ONLY <1>6, <1>8, h.top = NIL DEF Untouched
<1>15. Disposed(h2, u, T)
  <2>1. ~h2.hdr[a].mmapped BY ONLY <1>8 DEF Hd
  <2>2. NIL \notin DOMAIN h2.hdr BY ONLY <1>7, <1>8
  <2> QED BY ONLY <2>1, <2>2, <1>6, <1>10, <1>12, <1>13 DEF Disposed
<1>16. T \cap Listed(h) = {} /\ T \cap Members(h.bins) = {} BY ONLY <1>12, <1>13
<1> HIDE DEF T
<1> QED BY ONLY HeapOK(h, u, {}, t), <1>6, <1>10, <1>11, <1>14, <1>15, <1>16, Rebuilt

Fences(hA, h2, p, s) ==
  /\ Same(hA, h2, {"hdr"})
  /\ DOMAIN h2.hdr = DOMAIN hA.hdr \cup {p, p + s, p + s + CHUNK_HDR_SZ}
  /\ s > 0 => h2.hdr[p] = Hd(s, TRUE, 0, FALSE)
  /\ h2.hdr[p + s] = Hd(CHUNK_HDR_SZ, TRUE, 0, FALSE)
  /\ h2.hdr[p + s + CHUNK_HDR_SZ] = Hd(CHUNK_HDR_SZ, TRUE, 0, FALSE)
  /\ \A x \in DOMAIN hA.hdr : x # p /\ x # p + s /\ x # p + s + CHUNK_HDR_SZ =>
       h2.hdr[x] = hA.hdr[x]

\* The headers that fencepost writes.
LEMMA Fencing ==
  ASSUME NEW hA, Rec(hA), NEW p \in Nat, NEW s \in Nat, NEW h2, h2 = fencepost(hA, p, s)
  PROVE  Fences(hA, h2, p, s)
<1> DEFINE k == CHUNK_HDR_SZ
           f == p + s
           g == p + s + k
           hB == set_head(hA, p, s)
           hC == set_head(hB, f, k)
<1>1. hB = set_head(hA, p, s) /\ hC = set_head(hB, f, k) /\ h2 = set_head(hC, g, k)
      /\ f = p + s /\ g = p + s + k /\ k = CHUNK_HDR_SZ
  BY DEF fencepost
<1>2. k \in Nat /\ k > 0 BY Units
<1>3. f # g /\ p # g /\ (s > 0 => p # f) BY ONLY <1>1, <1>2, p \in Nat, s \in Nat
<1> HIDE DEF hB, hC, f, g, k
<1>4. Wrote(hA, hB, p, Hd(s, TRUE, 0, FALSE)) BY ONLY <1>1, Rec(hA), SetHead
<1>5. Rec(hB) BY ONLY <1>4 DEF Wrote, Same
<1>6. Wrote(hB, hC, f, Hd(k, TRUE, 0, FALSE)) BY ONLY <1>1, <1>5, SetHead
<1>7. Rec(hC) BY ONLY <1>6 DEF Wrote, Same
<1>8. Wrote(hC, h2, g, Hd(k, TRUE, 0, FALSE)) BY ONLY <1>1, <1>7, SetHead
<1>9. Same(hA, h2, {"hdr"}) BY ONLY <1>4, <1>6, <1>8 DEF Wrote, Same, Fields
<1>10. /\ DOMAIN hB.hdr = DOMAIN hA.hdr \cup {p} /\ DOMAIN hC.hdr = DOMAIN hB.hdr \cup {f}
       /\ DOMAIN h2.hdr = DOMAIN hC.hdr \cup {g}
  BY ONLY <1>4, <1>6, <1>8 DEF Wrote
<1>11. DOMAIN h2.hdr = DOMAIN hA.hdr \cup {p, f, g} BY ONLY <1>10
<1>12. s > 0 => h2.hdr[p] = Hd(s, TRUE, 0, FALSE)
  <2>1. hB.hdr[p] = Hd(s, TRUE, 0, FALSE) /\ p \in DOMAIN hB.hdr BY ONLY <1>4 DEF Wrote
  <2>2. s > 0 => hC.hdr[p] = hB.hdr[p] /\ p \in DOMAIN hC.hdr
    BY ONLY <2>1, <1>3, <1>6 DEF Wrote
  <2> QED BY ONLY <2>1, <2>2, <1>3, <1>8 DEF Wrote
<1>13. h2.hdr[f] = Hd(k, TRUE, 0, FALSE) /\ h2.hdr[g] = Hd(k, TRUE, 0, FALSE)
  <2>1. hC.hdr[f] = Hd(k, TRUE, 0, FALSE) /\ f \in DOMAIN hC.hdr BY ONLY <1>6 DEF Wrote
  <2> QED BY ONLY <2>1, <1>3, <1>8 DEF Wrote
<1>14. \A x \in DOMAIN hA.hdr : x # p /\ x # f /\ x # g => h2.hdr[x] = hA.hdr[x]
  <2> SUFFICES ASSUME NEW x \in DOMAIN hA.hdr, x # p, x # f, x # g PROVE h2.hdr[x] = hA.hdr[x]
    OBVIOUS
  <2>1. hB.hdr[x] = hA.hdr[x] /\ x \in DOMAIN hB.hdr BY ONLY <1>4, x \in DOMAIN hA.hdr, x # p DEF Wrote
  <2>2. hC.hdr[x] = hA.hdr[x] /\ x \in DOMAIN hC.hdr BY ONLY <2>1, <1>6, x # f DEF Wrote
  <2> QED BY ONLY <2>2, <1>8, x # g DEF Wrote
<1> QED BY ONLY <1>1, <1>9, <1>11, <1>12, <1>13, <1>14 DEF Fences

\* Top moves, and what it was ends in two fenceposts.
LEMMA Fenced ==
  ASSUME NEW h, NEW u, NEW t, HeapOK(h, u, {}, t), NEW p, p = h.top, p # NIL,
         NEW h1, NEW a, NEW b, MovesTop(h, h1, a, b),
         NEW hA, TopSet(h1, hA, a, b),
         NEW s, s = ALIGN_DOWN(h.hdr[p].size - 2 * CHUNK_HDR_SZ, MALLOC_ALIGNMENT),
         NEW h2, h2 = fencepost(hA, p, s),
         NEW u2, u2 = IF s >= MINSIZE THEN With(u, p, Plain(s)) ELSE u
  PROVE  HeapOK(h2, u2, {}, t) /\ Same(h1, h2, {"hdr", "top", "touched"})
<1> DEFINE B == Members(h.bins)
           e == End(h.hdr, p)
           k == CHUNK_HDR_SZ
           f == p + s
           g == f + k
<1>1. /\ Shape(h.hdr, p, Space(h.brk, h.mapped), h.contiguous, h.sbrk_base)
      /\ Tagged(h.hdr, p, B) /\ Rec(h) /\ h.sbrk_base \in Nat
  BY LaidOut
<1>2. /\ Same(h, h1, Loose \cup SystemFields)
      /\ a \in Nat /\ b \in Nat /\ 0 < a /\ aligned_OK(a) /\ a + MINSIZE <= b /\ Vacant(h.hdr, a, b)
      /\ Space(h.brk, h.mapped) \subseteq Space(h1.brk, h1.mapped)
      /\ \A z \in Nat : a <= z /\ z < b => z \in Space(h1.brk, h1.mapped)
      /\ h1.sbrk_base = h.sbrk_base
      /\ h1.contiguous => h.contiguous /\ p < a
  BY DEF MovesTop
<1>3. /\ p \in DOMAIN h.hdr /\ p \in Nat /\ aligned_OK(p) /\ h.hdr[p].size \in Nat
      /\ h.hdr[p].size >= MINSIZE
  <2>1. Typed(h.hdr, p) BY ONLY <1>1 DEF Shape
  <2> QED BY ONLY <2>1, p = h.top, p # NIL, HeapOK(h, u, {}, t), TopFacts DEF Typed
<1>4. k \in Nat /\ k > 0 /\ aligned_OK(k) /\ MINSIZE = 2 * k /\ MINSIZE \in Nat BY Units
<1>5. s \in Nat /\ aligned_OK(s) /\ s + 2 * k <= h.hdr[p].size
  <2> DEFINE x == h.hdr[p].size - 2 * k
  <2>1. x \in Nat BY ONLY <1>3, <1>4
  <2>2. s = ALIGN_DOWN(x, MALLOC_ALIGNMENT) OBVIOUS
  <2>3. x + 2 * k = h.hdr[p].size BY ONLY <1>3, <1>4
  <2> HIDE DEF x
  <2>4. s \in Nat /\ aligned_OK(s) /\ s <= x BY ONLY <2>1, <2>2, Aligned
  <2> QED BY ONLY <2>1, <2>3, <2>4, <1>4
<1>6. e = p + h.hdr[p].size BY DEF End
<1>d. k = CHUNK_HDR_SZ /\ f = p + s /\ g = f + k /\ e = End(h.hdr, p) /\ B = Members(h.bins) OBVIOUS
<1>7. /\ f \in Nat /\ g \in Nat /\ e \in Nat /\ p <= f /\ f < g /\ g + k <= e /\ f < e /\ g < e /\ p < g /\ f - p = s
      /\ (s > 0 => p < f) /\ (p # f => s > 0) /\ p < e
  BY ONLY <1>3, <1>4, <1>5, <1>6, <1>d
<1>8. aligned_OK(f)
  <2>1. p \in Int /\ s \in Int BY ONLY <1>3, <1>5
  <2> QED BY ONLY <2>1, <1>3, <1>5, <1>d, AlignedSum
<1> HIDE DEF e, k, f, g, B
<1>9. /\ Same(h, hA, Loose \cup Moving) /\ Same(h1, hA, {"hdr", "top", "touched"}) /\ hA.top = a
      /\ DOMAIN hA.hdr = DOMAIN h.hdr \cup {a}
      /\ hA.hdr[a] = Hd(b - a, TRUE, 0, FALSE)
      /\ \A x \in DOMAIN h.hdr : x # a => hA.hdr[x] = h.hdr[x]
      /\ h1.top_pad = h.top_pad /\ Rec(hA)
  <2>1. h1.hdr = h.hdr /\ h1.top_pad = h.top_pad BY ONLY <1>2 DEF Same, Fields, Loose, SystemFields
  <2> QED BY ONLY TopSet(h1, hA, a, b), <1>2, <2>1 DEF TopSet, Same, Fields, Loose, SystemFields, Moving
<1>10. /\ Same(hA, h2, {"hdr"})
       /\ DOMAIN h2.hdr = DOMAIN hA.hdr \cup {p, f, g}
       /\ s > 0 => h2.hdr[p] = Hd(s, TRUE, 0, FALSE)
       /\ h2.hdr[f] = Hd(k, TRUE, 0, FALSE)
       /\ h2.hdr[g] = Hd(k, TRUE, 0, FALSE)
       /\ \A x \in DOMAIN hA.hdr : x # p /\ x # f /\ x # g => h2.hdr[x] = hA.hdr[x]
  <2>1. Fences(hA, h2, p, s) BY ONLY <1>3, <1>5, <1>9, h2 = fencepost(hA, p, s), Fencing
  <2> QED BY ONLY <2>1, <1>d DEF Fences
<1>11. /\ Same(h, h2, Loose \cup Moving) /\ Same(h1, h2, {"hdr", "top", "touched"}) /\ h2.top = a
       /\ h2.contiguous = h1.contiguous /\ h2.sbrk_base = h1.sbrk_base /\ h2.brk = h1.brk
       /\ h2.mapped = h1.mapped /\ h2.system_mem = h1.system_mem /\ h2.top_pad = h.top_pad
  BY ONLY <1>9, <1>10 DEF Same, Fields, Moving
<1>12. \A x \in DOMAIN h.hdr : ~(p < x /\ x < e)
  <2> SUFFICES ASSUME NEW x \in DOMAIN h.hdr, p < x, x < e PROVE FALSE OBVIOUS
  <2>1. e <= Start(h.hdr, x)
    BY ONLY <1>1, <1>3, <1>d, x \in DOMAIN h.hdr, p < x DEF Shape, Apart
  <2>2. h.hdr[x].prev_size \in Nat /\ h.hdr[x].mmapped \in BOOLEAN /\ x \in Nat BY HeaderFacts
  <2>3. Start(h.hdr, x) <= x /\ Start(h.hdr, x) \in Int BY ONLY <2>2 DEF Start
  <2> QED BY ONLY <2>1, <2>2, <2>3, <1>7, x < e
<1>13. g \notin DOMAIN h.hdr /\ (f # p => f \notin DOMAIN h.hdr)
  BY ONLY <1>7, <1>12
<1>14. a \notin DOMAIN h.hdr
  <2> SUFFICES ASSUME a \in DOMAIN h.hdr PROVE FALSE OBVIOUS
  <2>1. /\ h.hdr[a].prev_size \in Nat /\ h.hdr[a].mmapped \in BOOLEAN /\ h.hdr[a].size \in Nat
    BY HeaderFacts
  <2>2. h.hdr[a].size > 0
    <3>1. Typed(h.hdr, p) BY ONLY <1>1 DEF Shape
    <3>2. CASE a = p BY ONLY <3>2, <1>3, <1>4
    <3>3. CASE a # p BY ONLY <3>1, <3>3, a \in DOMAIN h.hdr DEF Typed
    <3> QED BY ONLY <3>2, <3>3
  <2>3. End(h.hdr, a) <= a \/ b <= Start(h.hdr, a) BY ONLY <1>2, a \in DOMAIN h.hdr DEF Vacant
  <2>4. Start(h.hdr, a) <= a /\ Start(h.hdr, a) \in Int BY ONLY <2>1, <1>2 DEF Start
  <2>5. End(h.hdr, a) > a /\ End(h.hdr, a) \in Int BY ONLY <2>1, <2>2, <1>2 DEF End
  <2> QED BY ONLY <2>3, <2>4, <2>5, <1>2, <1>4
<1>15. a # p /\ a # f /\ a # g
  <2>1. e <= a \/ b <= p
    <3>1. h.hdr[p].mmapped = FALSE BY ONLY p = h.top, HeapOK(h, u, {}, t), TopFacts
    <3>2. Start(h.hdr, p) = p BY ONLY <3>1 DEF Start
    <3> QED BY ONLY <3>2, <1>2, <1>3, <1>d DEF Vacant
  <2> QED BY ONLY <2>1, <1>2, <1>4, <1>7, <1>3
<1>16. /\ DOMAIN h2.hdr = DOMAIN h.hdr \cup {f, g, a}
       /\ p # f => h2.hdr[p] = Hd(f - p, TRUE, 0, FALSE)
       /\ h2.hdr[f] = Hd(k, TRUE, 0, FALSE) /\ h2.hdr[g] = Hd(k, TRUE, 0, FALSE)
       /\ h2.hdr[a] = Hd(b - a, TRUE, 0, FALSE)
       /\ \A q \in DOMAIN h.hdr \ {p} : h2.hdr[q] = h.hdr[q]
  <2>1. DOMAIN h2.hdr = DOMAIN h.hdr \cup {f, g, a} BY ONLY <1>3, <1>9, <1>10
  <2>2. p # f => h2.hdr[p] = Hd(f - p, TRUE, 0, FALSE) BY ONLY <1>7, <1>10
  <2>3. h2.hdr[a] = Hd(b - a, TRUE, 0, FALSE) BY ONLY <1>9, <1>10, <1>15
  <2>4. ASSUME NEW q \in DOMAIN h.hdr \ {p} PROVE h2.hdr[q] = h.hdr[q]
    <3>1. q # p /\ q # f /\ q # g /\ q # a BY ONLY <2>4, <1>13, <1>14
    <3> QED BY ONLY <3>1, <2>4, <1>9, <1>10
  <2> QED BY ONLY <2>1, <2>2, <2>3, <2>4, <1>10
<1>17. /\ Shape(h2.hdr, a, Space(h2.brk, h2.mapped), h2.contiguous, h.sbrk_base)
       /\ Tagged(h2.hdr, a, B)
       /\ Chunks(h2.hdr, a) = Chunks(h.hdr, p) \union (IF f - p >= MINSIZE THEN {p} ELSE {})
  <2>1. Retires(h.hdr, p, e, f, g, a, b, h.contiguous, h2.contiguous, Space(h.brk, h.mapped),
                Space(h2.brk, h2.mapped), h2.hdr)
    <3>1. g + CHUNK_HDR_SZ <= e /\ g = f + CHUNK_HDR_SZ BY ONLY <1>7, <1>d
    <3>2. h2.hdr[f] = Hd(CHUNK_HDR_SZ, TRUE, 0, FALSE) /\ h2.hdr[g] = Hd(CHUNK_HDR_SZ, TRUE, 0, FALSE)
      BY ONLY <1>16, <1>d
    <3> QED BY ONLY <3>1, <3>2, p # NIL, <1>d, <1>7, <1>8, <1>2, <1>11, <1>16 DEF Retires
  <2>2. /\ Shape(h2.hdr, a, Space(h2.brk, h2.mapped), h2.contiguous, h.sbrk_base)
        /\ Tagged(h2.hdr, a, B)
        /\ Chunks(h2.hdr, a) = Chunks(h.hdr, p) \union (IF f - p >= MINSIZE THEN {p} ELSE {})
    BY ONLY <1>1, <2>1, Retire
  <2> QED BY ONLY <2>2
<1>18. Bounds(h2)
  <2>1. End(h2.hdr, a) = b
    <3>1. End(h2.hdr, a) = a + (b - a) BY ONLY <1>16 DEF End, Hd
    <3> QED BY ONLY <3>1, <1>2
  <2>2. h.top_pad \in Nat BY DEF HeapOK, Bounds
  <2>3. a # NIL BY ONLY <1>2 DEF NIL
  <2> QED BY ONLY <2>1, <2>2, <2>3, <1>11, MovesTop(h, h1, a, b) DEF Bounds, MovesTop
<1> DEFINE T == {p, f, g, a}
<1>19. p \notin Listed(h) /\ p \notin B /\ p \notin DOMAIN u /\ p \notin Chunks(h.hdr, h.top)
  BY <1>d, TopFree
<1>20. \A x \in T : x # p => x \notin Listed(h) /\ x \notin B /\ x \notin DOMAIN u /\ x \notin Chunks(h.hdr, h.top)
  <2> SUFFICES ASSUME NEW x \in T, x # p
               PROVE  x \notin Listed(h) /\ x \notin B /\ x \notin DOMAIN u /\ x \notin Chunks(h.hdr, h.top)
    OBVIOUS
  <2>1. x \notin DOMAIN h.hdr BY ONLY <1>13, <1>14, x \in T, x # p
  <2>2. x \notin Chunks(h.hdr, h.top) BY ONLY <2>1 DEF Chunks
  <2> QED BY ONLY HeapOK(h, u, {}, t), <1>d, <2>1, <2>2, NoChunk
<1>21. /\ DOMAIN u2 = DOMAIN u \cup (IF s >= MINSIZE THEN {p} ELSE {})
       /\ s >= MINSIZE => u2[p] = Plain(s)
       /\ \A x \in DOMAIN u : x # p => u2[x] = u[x]
  BY ONLY u2 = IF s >= MINSIZE THEN With(u, p, Plain(s)) ELSE u, <1>19 DEF With
<1>t. T = {p, f, g, a} OBVIOUS
<1>22. Untouched(h, u, h2, u2, T)
  BY ONLY <1>11, <1>16, <1>21, p = h.top, <1>t DEF Untouched
<1>23. Disposed(h2, u2, T)
  <2>1. \A x \in T : x \in DOMAIN u2 => x = p /\ s >= MINSIZE
    BY ONLY <1>19, <1>20, <1>21
  <2>2. \A x \in T : x \in Chunks(h2.hdr, h2.top) => x = p /\ s >= MINSIZE
    BY ONLY <1>7, <1>11, <1>17, <1>19, <1>20, p = h.top
  <2>3. s >= MINSIZE => p \in Chunks(h2.hdr, h2.top) /\ p \in DOMAIN u2 /\ p \in DOMAIN h2.hdr
    BY ONLY <1>3, <1>7, <1>11, <1>16, <1>17, <1>21
  <2>4. s >= MINSIZE => u2[p] = Face(h2.hdr[p])
    <3>1. SUFFICES ASSUME s >= MINSIZE PROVE u2[p] = Face(h2.hdr[p]) OBVIOUS
    <3>2. p # f /\ s = f - p BY ONLY <3>1, <1>4, <1>5, <1>7
    <3>3. h2.hdr[p] = Hd(s, TRUE, 0, FALSE) BY ONLY <3>2, <1>16
    <3> QED BY ONLY <3>1, <3>3, <1>21, SetFace
  <2>5. \A x \in T : ~h2.hdr[x].mmapped
    <3>1. ~h2.hdr[f].mmapped /\ ~h2.hdr[g].mmapped /\ ~h2.hdr[a].mmapped BY ONLY <1>16 DEF Hd
    <3>2. p # f => ~h2.hdr[p].mmapped BY ONLY <1>16 DEF Hd
    <3> QED BY ONLY <3>1, <3>2, <1>t
  <2> QED BY ONLY <2>1, <2>2, <2>3, <2>4, <2>5 DEF Disposed
<1>24. T \cap Listed(h) = {} /\ T \cap B = {} BY ONLY <1>19, <1>20
<1>25. Shape(h2.hdr, h2.top, Space(h2.brk, h2.mapped), h2.contiguous, h2.sbrk_base)
       /\ Tagged(h2.hdr, h2.top, Members(h.bins))
  BY ONLY <1>2, <1>11, <1>17, <1>d
<1>26. T \cap Members(h.bins) = {} BY ONLY <1>24, <1>d
<1> HIDE DEF T
<1>27. HeapOK(h2, u2, {}, t)
  BY ONLY HeapOK(h, u, {}, t), <1>11, <1>18, <1>22, <1>23, <1>24, <1>25, <1>26, Rebuilt
<1> QED BY ONLY <1>11, <1>27

\* Where top moves to, the old top is freed if it is large enough.
LEMMA Moved ==
  ASSUME NEW h, NEW u, NEW t, HeapOK(h, u, {}, t), NEW p, p = h.top,
         NEW h1, NEW a, NEW b, MovesTop(h, h1, a, b),
         NEW s, s = ALIGN_DOWN(h.hdr[p].size - 2 * CHUNK_HDR_SZ, MALLOC_ALIGNMENT),
         NEW x, NEW hA, hA = Touch([set_head(h1, a, b - a) EXCEPT !.top = a], x),
         NEW h2, h2 = retire(hA, p, s)
  PROVE  /\ HeapOK(h2, u, {}, t) /\ (h1.abort => h2.abort)
         /\ Same(h1, h2, {"hdr", "top", "touched"} \cup FreeFields)
<1>1. Rec(h1) BY DEF MovesTop, Same
<1>2. TopSet(h1, hA, a, b)
  BY ONLY <1>1, hA = Touch([set_head(h1, a, b - a) EXCEPT !.top = a], x), SetTop
<1>3. CASE p = NIL
  <2>1. h2 = Forget(hA, NIL) BY ONLY <1>3, h2 = retire(hA, p, s) DEF retire
  <2>2. HeapOK(h2, u, {}, t)
    BY ONLY HeapOK(h, u, {}, t), <1>2, <1>3, <2>1, p = h.top, MovesTop(h, h1, a, b), FirstMoved
  <2>3. Forgot(hA, h2, NIL)
    <3>1. Rec(hA) BY ONLY <1>2 DEF TopSet, Same
    <3> QED BY ONLY <3>1, <2>1, Forgotten
  <2>4. Same(h1, h2, {"hdr", "top", "touched"}) BY ONLY <1>2, <2>3 DEF TopSet, Forgot, Same
  <2>5. h2.abort = h1.abort BY ONLY <2>4 DEF Same, Fields
  <2> QED BY ONLY <2>2, <2>4, <2>5 DEF Same
<1>4. CASE p # NIL
  <2> DEFINE hF == fencepost(hA, p, s)
             v == IF s >= MINSIZE THEN With(u, p, Plain(s)) ELSE u
  <2>d. hF = fencepost(hA, p, s) /\ v = IF s >= MINSIZE THEN With(u, p, Plain(s)) ELSE u OBVIOUS
  <2>1. h2 = IF s >= MINSIZE THEN int_free(hF, p) ELSE hF
    BY ONLY <1>4, <2>d, h2 = retire(hA, p, s) DEF retire
  <2> HIDE DEF hF, v
  <2>2. HeapOK(hF, v, {}, t) /\ Same(h1, hF, {"hdr", "top", "touched"})
    BY ONLY HeapOK(h, u, {}, t), p = h.top, <1>4, MovesTop(h, h1, a, b), <1>2, <2>d,
       s = ALIGN_DOWN(h.hdr[p].size - 2 * CHUNK_HDR_SZ, MALLOC_ALIGNMENT), Fenced
  <2>3. hF.abort = h1.abort BY ONLY <2>2 DEF Same, Fields
  <2>4. CASE s >= MINSIZE
    <3>1. v = With(u, p, Plain(s)) /\ h2 = int_free(hF, p) BY ONLY <2>4, <2>d, <2>1
    <3>2. p \in DOMAIN v /\ v[p] = Plain(s) BY ONLY <3>1 DEF With
    <3>3. ~v[p].mmapped BY ONLY <3>2 DEF Plain
    <3>4. HeapOK(h2, Without(v, p), {}, t) /\ Same(hF, h2, FreeFields) /\ (hF.abort => h2.abort)
      BY ONLY <2>2, <3>1, <3>2, <3>3, Freed
    <3>5. HeapOK(h2, u, {}, t)
      <4>1. p \notin DOMAIN u BY TopFree
      <4>2. DOMAIN u = DOMAIN Without(v, p) /\ \A z \in DOMAIN Without(v, p) : u[z] = Without(v, p)[z]
        BY ONLY <3>1, <4>1 DEF With, Without
      <4> QED BY ONLY <3>4, <4>2, SameHeld
    <3>6. Same(h1, h2, {"hdr", "top", "touched"} \cup FreeFields) BY ONLY <2>2, <3>4 DEF Same
    <3> QED BY ONLY <2>3, <3>4, <3>5, <3>6
  <2>5. CASE ~(s >= MINSIZE)
    <3>1. v = u /\ h2 = hF BY ONLY <2>5, <2>d, <2>1
    <3>2. Same(h1, h2, {"hdr", "top", "touched"} \cup FreeFields) BY ONLY <2>2, <3>1 DEF Same
    <3> QED BY ONLY <2>2, <2>3, <3>1, <3>2
  <2> QED BY ONLY <2>4, <2>5
<1> QED BY ONLY <1>3, <1>4

\* System memory grows by s; a is where the heap starts if it was empty.
GotBrk(h, h1, a, s) ==
  /\ Same(h, h1, Loose \cup {"sbrk_base", "system_mem"})
  /\ h1.sbrk_base = (IF h.sbrk_base = 0 THEN a ELSE h.sbrk_base)
  /\ h1.system_mem = h.system_mem + s

ExtendsTop(h, h1, s) ==
  /\ h.brk = End(h.hdr, h.top) /\ s \in Nat /\ h.brk + s <= HeapEnd
  /\ GotBrk(h, h1, h.brk, s)

\* sbrk extends top.
LEMMA Extended ==
  ASSUME NEW h, NEW u, NEW t, HeapOK(h, u, {}, t), NEW h1, NEW s, ExtendsTop(h, h1, s),
         NEW x, x = h.hdr[h.top].size + s,
         NEW h2, h2 = set_head_size([h1 EXCEPT !.brk = @ + s], h.top, x)
  PROVE  HeapOK(h2, u, {}, t) /\ Same(h1, h2, {"hdr", "brk"})
<1> DEFINE hA == [h1 EXCEPT !.brk = @ + s]
           W2 == Space(h2.brk, h.mapped)
<1>d. hA = [h1 EXCEPT !.brk = @ + s] /\ h2 = set_head_size(hA, h.top, x) /\ W2 = Space(h2.brk, h.mapped)
  OBVIOUS
<1> HIDE DEF hA, W2
<1>1. /\ h.brk = End(h.hdr, h.top) /\ s \in Nat /\ h.brk + s <= HeapEnd
      /\ Same(h, h1, Loose \cup {"sbrk_base", "system_mem"})
      /\ h1.sbrk_base = (IF h.sbrk_base = 0 THEN h.brk ELSE h.sbrk_base)
      /\ h1.system_mem = h.system_mem + s
  BY DEF ExtendsTop, GotBrk
<1>2. /\ h.brk \in Nat /\ h.brk > 0 /\ h.system_mem \in Int /\ h.brk \in BrkStart .. HeapEnd
      /\ h.sbrk_base \in Nat /\ (h.sbrk_base = 0 <=> h.top = NIL) /\ h.top_pad \in Nat
      /\ h.contiguous \in BOOLEAN
      /\ h.contiguous /\ h.top # NIL => h.sbrk_base + h.system_mem = End(h.hdr, h.top)
  <2>1. Bounds(h) BY DEF HeapOK
  <2>2. h.brk \in BrkStart .. HeapEnd BY ONLY <2>1 DEF Bounds
  <2>3. h.brk \in Nat /\ h.brk > 0 BY ONLY <2>2, System
  <2> QED BY ONLY <2>1, <2>2, <2>3 DEF Bounds
<1>3. /\ h.top \in DOMAIN h.hdr /\ h.top \in Nat /\ ~h.hdr[h.top].mmapped
      /\ h.hdr[h.top] \in AnyHeader /\ h.hdr[h.top].size \in Nat
      /\ h.top = NIL => h.hdr[h.top].size = 0
  BY TopFacts
<1>4. h.brk = h.top + h.hdr[h.top].size BY ONLY <1>1 DEF End
<1>5. h.top # NIL
  <2>1. SUFFICES ASSUME h.top = NIL PROVE FALSE OBVIOUS
  <2>2. h.brk = 0 + 0 BY ONLY <1>3, <1>4, <2>1 DEF NIL
  <2> QED BY ONLY <1>2, <2>2
<1>6. h.hdr[h.top].size >= MINSIZE /\ MINSIZE \in Nat
  <2>1. Shape(h.hdr, h.top, Space(h.brk, h.mapped), h.contiguous, h.sbrk_base) BY LaidOut
  <2> QED BY ONLY <2>1, <1>5, Units DEF Shape, Typed
<1>7. /\ h1.hdr = h.hdr /\ h1.brk = h.brk /\ h1.top = h.top /\ h1.sbrk_base = h.sbrk_base
      /\ h1.contiguous = h.contiguous /\ h1.mapped = h.mapped /\ h1.top_pad = h.top_pad /\ Rec(h1)
  <2>1. h.sbrk_base # 0 BY ONLY <1>2, <1>5
  <2> QED BY ONLY <1>1, <2>1 DEF Same, Fields, Loose
<1>8. Same(h1, hA, {"brk"}) /\ hA.brk = h.brk + s
  BY ONLY <1>7, <1>d DEF Rec, Same, Fields
<1>9. hA.hdr = h.hdr /\ Rec(hA) BY ONLY <1>7, <1>8 DEF Same, Fields
<1>10. Wrote(hA, h2, h.top, Hd(x, h.hdr[h.top].prev_inuse, h.hdr[h.top].prev_size, FALSE))
  BY ONLY <1>d, <1>3, <1>9, SetHeadSize
<1>11. /\ Same(h1, h2, {"hdr", "brk"}) /\ Same(h, h2, Loose \cup {"hdr", "brk", "system_mem"})
       /\ h2.brk = h.brk + s /\ h2.system_mem = h.system_mem + s /\ h2.top = h.top
       /\ h2.mapped = h.mapped /\ h2.contiguous = h.contiguous /\ h2.sbrk_base = h.sbrk_base
       /\ h2.top_pad = h.top_pad
  BY ONLY <1>1, <1>7, <1>8, <1>10 DEF Wrote, Same, Fields, Loose
<1>12. /\ x \in Nat /\ x >= MINSIZE /\ h2.brk = h.top + x /\ h2.brk <= HeapEnd
  <2> DEFINE y == h.hdr[h.top].size
  <2>1. y \in Nat /\ y >= MINSIZE /\ x = y + s /\ h.brk = h.top + y BY <1>3, <1>4, <1>6
  <2> HIDE DEF y
  <2> QED BY ONLY <2>1, <1>1, <1>2, <1>3, <1>6, <1>11
<1>13. /\ BrkStart <= h.top
       /\ \A q \in DOMAIN h.hdr : h.top < q => h.top + x <= Start(h.hdr, q)
       /\ \A z \in Nat : h.top <= z /\ z < h.top + x => z \in W2
       /\ \A q \in DOMAIN h.hdr : q # h.top =>
            \A z \in Nat : Start(h.hdr, q) <= z /\ z < End(h.hdr, q) => z \in W2
  <2>1. End(h.hdr, h.top) = h.brk BY ONLY <1>1
  <2> QED BY ONLY <2>1, <1>5, <1>12, HeapOK(h, u, {}, t), <1>d, TopAtBrk
<1>14. /\ h2.hdr[h.top] = Hd(x, h.hdr[h.top].prev_inuse, h.hdr[h.top].prev_size, FALSE)
       /\ DOMAIN h2.hdr = DOMAIN h.hdr /\ \A q \in DOMAIN h.hdr : q # h.top => h2.hdr[q] = h.hdr[q]
  BY ONLY <1>10, <1>9, <1>3 DEF Wrote
<1>w. W2 = Space(h2.brk, h2.mapped) BY ONLY <1>d, <1>11
<1>15. ResizesTop(h.hdr, h.top, x, Space(h2.brk, h2.mapped), h2.hdr)
  BY ONLY <1>5, <1>12, <1>13, <1>14, <1>w DEF ResizesTop
<1>16. Bounds(h2)
  <2>1. End(h2.hdr, h2.top) = h.top + x BY ONLY <1>11, <1>14 DEF End, Hd
  <2>2. h2.brk \in BrkStart .. HeapEnd
    <3>1. h2.brk \in Nat BY ONLY <1>11, <1>2, <1>1
    <3> QED BY ONLY <3>1, <1>2, <1>11, <1>12, <1>1, System
  <2>3. h2.system_mem \in Int BY ONLY <1>1, <1>2, <1>11
  <2>4. h2.contiguous /\ h2.top # NIL => h2.sbrk_base + h2.system_mem = End(h2.hdr, h2.top)
    BY ONLY <2>1, <1>1, <1>2, <1>11, <1>12
  <2>5. h2.contiguous => End(h2.hdr, h2.top) <= h2.brk
    BY ONLY <2>1, <1>12, <1>2, <1>1, <1>11
  <2> QED BY ONLY <2>1, <2>2, <2>3, <2>4, <2>5, <1>2, <1>5, <1>11 DEF Bounds
<1>17. HeapOK(h2, u, {}, t) BY ONLY HeapOK(h, u, {}, t), <1>11, <1>15, <1>16, TopResized
<1> QED BY ONLY <1>11, <1>17

\* New space at the break: [a, b) with what may be left out before a.
LEMMA AtBreak ==
  ASSUME NEW h, NEW u, NEW t, HeapOK(h, u, {}, t),
         NEW a \in Nat, NEW b \in Nat, h.brk <= a, a < b, b <= HeapEnd
  PROVE  /\ Vacant(h.hdr, a, b)
         /\ Space(h.brk, h.mapped) \subseteq Space(b, h.mapped)
         /\ \A z \in Nat : a <= z /\ z < b => z \in Space(b, h.mapped)
         /\ b \in BrkStart .. HeapEnd /\ h.brk \in Nat /\ 0 < h.brk
<1>1. h.brk \in BrkStart .. HeapEnd BY DEF HeapOK, Bounds
<1>2. h.brk \in Nat /\ BrkStart <= h.brk /\ 0 < h.brk BY ONLY <1>1, System
<1>3. \A z \in Nat : h.brk <= z /\ z < b => z \notin Space(h.brk, h.mapped) /\ z \in Space(b, h.mapped)
  BY ONLY <1>2, b \in Nat, b <= HeapEnd, BrkSpace
<1>4. Vacant(h.hdr, a, b)
  <2>1. Shape(h.hdr, h.top, Space(h.brk, h.mapped), h.contiguous, h.sbrk_base) BY LaidOut
  <2>2. \A z \in Nat : a <= z /\ z < b => z \notin Space(h.brk, h.mapped)
    BY ONLY <1>2, <1>3, h.brk <= a, a \in Nat
  <2> QED BY ONLY <2>1, <2>2, a \in Nat, b \in Nat, a < b, VacantOutside
<1>5. Space(h.brk, h.mapped) \subseteq Space(b, h.mapped)
  <2>1. h.brk <= b BY ONLY <1>2, h.brk <= a, a < b, a \in Nat, b \in Nat
  <2> QED BY ONLY <2>1, <1>2, b \in Nat, MoreSpace
<1>6. \A z \in Nat : a <= z /\ z < b => z \in Space(b, h.mapped)
  BY ONLY <1>2, <1>3, h.brk <= a, a \in Nat
<1>7. b \in BrkStart .. HeapEnd
  BY ONLY <1>2, h.brk <= a, a < b, a \in Nat, b \in Nat, b <= HeapEnd, System
<1> QED BY ONLY <1>2, <1>4, <1>5, <1>6, <1>7

\* The sizes of a new top at the break and what the second sbrk adds.
Corrects(h, s, skip, corr, a, b) ==
  /\ s \in Nat /\ s >= Pagesize /\ skip \in Nat /\ skip <= MALLOC_ALIGNMENT /\ corr \in Nat
  /\ a = h.brk + skip /\ b = h.brk + s + corr /\ b <= HeapEnd /\ aligned_OK(a)

\* sbrk starts the heap, or someone else has moved the break.
LEMMA Restarted ==
  ASSUME NEW h, NEW u, NEW t, HeapOK(h, u, {}, t), h.contiguous,
         NEW s, NEW skip, NEW corr, NEW a, NEW b, Corrects(h, s, skip, corr, a, b),
         NEW hA, GotBrk(h, hA, h.brk, s),
         NEW e, e = End(h.hdr, h.top),
         NEW h1, Same(hA, h1, {"system_mem", "brk"}), h1.brk = b,
         h1.system_mem = hA.system_mem + corr + (IF h.hdr[h.top].size # 0 THEN h.brk - e ELSE 0)
  PROVE  MovesTop(h, h1, a, b)
<1>1. /\ s \in Nat /\ s >= Pagesize /\ skip \in Nat /\ skip <= MALLOC_ALIGNMENT /\ corr \in Nat
      /\ a = h.brk + skip /\ b = h.brk + s + corr /\ b <= HeapEnd /\ aligned_OK(a)
  BY DEF Corrects
<1>2. /\ Same(h, hA, Loose \cup {"sbrk_base", "system_mem"})
      /\ hA.sbrk_base = (IF h.sbrk_base = 0 THEN h.brk ELSE h.sbrk_base)
      /\ hA.system_mem = h.system_mem + s
  BY DEF GotBrk
<1>3. /\ h.brk \in Nat /\ h.brk > 0 /\ h.system_mem \in Int
      /\ h.sbrk_base \in Nat /\ (h.sbrk_base = 0 <=> h.top = NIL)
      /\ e <= h.brk
      /\ h.top = NIL => h.system_mem = 0
      /\ h.top # NIL => h.sbrk_base + h.system_mem = e
  <2>1. Bounds(h) /\ h.contiguous BY DEF HeapOK
  <2>2. h.brk \in BrkStart .. HeapEnd BY ONLY <2>1 DEF Bounds
  <2>3. h.brk \in Nat /\ h.brk > 0 BY ONLY <2>2, System
  <2> QED BY ONLY <2>1, <2>3, e = End(h.hdr, h.top) DEF Bounds
<1>4. h.top \in Nat /\ h.hdr[h.top].size \in Nat BY TopFacts
<1>5. h.top = NIL <=> h.hdr[h.top].size = 0
  <2>1. Shape(h.hdr, h.top, Space(h.brk, h.mapped), h.contiguous, h.sbrk_base) BY LaidOut
  <2>2. MINSIZE \in Nat /\ MINSIZE > 0 BY Units
  <2> QED BY ONLY <2>1, <2>2, <1>4 DEF Shape, Typed
<1>6. e = h.top + h.hdr[h.top].size BY ONLY e = End(h.hdr, h.top) DEF End
<1>7. /\ Same(h, h1, Loose \cup SystemFields) /\ h1.sbrk_base = hA.sbrk_base
      /\ h1.contiguous = TRUE /\ h1.mapped = h.mapped
  <2>1. h.contiguous = TRUE
    <3>1. h.contiguous \in BOOLEAN BY DEF HeapOK, Bounds
    <3> QED BY <3>1
  <2> QED BY ONLY <1>2, <2>1, Same(hA, h1, {"system_mem", "brk"}) DEF Same, Fields, Loose, SystemFields
<1>8. /\ a \in Nat /\ b \in Nat /\ h.brk <= a /\ a < b /\ a + MINSIZE <= b /\ 0 < a /\ h.top < a
      /\ MINSIZE \in Nat
  <2>1. MINSIZE \in Nat /\ MINSIZE > 0 /\ MALLOC_ALIGNMENT \in Nat /\ MINSIZE >= MALLOC_ALIGNMENT
        /\ Pagesize \in Nat /\ Pagesize >= 2 * MINSIZE
    <3>1. MALLOC_ALIGNMENT \in Nat BY ONLY Units
    <3> QED BY ONLY <3>1, Units, System
  <2>2. h.top < a
    <3>1. CASE h.top = NIL BY ONLY <3>1, <1>1, <1>3 DEF NIL
    <3>2. CASE h.top # NIL
      <4>1. h.hdr[h.top].size > 0 BY ONLY <3>2, <1>4, <1>5
      <4> QED BY ONLY <4>1, <1>1, <1>3, <1>4, <1>6
    <3> QED BY ONLY <3>1, <3>2
  <2> QED BY ONLY <1>1, <1>3, <2>1, <2>2
<1>9. /\ Vacant(h.hdr, a, b)
      /\ Space(h.brk, h.mapped) \subseteq Space(b, h.mapped)
      /\ \A z \in Nat : a <= z /\ z < b => z \in Space(b, h.mapped)
      /\ b \in BrkStart .. HeapEnd
  BY ONLY HeapOK(h, u, {}, t), <1>1, <1>8, AtBreak
<1>10. h1.system_mem \in Int /\ h1.sbrk_base \in Nat /\ h1.sbrk_base # 0 /\ h1.sbrk_base + h1.system_mem = b
       /\ (h.top # NIL => h1.sbrk_base = h.sbrk_base) /\ (h.top = NIL => h1.sbrk_base <= a)
  <2> DEFINE m == h1.system_mem
             g == hA.system_mem
  <2>1. m = g + corr + (IF h.hdr[h.top].size # 0 THEN h.brk - e ELSE 0) /\ g = h.system_mem + s
    BY ONLY <1>2, h1.system_mem = hA.system_mem + corr + (IF h.hdr[h.top].size # 0 THEN h.brk - e ELSE 0)
  <2>2. e \in Nat BY ONLY <1>4, <1>6
  <2> HIDE DEF m, g
  <2>3. CASE h.top = NIL
    <3>1. m = h.system_mem + s + corr + 0 /\ h.system_mem = 0 /\ h1.sbrk_base = h.brk
      BY ONLY <2>1, <2>3, <1>2, <1>3, <1>5, <1>7
    <3> QED BY ONLY <3>1, <2>3, <1>1, <1>3, <1>8 DEF m
  <2>4. CASE h.top # NIL
    <3>1. m = h.system_mem + s + corr + (h.brk - e) /\ h1.sbrk_base = h.sbrk_base
      BY ONLY <2>1, <2>4, <1>2, <1>3, <1>5, <1>7
    <3>2. h.sbrk_base + h.system_mem = e /\ h.sbrk_base # 0 BY ONLY <2>4, <1>3
    <3>3. h.sbrk_base + m = b /\ m \in Int BY ONLY <3>1, <3>2, <2>2, <1>1, <1>3
    <3> QED BY ONLY <3>1, <3>2, <3>3, <2>4, <1>3 DEF m
  <2> QED BY ONLY <2>3, <2>4
<1>11. h1.contiguous => /\ h.contiguous /\ h.top < a
                        /\ b <= h1.brk /\ h1.sbrk_base + h1.system_mem = b
  BY ONLY <1>8, <1>10, h1.brk = b, h.contiguous
<1>12. h1.contiguous \in BOOLEAN /\ h1.brk \in BrkStart .. HeapEnd BY ONLY <1>7, <1>9, h1.brk = b
<1>13. /\ Space(h.brk, h.mapped) \subseteq Space(h1.brk, h1.mapped)
       /\ \A z \in Nat : a <= z /\ z < b => z \in Space(h1.brk, h1.mapped)
  BY ONLY <1>7, <1>9, h1.brk = b
<1> QED BY ONLY <1>1, <1>7, <1>8, <1>9, <1>10, <1>11, <1>12, <1>13 DEF MovesTop

\* sbrk gives a piece of its own to a heap that is not contiguous.
LEMMA MovedToBreak ==
  ASSUME NEW h, NEW u, NEW t, HeapOK(h, u, {}, t), ~h.contiguous,
         NEW s \in Nat, s >= Pagesize, aligned_OK(h.brk), NEW b, b = h.brk + s, b <= HeapEnd,
         NEW hA, GotBrk(h, hA, h.brk, s),
         NEW h1, Same(hA, h1, {"brk"}), h1.brk = b
  PROVE  MovesTop(h, h1, h.brk, b)
<1>1. /\ Same(h, hA, Loose \cup {"sbrk_base", "system_mem"})
      /\ hA.sbrk_base = (IF h.sbrk_base = 0 THEN h.brk ELSE h.sbrk_base)
      /\ hA.system_mem = h.system_mem + s
  BY DEF GotBrk
<1>2. /\ h.brk \in Nat /\ h.brk > 0 /\ h.system_mem \in Int
      /\ h.sbrk_base \in Nat /\ h.sbrk_base # 0 /\ h.top # NIL
  <2>1. Bounds(h) /\ ~h.contiguous BY DEF HeapOK
  <2>2. h.brk \in BrkStart .. HeapEnd BY ONLY <2>1 DEF Bounds
  <2>3. h.brk \in Nat /\ h.brk > 0 BY ONLY <2>2, System
  <2> QED BY ONLY <2>1, <2>3 DEF Bounds
<1>3. /\ Same(h, h1, Loose \cup SystemFields) /\ h1.sbrk_base = h.sbrk_base
      /\ h1.contiguous = FALSE /\ h1.mapped = h.mapped /\ h1.system_mem = h.system_mem + s
  <2>1. h.contiguous = FALSE
    <3>1. h.contiguous \in BOOLEAN BY DEF HeapOK, Bounds
    <3> QED BY <3>1
  <2> QED BY ONLY <1>1, <1>2, <2>1, Same(hA, h1, {"brk"}) DEF Same, Fields, Loose, SystemFields
<1>4. MINSIZE \in Nat /\ MINSIZE > 0 /\ Pagesize \in Nat /\ Pagesize >= 2 * MINSIZE
  BY ONLY Units, System
<1>5. b \in Nat /\ h.brk < b /\ h.brk + MINSIZE <= b /\ h.brk <= h.brk
  BY ONLY <1>2, <1>4, s \in Nat, s >= Pagesize, b = h.brk + s
<1>6. /\ Vacant(h.hdr, h.brk, b)
      /\ Space(h.brk, h.mapped) \subseteq Space(b, h.mapped)
      /\ \A z \in Nat : h.brk <= z /\ z < b => z \in Space(b, h.mapped)
      /\ b \in BrkStart .. HeapEnd
  BY ONLY HeapOK(h, u, {}, t), <1>2, <1>5, b <= HeapEnd, AtBreak
<1>7. h1.system_mem \in Int BY ONLY <1>2, <1>3, s \in Nat
<1> QED BY ONLY <1>2, <1>3, <1>5, <1>6, <1>7, aligned_OK(h.brk), h1.brk = b DEF MovesTop

\* A mapping extends the heap where sbrk fails.
LEMMA FallenBack ==
  ASSUME NEW h, NEW u, NEW t, HeapOK(h, u, {}, t),
         NEW s \in Nat, s >= Pagesize, s % Pagesize = 0, NEW a, a \in MmapHoles(h, s), NEW b, b = a + s,
         NEW hA, GotBrk(h, hA, a, s),
         NEW h1, Same(hA, h1, {"contiguous", "mapped"}), h1.contiguous = FALSE,
         h1.mapped = hA.mapped \cup Pages(a, s)
  PROVE  MovesTop(h, h1, a, b)
<1>1. /\ Same(h, hA, Loose \cup {"sbrk_base", "system_mem"})
      /\ hA.sbrk_base = (IF h.sbrk_base = 0 THEN a ELSE h.sbrk_base)
      /\ hA.system_mem = h.system_mem + s
  BY DEF GotBrk
<1>2. h.brk \in BrkStart .. HeapEnd /\ h.system_mem \in Int /\ h.sbrk_base \in Nat
      /\ (h.sbrk_base = 0 <=> h.top = NIL) /\ h.brk \in Nat
  <2>1. Bounds(h) BY DEF HeapOK
  <2>2. h.brk \in BrkStart .. HeapEnd BY ONLY <2>1 DEF Bounds
  <2>3. h.brk \in Nat BY ONLY <2>2, System
  <2> QED BY ONLY <2>1, <2>2, <2>3 DEF Bounds
<1>3. MINSIZE \in Nat /\ MINSIZE > 0 /\ Pagesize \in Nat /\ Pagesize >= 2 * MINSIZE
  BY ONLY Units, System
<1>4. s > 0 /\ s >= MINSIZE BY ONLY <1>3, s \in Nat, s >= Pagesize
<1>5. /\ a \in Nat /\ a > 0 /\ a % Pagesize = 0
      /\ \A z \in Nat : a <= z /\ z < a + s =>
           z \notin Space(h.brk, h.mapped) /\ z \in Space(h.brk, h.mapped \cup Pages(a, s))
  BY ONLY <1>2, <1>4, s \in Nat, s % Pagesize = 0, a \in MmapHoles(h, s), HoleSpace
<1>6. b \in Nat /\ a < b /\ a + MINSIZE <= b BY ONLY <1>4, <1>5, s \in Nat, b = a + s, <1>3
<1>7. aligned_OK(a)
  <2>1. a \in Int BY ONLY <1>5
  <2> QED BY ONLY <2>1, <1>5, PageAligned
<1>8. /\ Same(h, h1, Loose \cup SystemFields) /\ h1.sbrk_base = hA.sbrk_base
      /\ h1.mapped = h.mapped \cup Pages(a, s) /\ h1.system_mem = h.system_mem + s
      /\ h1.brk = h.brk
  BY ONLY <1>1, Same(hA, h1, {"contiguous", "mapped"}), h1.mapped = hA.mapped \cup Pages(a, s)
     DEF Same, Fields, Loose, SystemFields
<1>9. Vacant(h.hdr, a, b)
  <2>1. Shape(h.hdr, h.top, Space(h.brk, h.mapped), h.contiguous, h.sbrk_base) BY LaidOut
  <2>2. \A z \in Nat : a <= z /\ z < b => z \notin Space(h.brk, h.mapped)
    BY ONLY <1>5, b = a + s
  <2> QED BY ONLY <2>1, <2>2, <1>5, <1>6, VacantOutside
<1>10. Space(h.brk, h.mapped) \subseteq Space(h1.brk, h1.mapped)
  <2>1. h.brk <= h.brk /\ h.mapped \subseteq h.mapped \cup Pages(a, s) BY ONLY <1>2
  <2> QED BY ONLY <2>1, <1>2, <1>8, MoreSpace
<1>11. \A z \in Nat : a <= z /\ z < b => z \in Space(h1.brk, h1.mapped)
  BY ONLY <1>5, <1>8, b = a + s
<1>12. /\ h1.sbrk_base \in Nat /\ h1.sbrk_base # 0 /\ h1.system_mem \in Int
       /\ (h.top # NIL => h1.sbrk_base = h.sbrk_base) /\ (h.top = NIL => h1.sbrk_base <= a)
  BY ONLY <1>1, <1>2, <1>5, <1>8, s \in Nat
<1> QED BY ONLY <1>2, <1>5, <1>6, <1>7, <1>8, <1>9, <1>10, <1>11, <1>12, h1.contiguous = FALSE DEF MovesTop

\* The chunks of a fast bin have one size.
LEMMA OneFastSize ==
  ASSUME NEW s \in ChunkSizes, NEW t \in ChunkSizes, fastbin_index(s) = fastbin_index(t)
  PROVE  s = t
<1>1. s \in Nat /\ t \in Nat /\ s % MALLOC_ALIGNMENT = 0 /\ t % MALLOC_ALIGNMENT = 0
  BY DEF ChunkSizes, aligned_OK
<1>2. CASE MALLOC_ALIGNMENT = 16
  <2>1. SIZE_SZ = 8 BY ONLY <1>2, Units, SizesAssumption
  <2>2. s \div 16 - 2 = t \div 16 - 2 BY ONLY <2>1, fastbin_index(s) = fastbin_index(t) DEF fastbin_index
  <2>3. s % 16 = 0 /\ t % 16 = 0 BY ONLY <1>1, <1>2
  <2> QED BY ONLY <1>1, <2>2, <2>3
<1>3. CASE MALLOC_ALIGNMENT = 8
  <2>1. SIZE_SZ = 4 BY ONLY <1>3, Units, SizesAssumption
  <2>2. s \div 8 - 2 = t \div 8 - 2 BY ONLY <2>1, fastbin_index(s) = fastbin_index(t) DEF fastbin_index
  <2>3. s % 8 = 0 /\ t % 8 = 0 BY ONLY <1>1, <1>3
  <2> QED BY ONLY <1>1, <2>2, <2>3
<1> QED BY ONLY <1>2, <1>3, Units

\* A list of chunks in use has chunks of all sizes that chunks can have.
LEMMA ListedSize ==
  ASSUME NEW h, NEW u, NEW F, NEW t, HeapOK(h, u, F, t), NEW p \in Listed(h)
  PROVE  /\ h.hdr[p].size \in ChunkSizes /\ p \in Chunks(h.hdr, h.top) /\ p \in DOMAIN h.hdr
         /\ p \notin DOMAIN u /\ p \in Nat /\ ~h.hdr[p].mmapped
<1>1. Owned(h.hdr, h.top, Listed(h), Members(h.bins) \cup F, u) BY DEF HeapOK
<1>2. p \in Chunks(h.hdr, h.top) /\ p \notin DOMAIN u BY <1>1 DEF Owned
<1>3. h.hdr[p].size \in ChunkSizes /\ p \in Nat /\ p \in DOMAIN h.hdr /\ ~h.hdr[p].mmapped
  BY ONLY <1>2, HeapOK(h, u, F, t), ChunkFacts
<1> QED BY ONLY <1>2, <1>3

\* What an operation on the first s of a list leaves.
TakesFast(h, h2, n, i, c, s, k) ==
  /\ n \in ChunkSizes /\ i = fastbin_index(n) /\ c = csize2tidx(n)
  /\ s = At(h.fast, i) /\ s # << >> /\ k \in Nat /\ k + 1 <= Len(s)
  /\ k + Len(At(h.entries, c)) <= TcacheCount
  /\ h2 = [[h EXCEPT !.entries = Put(@, c, Reverse(SubSeq(s, 2, k + 1)) \o At(@, c))]
             EXCEPT !.fast = Put(@, i, SubSeq(s, k + 2, Len(s)))]

\* The first chunk of a fast bin is taken, the next ones go to the cache.
LEMMA TookFast ==
  ASSUME NEW h, NEW u, NEW F, NEW t, HeapOK(h, u, F, t),
         NEW n, NEW i, NEW c, NEW s, NEW k, NEW h2, TakesFast(h, h2, n, i, c, s, k),
         NEW p, p = Head(s), NEW u2, u2 = Taking(h, u, {p})
  PROVE  /\ HeapOK(h2, u2, F, t) /\ Same(h, h2, {"fast", "entries"})
         /\ p \in Listed(h) /\ h.hdr[p].size = n
<1> DEFINE a == SubSeq(s, 2, k + 1)
           b == Reverse(a)
           r == SubSeq(s, k + 2, Len(s))
<1>1. /\ n \in ChunkSizes /\ i = fastbin_index(n) /\ c = csize2tidx(n)
      /\ s = At(h.fast, i) /\ s # << >> /\ k \in Nat /\ k + 1 <= Len(s)
      /\ k + Len(At(h.entries, c)) <= TcacheCount
  BY DEF TakesFast
<1>2. h2 = [[h EXCEPT !.entries = Put(@, c, b \o At(@, c))] EXCEPT !.fast = Put(@, i, r)]
  BY DEF TakesFast
<1>3. /\ Proper(h.fast) /\ Proper(h.entries)
      /\ Members(h.fast) \cap Members(h.entries) = {}
      /\ Indexed(h.hdr, h.fast, h.entries)
      /\ \A x : x \in Listed(h) <=> x \in Members(h.fast) \/ x \in Members(h.entries)
      /\ Rec(h)
  BY ListFacts
<1>4. i \in DOMAIN h.fast /\ h.fast[i] = s /\ IsList(s) BY ONLY <1>1, <1>3 DEF At, Proper
<1>5. Len(s) \in Nat /\ Len(s) >= 1 /\ p = s[1] /\ p \in Range(s) /\ Range(s) = {s[x] : x \in 1 .. Len(s)}
      /\ \A x, y \in 1 .. Len(s) : s[x] = s[y] => x = y
  <2>1. Len(s) \in Nat /\ Len(s) >= 1 /\ p = s[1] /\ p \in Range(s)
    BY ONLY <1>1, <1>4, p = Head(s), EndsList
  <2> QED BY ONLY <2>1, <1>4, InRange DEF IsList, Injective
<1>6. /\ IsList(a) /\ Range(a) = {s[x] : x \in 2 .. k + 1} /\ Len(a) = k
      /\ IsList(r) /\ Range(r) = {s[x] : x \in k + 2 .. Len(s)}
  <2>1. 2 \in Nat /\ k + 1 \in Nat /\ k + 2 \in Nat /\ 2 >= 1 /\ k + 2 >= 1 /\ Len(s) <= Len(s)
    BY ONLY <1>1, <1>5
  <2> DEFINE v == k + 1
             w == k + 2
             z == Len(s)
  <2>2. a = SubSeq(s, 2, v) /\ r = SubSeq(s, w, z) OBVIOUS
  <2>3. v \in Nat /\ w \in Nat /\ z \in Nat /\ w >= 1 /\ 2 \in Nat /\ 2 >= 1 /\ v <= Len(s) /\ z <= Len(s)
    BY ONLY <2>1, <1>1, <1>5
  <2>4. v = k + 1 /\ w = k + 2 /\ z = Len(s) OBVIOUS
  <2> HIDE DEF v, w, z, a, r
  <2>5. IsList(a) /\ Range(a) = {s[x] : x \in 2 .. v} /\ Len(a) = IF 2 <= v THEN v - 2 + 1 ELSE 0
    BY ONLY <2>2, <2>3, <1>4, PartList
  <2>6. IsList(r) /\ Range(r) = {s[x] : x \in w .. z}
    BY ONLY <2>2, <2>3, <1>4, PartList
  <2>7. v = k + 1 BY ONLY <2>4
  <2>8. w = k + 2 BY ONLY <2>4
  <2>9. z = Len(s) BY ONLY <2>4
  <2>10. Range(a) = {s[x] : x \in 2 .. k + 1}
    <3>1. Range(a) = {s[x] : x \in 2 .. v} BY ONLY <2>5
    <3> QED BY ONLY <3>1, <2>7, Zenon
  <2>11. Range(r) = {s[x] : x \in k + 2 .. Len(s)}
    <3>1. Range(r) = {s[x] : x \in w .. z} BY ONLY <2>6
    <3> QED BY ONLY <3>1, <2>8, <2>9, Zenon
  <2>12. Len(a) = k BY ONLY <2>5, <2>7, <1>1
  <2> QED BY ONLY <2>5, <2>6, <2>10, <2>11, <2>12
<1> HIDE DEF a, r
<1>8. IsList(b) /\ Range(b) = Range(a) /\ Len(b) = k BY ONLY <1>6, b = Reverse(a), ReverseList
<1> HIDE DEF b
<1>9. /\ Range(b) \subseteq Range(s) /\ Range(r) \subseteq Range(s) /\ Range(b) \cap Range(r) = {}
      /\ p \notin Range(b) /\ p \notin Range(r)
      /\ \A x \in Range(s) : x = p \/ x \in Range(b) \/ x \in Range(r)
  BY ONLY <1>1, <1>5, <1>6, <1>8
<1>10. Range(s) \subseteq Members(h.fast) BY ONLY <1>4 DEF Members
<1>11. \A q \in Range(s) : h.hdr[q].size = n
  <2> SUFFICES ASSUME NEW q \in Range(s) PROVE h.hdr[q].size = n OBVIOUS
  <2>1. fastbin_index(h.hdr[q].size) = fastbin_index(n)
    BY ONLY q \in Range(s), <1>1, <1>3, <1>4 DEF Indexed
  <2>2. q \in Listed(h) BY ONLY q \in Range(s), <1>3, <1>10
  <2>3. h.hdr[q].size \in ChunkSizes BY ONLY <2>2, HeapOK(h, u, F, t), ListedSize
  <2> QED BY ONLY <2>1, <2>3, <1>1, OneFastSize
<1>12. /\ Same(h, h2, {"fast", "entries"}) /\ h2.entries = Put(h.entries, c, b \o At(h.entries, c))
       /\ h2.fast = Put(h.fast, i, r)
  BY ONLY <1>2, <1>3 DEF Rec, Same, Fields
<1>13. Gained(h.entries, h2.entries, c, b)
  <2>1. \A x \in Range(b) : x \notin Members(h.entries) BY ONLY <1>3, <1>9, <1>10
  <2> QED BY ONLY <2>1, <1>3, <1>8, <1>12, Gains
<1>14. Lost(h.fast, h2.fast, i, r)
  <2>1. Range(r) \subseteq Range(At(h.fast, i)) BY ONLY <1>1, <1>9
  <2> QED BY ONLY <2>1, <1>3, <1>6, <1>12, Loses
<1>15. Indexed(h.hdr, h.fast, h2.entries)
  <2>1. \A q \in Range(b) : csize2tidx(h.hdr[q].size) = c BY ONLY <1>1, <1>9, <1>11
  <2>2. Len(b) + Len(At(h.entries, c)) <= TcacheCount BY ONLY <1>1, <1>8
  <2> QED BY ONLY <2>1, <2>2, <1>3, <1>13, EntriesGained
<1>16. Indexed(h.hdr, h2.fast, h2.entries)
  <2>1. Range(r) \subseteq Range(At(h.fast, i)) BY ONLY <1>1, <1>9
  <2> QED BY ONLY <2>1, <1>3, <1>14, <1>15, FastLost
<1>17. h2.hdr = h.hdr BY ONLY <1>12 DEF Same, Fields
<1>18. \A x : x \in Members(h2.fast) <=> x \in Members(h.fast) /\ x # p /\ x \notin Range(b)
  <2>1. \A x : x \in Members(h2.fast) <=> x \in Members(h.fast) /\ (x \in Range(s) => x \in Range(r))
    BY ONLY <1>14, <1>1 DEF Lost
  <2>2. \A x \in Range(s) : x \in Range(r) <=> x # p /\ x \notin Range(b) BY ONLY <1>9
  <2>3. p \in Range(s) BY ONLY <1>5
  <2> QED BY ONLY <2>1, <2>2, <2>3, <1>9
<1>19. \A x : x \in Members(h2.entries) <=> x \in Members(h.entries) \/ x \in Range(b)
  BY ONLY <1>13 DEF Gained
<1>20. /\ Proper(h2.fast) /\ Proper(h2.entries) /\ Members(h2.fast) \cap Members(h2.entries) = {}
       /\ \A x : x \in Listed(h2) <=> x \in Listed(h) /\ x \notin {p}
  <2>1. Proper(h2.fast) /\ Proper(h2.entries) BY ONLY <1>13, <1>14 DEF Gained, Lost
  <2>2. p \in Members(h.fast) /\ p \notin Members(h.entries) BY ONLY <1>3, <1>5, <1>10
  <2>3. \A x \in Range(b) : x \in Members(h.fast) /\ x # p BY ONLY <1>9, <1>10
  <2>4. \A x : x \in Listed(h2) <=> x \in Members(h2.fast) \/ x \in Members(h2.entries) BY DEF Listed
  <2>5. Members(h2.fast) \cap Members(h2.entries) = {} BY ONLY <1>3, <1>18, <1>19
  <2> QED BY ONLY <2>1, <2>2, <2>3, <2>4, <2>5, <1>3, <1>18, <1>19
<1>21. p \in Listed(h) /\ {p} \subseteq Listed(h) BY ONLY <1>3, <1>5, <1>10
<1>22. Same(h, h2, Loose \cup {"fast", "entries"}) BY ONLY <1>12 DEF Same
<1>23. HeapOK(h2, u2, F, t)
  BY ONLY <1>16, <1>17, <1>20, <1>21, <1>22, HeapOK(h, u, F, t), u2 = Taking(h, u, {p}), Unshelved
<1> QED BY ONLY <1>5, <1>11, <1>12, <1>21, <1>23

Untags(hdr, top, B, T, hdr2) ==
  /\ T \subseteq B /\ DOMAIN hdr2 = DOMAIN hdr
  /\ \A x \in T : \A e \in DOMAIN hdr : e = End(hdr, x) => hdr2[e] = Hd(hdr[e].size, TRUE, 0, FALSE)
  /\ \A q \in DOMAIN hdr : (\A x \in T : q # End(hdr, x)) => hdr2[q] = hdr[q]

\* Several free chunks T are taken: the header after each of them shows it.
LEMMA Untag ==
  ASSUME NEW hdr, NEW top, NEW W, NEW c, NEW lo, Shape(hdr, top, W, c, lo),
         NEW B, Tagged(hdr, top, B), NEW T, NEW hdr2, Untags(hdr, top, B, T, hdr2)
  PROVE  /\ Shape(hdr2, top, W, c, lo) /\ Tagged(hdr2, top, B \ T)
         /\ Chunks(hdr2, top) = Chunks(hdr, top)
<1> DEFINE Ends(q) == \E x \in T : q = End(hdr, x)
<1>1. /\ T \subseteq B /\ DOMAIN hdr2 = DOMAIN hdr
      /\ \A x \in T : \A e \in DOMAIN hdr : e = End(hdr, x) => hdr2[e] = Hd(hdr[e].size, TRUE, 0, FALSE)
      /\ \A q \in DOMAIN hdr : ~Ends(q) => hdr2[q] = hdr[q]
  BY DEF Untags
<1>2. /\ hdr[top].prev_inuse
      /\ B \subseteq Chunks(hdr, top)
      /\ \A p \in Chunks(hdr, top) : hdr[End(hdr, p)].prev_inuse <=> p \notin B
      /\ \A p \in B : hdr[End(hdr, p)].prev_size = hdr[p].size /\ hdr[p].prev_inuse
      /\ \A q \in DOMAIN hdr : ~hdr[q].mmapped /\ ~hdr[q].prev_inuse =>
           q - hdr[q].prev_size \in B /\ End(hdr, q - hdr[q].prev_size) = q
  BY DEF Tagged
<1>3. \A q \in DOMAIN hdr : hdr[q] \in AnyHeader /\ hdr[q].prev_size <= q /\ q \in Nat
  BY DEF Shape, Typed
<1>4. ASSUME NEW q \in DOMAIN hdr, Ends(q)
      PROVE  hdr2[q] = Hd(hdr[q].size, TRUE, 0, FALSE) /\ ~hdr[q].mmapped
  <2>1. PICK x \in T : q = End(hdr, x) BY ONLY <1>4
  <2>2. x \in Chunks(hdr, top) BY ONLY <2>1, <1>1, <1>2
  <2>3. ~hdr[q].mmapped BY ONLY <2>1, <2>2, Shape(hdr, top, W, c, lo), Follower
  <2> QED BY ONLY <2>1, <2>3, <1>1, <1>4
<1> HIDE DEF Ends
<1>5. ASSUME NEW q \in DOMAIN hdr
      PROVE  /\ hdr2[q] \in AnyHeader
             /\ hdr2[q].size = hdr[q].size /\ hdr2[q].mmapped = hdr[q].mmapped
             /\ hdr[q].mmapped => hdr2[q].prev_size = hdr[q].prev_size
             /\ hdr2[q].prev_size <= q
             /\ hdr[q].prev_inuse => hdr2[q].prev_inuse
  <2>1. CASE ~Ends(q)
    <3>1. hdr2[q] = hdr[q] BY ONLY <2>1, <1>1, <1>5
    <3> QED BY ONLY <3>1, <1>3, <1>5
  <2>2. CASE Ends(q)
    <3>1. hdr2[q] = Hd(hdr[q].size, TRUE, 0, FALSE) /\ ~hdr[q].mmapped BY ONLY <2>2, <1>4, <1>5
    <3>2. hdr[q].size \in Nat /\ hdr[q].mmapped \in BOOLEAN BY ONLY <1>3, <1>5, HeaderTypes
    <3>3. Hd(hdr[q].size, TRUE, 0, FALSE) \in AnyHeader BY ONLY <3>2, HdFields
    <3>4. q \in Nat BY ONLY <1>3, <1>5
    <3>5. hdr2[q].size = hdr[q].size /\ hdr2[q].mmapped = FALSE /\ hdr2[q].prev_size = 0 /\ hdr2[q].prev_inuse = TRUE
      BY ONLY <3>1 DEF Hd
    <3>6. hdr[q].mmapped = FALSE BY ONLY <3>1, <3>2
    <3>7. hdr2[q].prev_size <= q BY ONLY <3>4, <3>5
    <3>8. hdr2[q] \in AnyHeader BY ONLY <3>1, <3>3
    <3>9. hdr2[q].mmapped = hdr[q].mmapped /\ ~hdr[q].mmapped BY ONLY <3>5, <3>6
    <3>10. hdr[q].prev_inuse => hdr2[q].prev_inuse BY ONLY <3>5
    <3> QED BY ONLY <3>5, <3>7, <3>8, <3>9, <3>10
  <2> QED BY ONLY <2>1, <2>2
<1>6. /\ Shape(hdr2, top, W, c, lo)
      /\ Chunks(hdr2, top) = Chunks(hdr, top)
      /\ \A q \in DOMAIN hdr : End(hdr2, q) = End(hdr, q) /\ Start(hdr2, q) = Start(hdr, q)
  BY ONLY Shape(hdr, top, W, c, lo), <1>1, <1>5, SameShape
<1>7. ASSUME NEW p \in Chunks(hdr, top)
      PROVE  /\ End(hdr, p) \in DOMAIN hdr /\ p \in DOMAIN hdr
             /\ hdr2[End(hdr, p)].prev_inuse <=> p \notin B \ T
             /\ p \in B \ T => hdr2[End(hdr, p)].prev_size = hdr[p].size
  <2> DEFINE e == End(hdr, p)
  <2>1. e \in DOMAIN hdr /\ p \in DOMAIN hdr /\ (\A q \in DOMAIN hdr : End(hdr, q) = e /\ hdr[q].size > 0 => q = p)
    BY ONLY <1>7, Shape(hdr, top, W, c, lo), Follower
  <2>2. CASE p \in T
    <3>1. hdr2[e] = Hd(hdr[e].size, TRUE, 0, FALSE) BY ONLY <2>1, <2>2, <1>1
    <3> QED BY ONLY <2>1, <2>2, <3>1 DEF Hd
  <2>3. CASE p \notin T
    <3>1. ~Ends(e)
      <4> SUFFICES ASSUME NEW x \in T, e = End(hdr, x) PROVE FALSE BY DEF Ends
      <4>1. x \in Chunks(hdr, top) BY ONLY <1>1, <1>2, x \in T
      <4>2. x \in DOMAIN hdr /\ hdr[x].size \in Nat /\ x < End(hdr, x) /\ End(hdr, x) = x + hdr[x].size /\ x \in Nat
        BY ONLY <4>1, Shape(hdr, top, W, c, lo), Follower
      <4>3. hdr[x].size > 0 BY ONLY <4>2
      <4> QED BY ONLY <2>1, <2>3, <4>2, <4>3, x \in T, e = End(hdr, x)
    <3>2. hdr2[e] = hdr[e] BY ONLY <2>1, <3>1, <1>1
    <3>3. (hdr[e].prev_inuse <=> p \notin B) /\ (p \in B => hdr[e].prev_size = hdr[p].size)
      BY ONLY <1>2, <1>7
    <3> QED BY ONLY <2>1, <2>3, <3>2, <3>3
  <2> QED BY ONLY <2>2, <2>3
<1>8. ASSUME NEW q \in DOMAIN hdr2, ~hdr2[q].mmapped, ~hdr2[q].prev_inuse
      PROVE  q - hdr2[q].prev_size \in B \ T /\ End(hdr2, q - hdr2[q].prev_size) = q
  <2>1. ~Ends(q)
    <3> SUFFICES ASSUME Ends(q) PROVE FALSE OBVIOUS
    <3>1. hdr2[q] = Hd(hdr[q].size, TRUE, 0, FALSE) BY ONLY <1>1, <1>4, <1>8, Ends(q)
    <3> QED BY ONLY <3>1, <1>8 DEF Hd
  <2>2. hdr2[q] = hdr[q] /\ q \in DOMAIN hdr BY ONLY <1>1, <1>8, <2>1
  <2> DEFINE x == q - hdr[q].prev_size
  <2>3. x \in B /\ End(hdr, x) = q BY ONLY <1>2, <1>8, <2>2
  <2>4. x \notin T BY ONLY <2>1, <2>3 DEF Ends
  <2>5. x \in DOMAIN hdr BY ONLY <1>2, <1>7, <2>3
  <2>6. End(hdr2, x) = q BY ONLY <1>6, <2>3, <2>5
  <2> QED BY ONLY <2>2, <2>3, <2>4, <2>6
<1>9. Tagged(hdr2, top, B \ T)
  <2>1. hdr2[top].prev_inuse
    <3>1. top \in DOMAIN hdr BY DEF Shape, Typed
    <3> QED BY ONLY <3>1, <1>2, <1>5
  <2>2. B \ T \subseteq Chunks(hdr2, top) BY ONLY <1>2, <1>6
  <2>3. \A p \in Chunks(hdr2, top) : hdr2[End(hdr2, p)].prev_inuse <=> p \notin B \ T
    BY ONLY <1>6, <1>7
  <2>4. ASSUME NEW p \in B \ T PROVE hdr2[End(hdr2, p)].prev_size = hdr2[p].size /\ hdr2[p].prev_inuse
    <3>1. p \in Chunks(hdr, top) /\ p \in DOMAIN hdr BY ONLY <1>2, <1>7, <2>4
    <3>2. End(hdr2, p) = End(hdr, p) /\ hdr2[p].size = hdr[p].size /\ hdr2[p].prev_inuse
      BY ONLY <3>1, <1>2, <1>5, <1>6, <2>4
    <3> QED BY ONLY <3>1, <3>2, <1>7, <2>4
  <2> QED BY ONLY <2>1, <2>2, <2>3, <2>4, <1>8 DEF Tagged
<1> QED BY ONLY <1>6, <1>9

\* The chunks of a small bin have one size.
LEMMA OneSmallSize ==
  ASSUME NEW n \in ChunkSizes, in_smallbin_range(n), NEW s \in ChunkSizes, bin_index(s) = bin_index(n)
  PROVE  s = n
<1>1. CASE in_smallbin_range(s) BY <1>1, SmallBinFits
<1>2. CASE ~in_smallbin_range(s)
  <2>1. bin_index(n) = smallbin_index(n) /\ smallbin_index(n) \in 2 .. 63 BY SmallIndex DEF bin_index
  <2>2. bin_index(s) = largebin_index(s) BY <1>2 DEF bin_index
  <2>3. largebin_index(s) >= 64
    <3>1. s \in Nat /\ s <= s BY DEF ChunkSizes
    <3>2. largebin_index(s) \in 64 .. 126 BY ONLY <1>2, <3>1, LargeIndex
    <3> QED BY ONLY <3>2
  <2> QED BY ONLY <2>1, <2>2, <2>3, bin_index(s) = bin_index(n)
<1> QED BY <1>1, <1>2

\* Chunks T leave a small bin, of which r is left.
TakesBin(h, h2, n, i, r, T) ==
  /\ i \in DOMAIN h.bins /\ i # UNSORTED /\ i < NSMALLBINS
  /\ T \subseteq Range(h.bins[i])
  /\ \A x \in T : h.hdr[x].size = n
  /\ IsList(r)
  /\ \A x : x \in Range(r) <=> x \in Range(h.bins[i]) /\ x \notin T
  /\ Same(h, h2, {"hdr", "bins"}) /\ h2.bins = Put(h.bins, i, r)
  /\ DOMAIN h2.hdr = DOMAIN h.hdr
  /\ \A q \in DOMAIN h.hdr : h2.hdr[q] = IF q - n \in T THEN Inuse(h.hdr[q]) ELSE h.hdr[q]

\* A bin of which one chunk is handed out and others go to the cache.
LEMMA TookBin ==
  ASSUME NEW h, NEW u, NEW t, HeapOK(h, u, {}, t), NEW h2, NEW n, NEW i, NEW r, NEW T,
         TakesBin(h, h2, n, i, r, T), NEW u2, u2 = Taking(h, u, T)
  PROVE  HeapOK(h2, u2, {}, t)
<1> DEFINE B == Members(h.bins)
<1>1. /\ i \in DOMAIN h.bins /\ i # UNSORTED /\ i < NSMALLBINS
      /\ T \subseteq Range(h.bins[i])
      /\ IsList(r)
      /\ Same(h, h2, {"hdr", "bins"}) /\ h2.bins = Put(h.bins, i, r)
  BY DEF TakesBin
<1>1a. \A x \in T : h.hdr[x].size = n BY DEF TakesBin
<1>1b. \A x : x \in Range(r) <=> x \in Range(h.bins[i]) /\ x \notin T BY DEF TakesBin
<1>1c. /\ DOMAIN h2.hdr = DOMAIN h.hdr
       /\ \A q \in DOMAIN h.hdr : h2.hdr[q] = IF q - n \in T THEN Inuse(h.hdr[q]) ELSE h.hdr[q]
  BY DEF TakesBin
<1>1d. i \in 1 .. NBINS - 2 BY ONLY <1>1, HeapOK(h, u, {}, t), BinNumbers
<1>2. /\ Shape(h.hdr, h.top, Space(h.brk, h.mapped), h.contiguous, h.sbrk_base)
      /\ Tagged(h.hdr, h.top, B) /\ Rec(h)
  BY LaidOut
<1>3. T \subseteq B BY ONLY <1>1 DEF Members
<1>4. B \subseteq Chunks(h.hdr, h.top) BY ONLY <1>2 DEF Tagged
<1>5. \A x \in T : x \notin Listed(h) /\ x \notin DOMAIN u
  <2>1. Owned(h.hdr, h.top, Listed(h), B \cup {}, u) BY DEF HeapOK
  <2> HIDE DEF B
  <2> QED BY ONLY <2>1, <1>3 DEF Owned
<1> HIDE DEF B
<1>6. ASSUME NEW x \in T
      PROVE  /\ x \in DOMAIN h.hdr /\ x \in Nat /\ ~h.hdr[x].mmapped /\ h.hdr[x] \in AnyHeader
             /\ x \in Chunks(h.hdr, h.top) /\ End(h.hdr, x) = x + n /\ n \in Nat /\ n > 0
  <2>1. x \in Chunks(h.hdr, h.top) BY ONLY <1>3, <1>4, <1>6
  <2>2. /\ x \in DOMAIN h.hdr /\ x \in Nat /\ ~h.hdr[x].mmapped /\ h.hdr[x] \in AnyHeader
        /\ h.hdr[x].size \in Nat /\ h.hdr[x].size >= MINSIZE
    BY ONLY <2>1, HeapOK(h, u, {}, t), ChunkFacts
  <2>3. MINSIZE \in Nat /\ MINSIZE > 0 BY Units
  <2>4. h.hdr[x].size = n BY ONLY <1>1a, <1>6
  <2> QED BY ONLY <2>1, <2>2, <2>3, <2>4 DEF End
<1>7. DOMAIN h2.hdr = DOMAIN h.hdr BY ONLY <1>1c
<1>8. ASSUME NEW q \in DOMAIN h.hdr, NEW x \in T, q = End(h.hdr, x)
      PROVE  /\ h2.hdr[q] = Hd(h.hdr[q].size, TRUE, 0, FALSE)
             /\ Face(h2.hdr[q]) = Face(h.hdr[q])
  <2>1. q - n = x BY ONLY <1>6, <1>8
  <2>2. ~h.hdr[q].mmapped BY ONLY <1>2, <1>6, <1>8, Follower
  <2>3. h.hdr[q] \in AnyHeader /\ h.hdr[q].mmapped \in BOOLEAN BY HeaderFacts
  <2>4. h2.hdr[q] = Inuse(h.hdr[q]) BY ONLY <1>1c, <1>8, <2>1
  <2>5. h2.hdr[q] = Hd(h.hdr[q].size, TRUE, 0, FALSE) BY ONLY <2>2, <2>3, <2>4, NewInuse
  <2> QED BY ONLY <2>2, <2>3, <2>5, KeepsFace
<1>9. ASSUME NEW q \in DOMAIN h.hdr, \A x \in T : q # End(h.hdr, x)
      PROVE  h2.hdr[q] = h.hdr[q]
  <2>1. q - n \notin T
    <3> SUFFICES ASSUME q - n \in T PROVE FALSE OBVIOUS
    <3> DEFINE x == q - n
    <3>1. x \in T /\ End(h.hdr, x) = x + n /\ n \in Nat /\ x \in Nat BY <1>6
    <3>2. q \in Nat BY HeaderFacts
    <3>3. x + n = q BY ONLY <3>1, <3>2
    <3> QED BY ONLY <3>1, <3>3, <1>9
  <2> QED BY ONLY <2>1, <1>1c, <1>9
<1>10. Untags(h.hdr, h.top, B, T, h2.hdr) BY ONLY <1>3, <1>7, <1>8, <1>9 DEF Untags
<1>11. /\ Shape(h2.hdr, h.top, Space(h.brk, h.mapped), h.contiguous, h.sbrk_base)
       /\ Tagged(h2.hdr, h.top, B \ T)
       /\ Chunks(h2.hdr, h.top) = Chunks(h.hdr, h.top)
  BY ONLY <1>2, <1>10, Untag
<1>12. \A x \in DOMAIN h.hdr : Face(h2.hdr[x]) = Face(h.hdr[x]) BY ONLY <1>8, <1>9
<1>13. /\ h2.top = h.top /\ h2.brk = h.brk /\ h2.mapped = h.mapped /\ h2.heads = h.heads
       /\ h2.contiguous = h.contiguous /\ h2.sbrk_base = h.sbrk_base /\ h2.binmap = h.binmap
  BY ONLY <1>1 DEF Same, Fields
<1>14. Proper(h.bins) /\ Binned(h.hdr, h.bins, h.heads, h.binmap) BY DEF HeapOK, Lists3
<1>15. Lost(h.bins, h2.bins, i, r)
  <2>1. Range(r) \subseteq Range(At(h.bins, i)) BY ONLY <1>1, <1>1b DEF At
  <2> QED BY ONLY <2>1, <1>1, <1>14, Loses
<1>16. /\ Proper(h2.bins)
       /\ \A x : x \in Members(h2.bins) <=> x \in B /\ x \notin T
       /\ \A j \in DOMAIN h2.bins : j # i => j \in DOMAIN h.bins /\ h2.bins[j] = h.bins[j]
       /\ i \in DOMAIN h2.bins => h2.bins[i] = r
  <2>1. Proper(h2.bins) /\ (\A j \in DOMAIN h2.bins : j # i => j \in DOMAIN h.bins /\ h2.bins[j] = h.bins[j])
        /\ (i \in DOMAIN h2.bins => h2.bins[i] = r)
        /\ \A x : x \in Members(h2.bins) <=> x \in Members(h.bins) /\ (x \in Range(At(h.bins, i)) => x \in Range(r))
    BY ONLY <1>15 DEF Lost
  <2>2. At(h.bins, i) = h.bins[i] BY ONLY <1>1 DEF At
  <2> QED BY ONLY <2>1, <2>2, <1>1, <1>1b DEF B
<1>17. Members(h2.bins) = B \ T BY ONLY <1>16
<1>18. Laid(h2, {})
  <2>1. (B \ T) \cup {} = B \ T OBVIOUS
  <2> QED BY ONLY <2>1, <1>11, <1>13, <1>17 DEF Laid
<1>19. \A x \in B : x \in DOMAIN h.hdr /\ h2.hdr[x].size = h.hdr[x].size
  <2>1. \A x \in B : x \in DOMAIN h.hdr BY ONLY <1>4 DEF Chunks
  <2> QED BY ONLY <2>1, <1>12, SameFace
<1>20. Binned(h2.hdr, h2.bins, h2.heads, h2.binmap)
  <2>1. ASSUME NEW j \in DOMAIN h2.bins, j # UNSORTED, NEW q \in Range(h2.bins[j])
        PROVE  bin_index(h2.hdr[q].size) = j
    <3>1. j \in DOMAIN h.bins /\ q \in Range(h.bins[j]) BY ONLY <2>1, <1>1, <1>1b, <1>16
    <3>2. q \in B BY ONLY <3>1 DEF B, Members
    <3> QED BY ONLY <2>1, <3>1, <3>2, <1>14, <1>19 DEF Binned
  <2>2. ASSUME NEW j \in DOMAIN h2.bins, j >= NSMALLBINS PROVE h2.bins[j][1] \in h2.heads
    <3>1. j # i BY ONLY <2>2, <1>1, <1>1d DEF NSMALLBINS
    <3> QED BY ONLY <2>2, <3>1, <1>13, <1>14, <1>16 DEF Binned
  <2>3. ASSUME NEW q \in h2.heads PROVE \E j \in DOMAIN h2.bins : j >= NSMALLBINS /\ q \in Range(h2.bins[j])
    <3>1. PICK j \in DOMAIN h.bins : j >= NSMALLBINS /\ q \in Range(h.bins[j])
      BY ONLY <2>3, <1>13, <1>14 DEF Binned
    <3>2. j # i BY ONLY <3>1, <1>1, <1>1d DEF NSMALLBINS
    <3>3. At(h2.bins, j) = h.bins[j] /\ h.bins[j] # << >>
      BY ONLY <3>1, <3>2, <1>1, <1>14, PutAt DEF At, Proper
    <3>4. j \in DOMAIN h2.bins /\ h2.bins[j] = h.bins[j] BY ONLY <3>3 DEF At
    <3> QED BY ONLY <3>1, <3>4
  <2> QED BY ONLY <2>1, <2>2, <2>3, <1>13, <1>14 DEF Binned
<1>21. /\ DOMAIN u2 = DOMAIN u \cup T /\ \A x \in T : u2[x] = Plain(h.hdr[x].size)
       /\ \A x \in DOMAIN u : u2[x] = u[x]
  BY ONLY u2 = Taking(h, u, T), <1>5 DEF Taking
<1>22. Others(h, B \cup {}, u, h2, (B \ T) \cup {}, u2, T)
  BY ONLY <1>7, <1>12, <1>13, <1>21 DEF Others
<1>23. Settled(h2, (B \ T) \cup {}, u2, T)
  <2> SUFFICES ASSUME NEW x \in T
               PROVE  /\ x \in DOMAIN h2.hdr => ~h2.hdr[x].mmapped
                      /\ x \in Chunks(h2.hdr, h2.top) <=> (x \in (B \ T) \cup {} \/ x \in DOMAIN u2)
                      /\ x \in DOMAIN u2 => x \notin (B \ T) \cup {} /\ u2[x] = Face(h2.hdr[x])
    BY DEF Settled
  <2>1. x \in DOMAIN h.hdr /\ ~h.hdr[x].mmapped /\ x \in Chunks(h.hdr, h.top) /\ h.hdr[x] \in AnyHeader
    BY ONLY <1>6, x \in T
  <2>2. Face(h2.hdr[x]) = Face(h.hdr[x]) BY ONLY <1>12, <2>1
  <2>3. h2.hdr[x].mmapped = h.hdr[x].mmapped BY ONLY <2>2, SameFace
  <2>4. Face(h.hdr[x]) = Plain(h.hdr[x].size)
    <3>1. h.hdr[x].mmapped \in BOOLEAN BY ONLY <2>1, HeapOK(h, u, {}, t), HeaderFacts
    <3> QED BY ONLY <2>1, <3>1, PlainFace
  <2>5. x \in Chunks(h2.hdr, h2.top) BY ONLY <2>1, <1>11, <1>13
  <2> QED BY ONLY <2>1, <2>2, <2>3, <2>4, <2>5, <1>21, x \in T
<1>24. End(h2.hdr, h2.top) = End(h.hdr, h.top) /\ (h2.top = NIL <=> h.top = NIL)
  <2>1. h.top \in DOMAIN h.hdr BY TopFacts
  <2>2. h2.hdr[h.top].size = h.hdr[h.top].size BY ONLY <2>1, <1>12, SameFace
  <2> QED BY ONLY <2>2, <1>13 DEF End
<1>25. Same(h, h2, Loose \cup {"hdr", "top", "bins", "heads", "binmap"}) BY ONLY <1>1 DEF Same
<1>26. {} \cap Members(h2.bins) = {} /\ T \cap Listed(h) = {} BY ONLY <1>5
<1>27. Others(h, Members(h.bins) \cup {}, u, h2, Members(h2.bins) \cup {}, u2, T)
  BY ONLY <1>17, <1>22 DEF B
<1>28. Settled(h2, Members(h2.bins) \cup {}, u2, T) BY ONLY <1>17, <1>23
<1> QED BY ONLY HeapOK(h, u, {}, t), <1>16, <1>18, <1>20, <1>24, <1>25, <1>26, <1>27, <1>28, Relaying

\* The chunks s[left + 1], ... of a small bin are taken, all but the last of
\* them for the cache.
TakesSmall(h, h2, n, i, c, s, left, w) ==
  /\ n \in ChunkSizes /\ in_smallbin_range(n) /\ i = smallbin_index(n) /\ c = csize2tidx(n)
  /\ s = At(h.bins, i) /\ s # << >> /\ left \in Nat /\ left + 1 <= Len(s)
  /\ Len(s) - 1 - left + Len(At(h.entries, c)) <= TcacheCount
  /\ w = SubSeq(s, left + 1, Len(s))
  /\ Same(h, h2, {"hdr", "bins", "entries"})
  /\ h2.bins = Put(h.bins, i, SubSeq(s, 1, left))
  /\ h2.entries = Put(h.entries, c, Front(w) \o At(h.entries, c))
  /\ DOMAIN h2.hdr = DOMAIN h.hdr
  /\ \A q \in DOMAIN h.hdr : h2.hdr[q] = IF q - n \in Range(w) THEN Inuse(h.hdr[q]) ELSE h.hdr[q]

CutsList(s, left, w, r) ==
  /\ IsList(s) /\ s # << >> /\ left \in Nat /\ left + 1 <= Len(s)
  /\ w = SubSeq(s, left + 1, Len(s)) /\ r = SubSeq(s, 1, left)

\* How a list is cut in two.
LEMMA CutList ==
  ASSUME NEW s, NEW left, NEW w, NEW r, CutsList(s, left, w, r)
  PROVE  /\ IsList(r) /\ IsList(w) /\ w # << >>
         /\ Range(w) \subseteq Range(s) /\ Last(s) \in Range(s) /\ Last(s) \in Nat
         /\ \A x : x \in Range(r) <=> x \in Range(s) /\ x \notin Range(w)
         /\ Last(w) = Last(s) /\ Last(s) \in Range(w)
         /\ IsList(Front(w)) /\ Range(Front(w)) = Range(w) \ {Last(s)}
         /\ Len(Front(w)) = Len(s) - 1 - left
<1> DEFINE m == left + 1
           z == Len(s)
<1>0. /\ IsList(s) /\ s # << >> /\ left \in Nat /\ left + 1 <= Len(s)
      /\ w = SubSeq(s, left + 1, Len(s)) /\ r = SubSeq(s, 1, left)
  BY DEF CutsList
<1>1. /\ s \in Seq(Nat) /\ DOMAIN s = 1 .. Len(s) /\ Len(s) \in Nat /\ Range(s) = {s[k] : k \in 1 .. Len(s)}
      /\ \A k, j \in 1 .. Len(s) : s[k] = s[j] => k = j
  BY <1>0, InRange DEF IsList, Injective
<1>2. m \in Nat /\ m >= 1 /\ z \in Nat /\ z <= Len(s) /\ m <= z /\ z = Len(s) /\ m = left + 1
      /\ w = SubSeq(s, m, z)
  BY ONLY <1>1, <1>0
<1> HIDE DEF m, z
<1>3. /\ IsList(w) /\ Range(w) = {s[k] : k \in m .. z}
      /\ Len(w) = IF m <= z THEN z - m + 1 ELSE 0
      /\ \A k \in 1 .. z - m + 1 : w[k] = s[m + k - 1]
  <2>1. m \in Nat /\ m >= 1 /\ z \in Nat /\ z <= Len(s) BY ONLY <1>2
  <2>2. /\ IsList(SubSeq(s, m, z))
        /\ Range(SubSeq(s, m, z)) = {s[k] : k \in m .. z}
        /\ Len(SubSeq(s, m, z)) = IF m <= z THEN z - m + 1 ELSE 0
        /\ \A k \in 1 .. z - m + 1 : SubSeq(s, m, z)[k] = s[m + k - 1]
    BY ONLY <2>1, <1>0, PartList
  <2> QED BY ONLY <2>2, <1>2
<1>4. /\ IsList(r) /\ Range(r) = {s[k] : k \in 1 .. left}
  <2>1. 1 \in Nat /\ 1 >= 1 /\ left <= Len(s) BY ONLY <1>1, <1>0
  <2>2. IsList(SubSeq(s, 1, left)) /\ Range(SubSeq(s, 1, left)) = {s[k] : k \in 1 .. left}
    BY ONLY <2>1, <1>0, PartList
  <2> QED BY ONLY <2>2, <1>0
<1>5. Len(w) = z - left /\ Len(w) >= 1 /\ Len(w) \in Nat
  BY ONLY <1>0, <1>1, <1>2, <1>3
<1>6. w # << >> BY ONLY <1>5
<1>7. Last(w) = s[z] /\ Last(s) = s[z]
  <2> DEFINE k == z - m + 1
  <2>1. k \in 1 .. z - m + 1 /\ Len(w) = k /\ m + k - 1 = z BY ONLY <1>2, <1>3
  <2>2. w[k] = s[m + k - 1] BY ONLY <2>1, <1>3
  <2> HIDE DEF k
  <2>3. w[Len(w)] = s[z] BY ONLY <2>1, <2>2
  <2> QED BY ONLY <2>3, <1>2 DEF Last
<1>8. s[z] \in Range(w) /\ Range(w) \subseteq Range(s)
  <2>1. z \in m .. z /\ m .. z \subseteq 1 .. Len(s) BY ONLY <1>1, <1>2
  <2>2. Range(w) = {s[k] : k \in m .. z} BY ONLY <1>3
  <2>3. s[z] \in Range(w) BY ONLY <2>1, <2>2
  <2> QED BY ONLY <2>1, <2>2, <2>3, <1>1
<1>9. ASSUME NEW x PROVE x \in Range(r) <=> x \in Range(s) /\ x \notin Range(w)
  <2>1. ASSUME x \in Range(r) PROVE x \in Range(s) /\ x \notin Range(w)
    <3>1. PICK k \in 1 .. left : x = s[k] BY ONLY <1>4, <2>1
    <3>2. k \in 1 .. Len(s) /\ k \notin m .. z BY ONLY <1>0, <1>1, <1>2, <3>1
    <3>3. x \in Range(s) BY ONLY <1>1, <3>1, <3>2
    <3>4. ASSUME x \in Range(w) PROVE FALSE
      <4>1. PICK j \in m .. z : x = s[j] BY ONLY <1>3, <3>4
      <4>2. j \in 1 .. Len(s) BY ONLY <1>1, <1>2, <4>1
      <4> QED BY ONLY <1>1, <3>1, <3>2, <4>1, <4>2
    <3> QED BY ONLY <3>3, <3>4
  <2>2. ASSUME x \in Range(s), x \notin Range(w) PROVE x \in Range(r)
    <3>1. PICK k \in 1 .. Len(s) : x = s[k] BY ONLY <1>1, <2>2
    <3>2. k \notin m .. z BY ONLY <1>3, <2>2, <3>1
    <3>3. k \in 1 .. left BY ONLY <1>0, <1>1, <1>2, <3>1, <3>2
    <3> QED BY ONLY <1>4, <3>1, <3>3
  <2> QED BY ONLY <2>1, <2>2
<1>10. IsList(Front(w)) /\ Range(Front(w)) = Range(w) \ {Last(w)} /\ Len(Front(w)) = Len(w) - 1
  BY ONLY <1>3, <1>6, EndsList
<1>11. Last(s) \in Range(s) /\ Last(s) \in Nat BY <1>0, EndsList
<1>12. Len(Front(w)) = Len(s) - 1 - left
  <2>1. Len(Front(w)) = Len(w) - 1 BY ONLY <1>10
  <2> DEFINE x == Len(Front(w))
             y == Len(w)
  <2>2. x = y - 1 /\ y = z - left /\ z = Len(s) /\ z \in Nat BY ONLY <2>1, <1>2, <1>5
  <2> HIDE DEF x, y
  <2>3. x = z - 1 - left BY ONLY <2>2, <1>0
  <2> QED BY ONLY <2>2, <2>3 DEF x
<1> QED BY ONLY <1>3, <1>4, <1>6, <1>7, <1>8, <1>9, <1>10, <1>11, <1>12

\* The last chunk of a small bin is taken, the ones before it go to the cache.
LEMMA TookSmall ==
  ASSUME NEW h, NEW u, NEW t, HeapOK(h, u, {}, t),
         NEW h2, NEW n, NEW i, NEW c, NEW s, NEW left, NEW w, TakesSmall(h, h2, n, i, c, s, left, w),
         NEW p, p = Last(s), NEW u2, u2 = Taking(h, u, {p})
  PROVE  /\ HeapOK(h2, u2, {}, t)
         /\ p \in Members(h.bins) /\ h.hdr[p].size = n
<1> DEFINE r == SubSeq(s, 1, left)
           a == Front(w)
           hA == [h2 EXCEPT !.entries = h.entries]
           T == Range(w)
           uA == Taking(h, u, T)
           X == Range(a)
           uB == WithoutAll(uA, X)
<1>1. /\ n \in ChunkSizes /\ in_smallbin_range(n) /\ i = smallbin_index(n) /\ c = csize2tidx(n)
      /\ s = At(h.bins, i) /\ s # << >> /\ left \in Nat /\ left + 1 <= Len(s)
      /\ Len(s) - 1 - left + Len(At(h.entries, c)) <= TcacheCount
      /\ w = SubSeq(s, left + 1, Len(s))
      /\ Same(h, h2, {"hdr", "bins", "entries"})
      /\ h2.bins = Put(h.bins, i, r)
      /\ h2.entries = Put(h.entries, c, a \o At(h.entries, c))
      /\ DOMAIN h2.hdr = DOMAIN h.hdr
  BY DEF TakesSmall
<1>2. \A q \in DOMAIN h.hdr : h2.hdr[q] = IF q - n \in T THEN Inuse(h.hdr[q]) ELSE h.hdr[q]
  BY DEF TakesSmall
<1>3. /\ Proper(h.fast) /\ Proper(h.entries) /\ Proper(h.bins)
      /\ Members(h.fast) \cap Members(h.entries) = {}
      /\ Indexed(h.hdr, h.fast, h.entries) /\ Rec(h)
      /\ \A x : x \in Listed(h) <=> x \in Members(h.fast) \/ x \in Members(h.entries)
  BY ListFacts
<1>4. i \in DOMAIN h.bins /\ s = h.bins[i] /\ IsList(s)
  BY ONLY <1>1, <1>3, AtList
<1>5. i \in 2 .. 63 /\ bin_index(n) = i
  <2>1. smallbin_index(n) \in 2 .. 63 BY ONLY <1>1, SmallIndex
  <2>2. bin_index(n) = smallbin_index(n) BY ONLY <1>1 DEF bin_index
  <2> QED BY ONLY <2>1, <2>2, <1>1
<1>6. Range(s) \subseteq Members(h.bins) BY ONLY <1>4 DEF Members
<1>7. \A x \in Range(s) : h.hdr[x].size = n /\ x \notin DOMAIN u /\ x \notin Listed(h)
  <2> SUFFICES ASSUME NEW x \in Range(s) PROVE h.hdr[x].size = n /\ x \notin DOMAIN u /\ x \notin Listed(h)
    OBVIOUS
  <2>1. Binned(h.hdr, h.bins, h.heads, h.binmap) /\ Owned(h.hdr, h.top, Listed(h), Members(h.bins) \cup {}, u)
        /\ Tagged(h.hdr, h.top, Members(h.bins))
    <3>1. Tagged(h.hdr, h.top, Members(h.bins)) BY LaidOut
    <3> QED BY <3>1 DEF HeapOK
  <2>2. x \in Members(h.bins) BY ONLY <1>6, x \in Range(s)
  <2>3. x \in Chunks(h.hdr, h.top) BY ONLY <2>1, <2>2 DEF Tagged
  <2>4. h.hdr[x].size \in ChunkSizes BY ONLY <2>3, HeapOK(h, u, {}, t), ChunkFacts
  <2>5. i # UNSORTED BY ONLY <1>5 DEF UNSORTED
  <2>6. bin_index(h.hdr[x].size) = i BY ONLY <2>1, <2>5, <1>4, x \in Range(s) DEF Binned
  <2>7. h.hdr[x].size = n BY ONLY <2>4, <2>6, <1>1, <1>5, OneSmallSize
  <2> QED BY ONLY <2>1, <2>2, <2>7 DEF Owned
<1>8. r = SubSeq(s, 1, left) /\ a = Front(w) /\ hA = [h2 EXCEPT !.entries = h.entries] /\ T = Range(w)
      /\ uA = Taking(h, u, T) /\ X = Range(a) /\ uB = WithoutAll(uA, X)
  OBVIOUS
<1> HIDE DEF r, a, hA, T, uA, X, uB
<1>9. /\ IsList(r) /\ IsList(w) /\ w # << >>
      /\ T \subseteq Range(s) /\ p \in Range(s) /\ p \in Nat
      /\ p \in T /\ IsList(a) /\ X = T \ {p} /\ Len(a) = Len(s) - 1 - left
  <2>1. CutsList(s, left, w, r) BY ONLY <1>1, <1>4, <1>8 DEF CutsList
  <2>2. /\ IsList(r) /\ IsList(w) /\ w # << >>
        /\ Range(w) \subseteq Range(s) /\ Last(s) \in Range(s) /\ Last(s) \in Nat
        /\ Last(s) \in Range(w)
        /\ IsList(Front(w)) /\ Range(Front(w)) = Range(w) \ {Last(s)}
        /\ Len(Front(w)) = Len(s) - 1 - left
    BY ONLY <2>1, CutList
  <2> QED BY ONLY <2>2, <1>8, p = Last(s)
<1>10. \A x : x \in Range(r) <=> x \in Range(s) /\ x \notin T
  <2>1. CutsList(s, left, w, r) BY ONLY <1>1, <1>4, <1>8 DEF CutsList
  <2>2. \A x : x \in Range(r) <=> x \in Range(s) /\ x \notin Range(w)
    BY ONLY <2>1, CutList
  <2> QED BY ONLY <2>2, <1>8
<1>11. /\ Same(h, hA, {"hdr", "bins"}) /\ hA.bins = h2.bins /\ hA.hdr = h2.hdr
       /\ Same(hA, h2, {"entries"}) /\ hA.entries = h.entries
  BY ONLY <1>1, <1>3, <1>8 DEF Rec, Same, Fields
<1>12. TakesBin(h, hA, n, i, r, T)
  <2>1. i # UNSORTED /\ i < NSMALLBINS BY ONLY <1>5 DEF UNSORTED, NSMALLBINS
  <2>2. \A x \in T : h.hdr[x].size = n BY ONLY <1>7, <1>9
  <2> QED BY ONLY <2>1, <2>2, <1>1, <1>2, <1>4, <1>9, <1>10, <1>11 DEF TakesBin
<1>13. HeapOK(hA, uA, {}, t) BY ONLY <1>8, <1>12, HeapOK(h, u, {}, t), TookBin
<1>14. /\ DOMAIN uA = DOMAIN u \cup T /\ \A x \in T : uA[x] = Plain(h.hdr[x].size)
       /\ \A x \in DOMAIN u : x \notin T => uA[x] = u[x]
  BY ONLY <1>8 DEF Taking
<1>15. Same(h, h2, {"hdr", "bins", "entries"}) /\ h2.fast = h.fast /\ hA.fast = h.fast
  BY ONLY <1>1, <1>11 DEF Same, Fields
<1>16. Gained(h.entries, h2.entries, c, a)
  <2>1. \A x \in Range(a) : x \notin Members(h.entries) BY ONLY <1>3, <1>7, <1>8, <1>9
  <2> QED BY ONLY <2>1, <1>1, <1>3, <1>9, Gains
<1>17. Indexed(h2.hdr, h2.fast, h2.entries)
  <2>1. Indexed(hA.hdr, hA.fast, hA.entries) BY ONLY <1>13, ListFacts
  <2>2. \A q \in Range(a) : csize2tidx(hA.hdr[q].size) = c
    <3> SUFFICES ASSUME NEW q \in Range(a) PROVE csize2tidx(hA.hdr[q].size) = c OBVIOUS
    <3>1. q \in T /\ q \in Range(s) BY ONLY <1>8, <1>9, q \in Range(a)
    <3>2. q \in DOMAIN uA /\ uA[q] = Plain(n) BY ONLY <1>7, <1>14, <3>1
    <3>3. ~uA[q].mmapped BY ONLY <3>2 DEF Plain
    <3>4. uA[q] = Plain(hA.hdr[q].size) BY ONLY <1>13, <3>2, <3>3, HeldFacts
    <3>5. hA.hdr[q].size = n BY ONLY <3>2, <3>4 DEF Plain
    <3> QED BY ONLY <3>5, <1>1
  <2>3. Len(a) + Len(At(h.entries, c)) <= TcacheCount BY ONLY <1>1, <1>9
  <2>4. Indexed(hA.hdr, hA.fast, h2.entries)
    BY ONLY <2>1, <2>2, <2>3, <1>3, <1>11, <1>16, EntriesGained
  <2> QED BY ONLY <2>4, <1>11, <1>15
<1>18. /\ Proper(h2.fast) /\ Proper(h2.entries) /\ Members(h2.fast) \cap Members(h2.entries) = {}
       /\ \A x : x \in Listed(h2) <=> x \in Listed(hA) \/ x \in X
  <2>1. Proper(h2.entries) /\ (\A x : x \in Members(h2.entries) <=> x \in Members(h.entries) \/ x \in Range(a))
    BY ONLY <1>16 DEF Gained
  <2>2. \A x : x \in Listed(h2) <=> x \in Members(h2.fast) \/ x \in Members(h2.entries) BY DEF Listed
  <2>3. \A x : x \in Listed(hA) <=> x \in Members(hA.fast) \/ x \in Members(hA.entries) BY DEF Listed
  <2>4. \A x \in Range(a) : x \notin Members(h.fast) BY ONLY <1>3, <1>7, <1>8, <1>9
  <2> QED BY ONLY <2>1, <2>2, <2>3, <2>4, <1>3, <1>8, <1>11, <1>15
<1>19. HeapOK(h2, uB, {}, t)
  <2>1. X \subseteq DOMAIN uA BY ONLY <1>9, <1>14
  <2>2. \A x \in X : ~uA[x].mmapped
    <3> SUFFICES ASSUME NEW x \in X PROVE ~uA[x].mmapped OBVIOUS
    <3>1. uA[x] = Plain(h.hdr[x].size) BY ONLY <1>9, <1>14, x \in X
    <3> QED BY ONLY <3>1 DEF Plain
  <2>3. Same(hA, h2, Loose \cup {"fast", "entries"}) BY ONLY <1>11 DEF Same
  <2> QED BY ONLY <2>1, <2>2, <2>3, <1>8, <1>13, <1>17, <1>18, Shelved
<1>20. DOMAIN u2 = DOMAIN u \cup {p} /\ u2[p] = Plain(h.hdr[p].size)
       /\ \A x \in DOMAIN u : x # p => u2[x] = u[x]
  BY ONLY u2 = Taking(h, u, {p}) DEF Taking
<1>21. DOMAIN uB = (DOMAIN u \cup T) \ X /\ \A x \in DOMAIN uB : uB[x] = uA[x]
  BY ONLY <1>8, <1>14 DEF WithoutAll
<1>22. \A x \in T : x \notin DOMAIN u BY ONLY <1>7, <1>9
<1>23. DOMAIN u2 = DOMAIN uB BY ONLY <1>9, <1>20, <1>21, <1>22
<1>24. \A x \in DOMAIN uB : u2[x] = uB[x]
  <2> SUFFICES ASSUME NEW x \in DOMAIN uB PROVE u2[x] = uB[x] OBVIOUS
  <2>1. CASE x = p BY ONLY <2>1, <1>9, <1>14, <1>20, <1>21, x \in DOMAIN uB
  <2>2. CASE x # p
    <3>1. x \in DOMAIN u /\ x \notin T BY ONLY <2>2, <1>9, <1>21, <1>22, x \in DOMAIN uB
    <3> QED BY ONLY <2>2, <3>1, <1>14, <1>20, <1>21, x \in DOMAIN uB
  <2> QED BY ONLY <2>1, <2>2
<1>25. HeapOK(h2, u2, {}, t) BY ONLY <1>19, <1>23, <1>24, SameHeld
<1> QED BY ONLY <1>25, <1>6, <1>7, <1>9

\* A list without its last element.
LEMMA FrontList ==
  ASSUME NEW s, IsList(s), s # << >>
  PROVE  Front(s) = RemoveAt(s, Len(s)) /\ Len(s) \in 1 .. Len(s) /\ s[Len(s)] = Last(s)
<1>1. s \in Seq(Nat) /\ Len(s) \in Nat BY InRange DEF IsList
<1>2. Len(s) >= 1 BY EndsList
<1> DEFINE z == Len(s)
           y == Len(s) - 1
<1>3. z \in Nat /\ y \in Nat /\ z = Len(s) /\ y = z - 1 /\ z >= 1 BY <1>1, <1>2
<1> HIDE DEF z, y
<1>4. SubSeq(s, z + 1, z) = << >> BY <1>1, <1>3
<1>5. SubSeq(s, 1, y) \in Seq(Nat) BY <1>1, <1>3
<1>6. SubSeq(s, 1, y) \o << >> = SubSeq(s, 1, y) BY <1>5
<1>7. RemoveAt(s, z) = SubSeq(s, 1, y) BY <1>3, <1>4, <1>6 DEF RemoveAt
<1>8. Front(s) = SubSeq(s, 1, y) BY <1>3 DEF Front
<1> QED BY <1>3, <1>7, <1>8 DEF Last

\* The last chunk of the unsorted bin is taken off it.
LEMMA TookVictim ==
  ASSUME NEW h, NEW u, NEW t, HeapOK(h, u, {}, t),
         NEW s, s = At(h.bins, UNSORTED), s # << >>, NEW p, p = Last(s),
         NEW h2, Same(h, h2, {"bins", "abort"}), h2.bins = Put(h.bins, UNSORTED, Front(s))
  PROVE  /\ HeapOK(h2, u, {p}, t)
         /\ p \in Chunks(h.hdr, h.top) /\ p \in Members(h.bins) /\ h2.hdr = h.hdr
<1>1. Proper(h.bins) BY ListFacts
<1>2. UNSORTED \in DOMAIN h.bins /\ s = h.bins[UNSORTED] /\ IsList(s) BY <1>1, AtList
<1> DEFINE k == Len(s)
<1>3. Front(s) = RemoveAt(s, k) /\ k \in 1 .. Len(s) /\ s[k] = p BY ONLY <1>2, s # << >>, p = Last(s), FrontList
<1> HIDE DEF k
<1>4. /\ Rec(h2) /\ Same(h, h2, Loose \cup {"bins", "heads"}) /\ h2.heads = h.heads /\ h2.hdr = h.hdr
  <2>1. Same(h, h2, Loose \cup {"bins", "heads"}) BY ONLY Same(h, h2, {"bins", "abort"}) DEF Same, Loose
  <2> QED BY ONLY <2>1, Same(h, h2, {"bins", "abort"}) DEF Same, Fields
<1>5. k \in 1 .. Len(h.bins[UNSORTED]) /\ h.bins[UNSORTED][k] = p
      /\ h2.bins = Put(h.bins, UNSORTED, RemoveAt(h.bins[UNSORTED], k))
  BY ONLY <1>2, <1>3, h2.bins = Put(h.bins, UNSORTED, Front(s))
<1>6. UNSORTED < NSMALLBINS BY DEF UNSORTED, NSMALLBINS
<1>7. HeapOK(h2, u, {p}, t) /\ p \in Chunks(h.hdr, h.top)
  BY ONLY <1>2, <1>4, <1>5, <1>6, HeapOK(h, u, {}, t), UnlinkFrom
<1>8. p \in Members(h.bins)
  <2>1. p \in Range(s) BY ONLY <1>2, s # << >>, p = Last(s), EndsList
  <2> QED BY ONLY <2>1, <1>2 DEF Members
<1> QED BY ONLY <1>4, <1>7, <1>8

\* The free chunk p is in the list r of its bin i, which was s.
Inserts(h, h2, p, i, s, r, H) ==
  /\ i = bin_index(h.hdr[p].size) /\ s = At(h.bins, i)
  /\ Same(h, h2, {"bins", "heads", "binmap"})
  /\ h2.bins = Put(h.bins, i, r) /\ h2.binmap = h.binmap \cup {i} /\ h2.heads = H
  /\ IsList(r) /\ r # << >> /\ Range(r) = Range(s) \cup {p}
  /\ h.heads \subseteq H /\ H \subseteq h.heads \cup {p}
  /\ p \in H /\ p \notin h.heads => i >= NSMALLBINS
  /\ i >= NSMALLBINS => r[1] \in H

\* A chunk between two bins goes to its own.
LEMMA Inserted ==
  ASSUME NEW h, NEW u, NEW t, NEW p, HeapOK(h, u, {p}, t),
         NEW h2, NEW i, NEW s, NEW r, NEW H, Inserts(h, h2, p, i, s, r, H)
  PROVE  HeapOK(h2, u, {}, t)
<1>1. /\ i = bin_index(h.hdr[p].size) /\ s = At(h.bins, i)
      /\ Same(h, h2, {"bins", "heads", "binmap"})
      /\ h2.bins = Put(h.bins, i, r) /\ h2.binmap = h.binmap \cup {i} /\ h2.heads = H
      /\ IsList(r) /\ r # << >> /\ Range(r) = Range(s) \cup {p}
      /\ h.heads \subseteq H /\ H \subseteq h.heads \cup {p}
      /\ p \in H /\ p \notin h.heads => i >= NSMALLBINS
      /\ i >= NSMALLBINS => r[1] \in H
  BY DEF Inserts
<1>2. /\ Laid(h, {p}) /\ Proper(h.bins) /\ {p} \cap Members(h.bins) = {}
      /\ Owned(h.hdr, h.top, Listed(h), Members(h.bins) \cup {p}, u)
      /\ Binned(h.hdr, h.bins, h.heads, h.binmap) /\ Mapped(h.hdr)
  BY DEF HeapOK, Lists3
<1>3. p \in Chunks(h.hdr, h.top)
  <2> DEFINE B == Members(h.bins)
  <2>1. Tagged(h.hdr, h.top, B \cup {p}) BY <1>2 DEF Laid
  <2> HIDE DEF B
  <2> QED BY ONLY <2>1 DEF Tagged
<1>4. i \in 2 .. NBINS - 2 BY ONLY <1>1, <1>3, HeapOK(h, u, {p}, t), ChunkFacts
<1>5. /\ h2.hdr = h.hdr /\ h2.top = h.top /\ h2.brk = h.brk /\ h2.mapped = h.mapped
      /\ h2.contiguous = h.contiguous /\ h2.sbrk_base = h.sbrk_base
      /\ Same(h, h2, Loose \cup {"hdr", "top", "bins", "heads", "binmap"})
  BY ONLY <1>1 DEF Same, Fields
<1>6. Proper(h2.bins) /\ Members(h2.bins) = Members(h.bins) \cup {p}
  <2>1. On(h.bins, i) = Range(s) BY ONLY <1>1 DEF On
  <2>2. On(h.bins, i) \subseteq Members(h.bins) BY ONLY <1>2, AtList
  <2>3. Range(r) \cap (Members(h.bins) \ On(h.bins, i)) = {} BY ONLY <1>1, <1>2, <2>1
  <2>4. Proper(Put(h.bins, i, r)) /\ Members(Put(h.bins, i, r)) = (Members(h.bins) \ On(h.bins, i)) \cup Range(r)
    BY ONLY <2>3, <1>1, <1>2, PutList
  <2> QED BY ONLY <2>1, <2>2, <2>4, <1>1
<1>7. /\ h2.bins[i] = r /\ i \in DOMAIN h2.bins
      /\ \A j \in DOMAIN h2.bins : j # i => j \in DOMAIN h.bins /\ h2.bins[j] = h.bins[j]
      /\ \A j \in DOMAIN h.bins : j # i => j \in DOMAIN h2.bins /\ h2.bins[j] = h.bins[j]
  <2>1. At(h2.bins, i) = r BY ONLY <1>1, PutAt
  <2>2. \A j : j # i => At(h2.bins, j) = At(h.bins, j) BY ONLY <1>1, PutAt
  <2>3. \A j \in DOMAIN h.bins : At(h.bins, j) = h.bins[j] /\ h.bins[j] # << >>
    BY ONLY <1>2 DEF At, Proper
  <2>4. i \in DOMAIN h2.bins /\ h2.bins[i] = r BY ONLY <2>1, <1>1 DEF At
  <2>5. \A j \in DOMAIN h2.bins : j # i => j \in DOMAIN h.bins /\ h2.bins[j] = h.bins[j]
    BY ONLY <1>1, PutDomain
  <2>6. ASSUME NEW j \in DOMAIN h.bins, j # i PROVE j \in DOMAIN h2.bins /\ h2.bins[j] = h.bins[j]
    <3>1. At(h2.bins, j) = h.bins[j] /\ h.bins[j] # << >> BY ONLY <2>2, <2>3, <2>6
    <3> QED BY ONLY <3>1 DEF At
  <2> QED BY ONLY <2>4, <2>5, <2>6
<1>8. Binned(h2.hdr, h2.bins, h2.heads, h2.binmap)
  <2>1. ASSUME NEW j \in DOMAIN h2.bins, j # UNSORTED, NEW q \in Range(h2.bins[j])
        PROVE  bin_index(h2.hdr[q].size) = j
    <3>1. CASE j = i
      <4>1. CASE q = p BY ONLY <3>1, <4>1, <1>1, <1>5
      <4>2. CASE q # p
        <5>1. q \in Range(s) BY ONLY <4>2, <3>1, <2>1, <1>1, <1>7
        <5>2. i \in DOMAIN h.bins /\ s = h.bins[i]
          <6>1. s # << >>
            <7> SUFFICES ASSUME s = << >> PROVE FALSE OBVIOUS
            <7>1. Range(s) = {} BY ONLY s = << >>, NoList
            <7> QED BY ONLY <7>1, <5>1
          <6> QED BY ONLY <6>1, <1>1 DEF At
        <5> QED BY ONLY <5>1, <5>2, <3>1, <2>1, <1>2, <1>5 DEF Binned
      <4> QED BY ONLY <4>1, <4>2
    <3>2. CASE j # i
      <4>1. j \in DOMAIN h.bins /\ q \in Range(h.bins[j]) BY ONLY <3>2, <2>1, <1>7
      <4> QED BY ONLY <4>1, <2>1, <1>2, <1>5 DEF Binned
    <3> QED BY ONLY <3>1, <3>2
  <2>2. ASSUME NEW j \in DOMAIN h2.bins, j >= NSMALLBINS PROVE h2.bins[j][1] \in h2.heads
    <3>1. CASE j = i BY ONLY <3>1, <2>2, <1>1, <1>7
    <3>2. CASE j # i
      <4>1. j \in DOMAIN h.bins /\ h2.bins[j] = h.bins[j] BY ONLY <3>2, <2>2, <1>7
      <4>2. h.bins[j][1] \in h.heads BY ONLY <4>1, <2>2, <1>2 DEF Binned
      <4> QED BY ONLY <4>1, <4>2, <1>1
    <3> QED BY ONLY <3>1, <3>2
  <2>3. ASSUME NEW q \in h2.heads PROVE \E j \in DOMAIN h2.bins : j >= NSMALLBINS /\ q \in Range(h2.bins[j])
    <3>1. CASE q \in h.heads
      <4>1. PICK j \in DOMAIN h.bins : j >= NSMALLBINS /\ q \in Range(h.bins[j])
        BY ONLY <3>1, <1>2 DEF Binned
      <4>2. CASE j = i
        <5>1. s = h.bins[i] BY ONLY <4>1, <4>2, <1>1 DEF At
        <5> QED BY ONLY <5>1, <4>1, <4>2, <1>1, <1>7
      <4>3. CASE j # i
        <5>1. j \in DOMAIN h2.bins /\ h2.bins[j] = h.bins[j] BY ONLY <4>1, <4>3, <1>7
        <5> QED BY ONLY <5>1, <4>1
      <4> QED BY ONLY <4>2, <4>3
    <3>2. CASE q \notin h.heads
      <4>1. q = p BY ONLY <3>2, <2>3, <1>1
      <4>2. i >= NSMALLBINS BY ONLY <3>2, <4>1, <2>3, <1>1
      <4> QED BY ONLY <4>1, <4>2, <1>1, <1>7
    <3> QED BY ONLY <3>1, <3>2
  <2>4. h2.binmap \subseteq 2 .. NBINS - 2
    <3>1. h.binmap \subseteq 2 .. NBINS - 2 BY ONLY <1>2 DEF Binned
    <3> QED BY ONLY <3>1, <1>1, <1>4
  <2> QED BY ONLY <2>1, <2>2, <2>3, <2>4 DEF Binned
<1>9. Laid(h2, {}) /\ Owned(h2.hdr, h2.top, Listed(h), Members(h2.bins) \cup {}, u)
      /\ {} \cap Members(h2.bins) = {}
  <2>1. Members(h2.bins) \cup {} = Members(h.bins) \cup {p} BY ONLY <1>6
  <2> QED BY ONLY <2>1, <1>2, <1>5 DEF Laid
<1>10. /\ \A q \in Listed(h) : h2.hdr[q].size = h.hdr[q].size
       /\ Mapped(h2.hdr) /\ End(h2.hdr, h2.top) = End(h.hdr, h.top) /\ (h2.top = NIL <=> h.top = NIL)
  BY ONLY <1>2, <1>5
<1> QED BY ONLY HeapOK(h, u, {p}, t), <1>5, <1>6, <1>8, <1>9, <1>10, Relaid

\* Where a large chunk comes into its bin, and whether into the skip list too.
LEMMA SortedIn ==
  ASSUME NEW h, NEW s, IsList(s), NEW p \in Nat, p \notin Range(s), s # << >> => s[1] \in h.heads,
         NEW r, r = sorted_insert(h, s, p).list, NEW H, H = sorted_insert(h, s, p).heads
  PROVE  /\ IsList(r) /\ r # << >> /\ Range(r) = Range(s) \cup {p}
         /\ h.heads \subseteq H /\ H \subseteq h.heads \cup {p}
         /\ r[1] \in H
<1> DEFINE sz == chunksize(h, p)
           notlarger == {k \in DOMAIN s : s[k] \in h.heads /\ chunksize(h, s[k]) <= sz}
           k1 == Min(notlarger)
           same == notlarger # {} /\ chunksize(h, s[k1]) = sz
           x == IF same THEN k1 + 1 ELSE k1
<1>1. /\ r = IF notlarger = {} THEN Append(s, p) ELSE InsertAt(s, x, p)
      /\ H = IF same THEN h.heads ELSE h.heads \union {p}
  BY DEF sorted_insert
<1>2. DOMAIN s = 1 .. Len(s) /\ Len(s) \in Nat BY InRange DEF IsList
<1>3. same => notlarger # {} OBVIOUS
<1>4. notlarger \subseteq 1 .. Len(s) BY <1>2
<1>5. x = (IF same THEN k1 + 1 ELSE k1) /\ k1 = Min(notlarger) OBVIOUS
<1> HIDE DEF same, k1, x, notlarger
<1>6. h.heads \subseteq H /\ H \subseteq h.heads \cup {p} /\ (~same => p \in H) BY ONLY <1>1
<1>7. CASE notlarger = {}
  <2>1. ~same /\ r = Append(s, p) BY ONLY <1>1, <1>3, <1>7
  <2>2. IsList(r) /\ r # << >> /\ Range(r) = Range(s) \cup {p} /\ r[1] = IF s = << >> THEN p ELSE s[1]
    BY ONLY <2>1, IsList(s), p \in Nat, p \notin Range(s), AppendList
  <2>3. r[1] \in H BY ONLY <2>1, <2>2, <1>6, s # << >> => s[1] \in h.heads
  <2> QED BY ONLY <2>2, <2>3, <1>6
<1>8. CASE notlarger # {}
  <2>1. k1 \in 1 .. Len(s)
    <3>1. notlarger \subseteq Nat BY ONLY <1>2, <1>4
    <3>2. Min(notlarger) \in notlarger BY ONLY <3>1, <1>8, MinIs
    <3> QED BY ONLY <3>2, <1>4, <1>5
  <2>2. /\ x \in 1 .. Len(s) + 1 /\ (x = 1 => ~same)
    BY ONLY <1>2, <1>5, <2>1
  <2>3. r = InsertAt(s, x, p) BY ONLY <1>1, <1>8
  <2>4. /\ IsList(r) /\ r # << >> /\ Range(r) = Range(s) \cup {p}
        /\ x > 1 => r[1] = s[1]
        /\ x = 1 => r[1] = p
    BY ONLY <2>2, <2>3, IsList(s), p \in Nat, p \notin Range(s), InsertList
  <2>5. s # << >>
    <3> SUFFICES ASSUME s = << >> PROVE FALSE OBVIOUS
    <3>1. Len(s) = 0 BY ONLY s = << >>, NoList
    <3> QED BY ONLY <2>1, <3>1
  <2>6. r[1] \in H
    <3>1. CASE x = 1 BY ONLY <3>1, <2>2, <2>4, <1>6
    <3>2. CASE x > 1 BY ONLY <3>2, <2>4, <2>5, <1>6, s # << >> => s[1] \in h.heads
    <3>3. x = 1 \/ x > 1 BY ONLY <2>2, <1>2
    <3> QED BY ONLY <3>1, <3>2, <3>3
  <2> QED BY ONLY <2>4, <2>6, <1>6
<1> QED BY ONLY <1>7, <1>8

\* Freeing the chunks of a list, step by step.
LEMMA FreeAllDef ==
  ASSUME NEW h, NEW s, Len(s) \in Nat
  PROVE  \E m : /\ m[0] = h
                /\ \A n \in 1 .. Len(s) : m[n] = int_free(m[n - 1], s[n])
                /\ FreeAll(h, s) = m[Len(s)]
<1> DEFINE N == Len(s)
           Is(g, k) == g = [n \in 0 .. k |-> IF n = 0 THEN h ELSE int_free(g[n - 1], s[n])]
           T == {k \in Nat : \E g : Is(g, k)}
<1>1. 0 \in T
  <2> DEFINE m0 == [n \in 0 .. 0 |-> h]
  <2>1. Is(m0, 0) OBVIOUS
  <2> QED BY <2>1
<1>2. ASSUME NEW k \in Nat, k \in T PROVE k + 1 \in T
  <2>1. PICK g : Is(g, k) BY <1>2
  <2> DEFINE f == [n \in 0 .. k + 1 |-> IF n = 0 THEN h ELSE int_free(g[n - 1], s[n])]
  <2>2. \A n \in 0 .. k : f[n] = g[n]
    <3>1. \A n \in 0 .. k : g[n] = IF n = 0 THEN h ELSE int_free(g[n - 1], s[n]) BY <2>1
    <3>2. \A n \in 0 .. k : n \in 0 .. k + 1 OBVIOUS
    <3>3. \A n \in 0 .. k + 1 : f[n] = IF n = 0 THEN h ELSE int_free(g[n - 1], s[n]) OBVIOUS
    <3> HIDE DEF f
    <3> QED BY <3>1, <3>2, <3>3
  <2>3. \A n \in 0 .. k + 1 : n # 0 => f[n - 1] = g[n - 1]
    <3>1. \A n \in 0 .. k + 1 : n # 0 => n - 1 \in 0 .. k OBVIOUS
    <3> HIDE DEF f
    <3> QED BY <2>2, <3>1
  <2>4. f = [n \in 0 .. k + 1 |-> IF n = 0 THEN h ELSE int_free(f[n - 1], s[n])]
    BY <2>3
  <2> HIDE DEF f
  <2>5. \E x : Is(x, k + 1)
    BY <2>4
  <2>6. k + 1 \in Nat
    OBVIOUS
  <2> HIDE DEF Is
  <2> QED BY <2>5, <2>6
<1>3. \E g : Is(g, N)
  <2>1. Nat \subseteq T
    <3> HIDE DEF T
    <3> QED BY <1>1, <1>2, Induction
  <2>2. N \in T BY <2>1
  <2> QED BY <2>2
<1> DEFINE m == CHOOSE g : g = [n \in 0 .. Len(s) |-> IF n = 0 THEN h ELSE int_free(g[n - 1], s[n])]
<1>4. m = [n \in 0 .. N |-> IF n = 0 THEN h ELSE int_free(m[n - 1], s[n])]
  BY <1>3
<1>5. FreeAll(h, s) = m[N]
  BY DEF FreeAll
<1> HIDE DEF m
<1>6. m[0] = h
  <2>1. 0 \in 0 .. N OBVIOUS
  <2> QED BY <2>1, <1>4
<1>7. \A n \in 1 .. N : m[n] = int_free(m[n - 1], s[n])
  <2>1. \A n \in 1 .. N : n \in 0 .. N /\ n # 0 OBVIOUS
  <2> HIDE DEF N
  <2> QED BY ONLY <2>1, <1>4
<1> QED BY <1>5, <1>6, <1>7

\* The chunks of a list are freed one after the other.
LEMMA FreedAll ==
  ASSUME NEW h, NEW u, NEW t, HeapOK(h, u, {}, t),
         NEW s, IsList(s), Range(s) \subseteq DOMAIN u, \A q \in Range(s) : ~u[q].mmapped,
         NEW h2, h2 = FreeAll(h, s), NEW u2, u2 = WithoutAll(u, Range(s))
  PROVE  HeapOK(h2, u2, {}, t) /\ Same(h, h2, FreeFields) /\ (h.abort => h2.abort)
<1> DEFINE N == Len(s)
<1>1. s \in Seq(Nat) /\ N \in Nat
  BY DEF IsList
<1>2. PICK m : /\ m[0] = h
               /\ \A n \in 1 .. N : m[n] = int_free(m[n - 1], s[n])
               /\ h2 = m[N]
  BY <1>1, FreeAllDef
<1>3. /\ \A n \in 1 .. N : s[n] \in Range(s)
      /\ Range(s) = Upto(s, N)
  <2>1. \A x : x \in Range(s) <=> \E n \in 1 .. N : s[n] = x
    BY <1>1, InRange
  <2> QED BY <2>1 DEF Upto
<1>4. \A i, j \in 1 .. N : s[i] = s[j] => i = j
  BY DEF IsList, Injective
<1> DEFINE v(n) == WithoutAll(u, Upto(s, n))
           P(n) == /\ HeapOK(m[n], v(n), {}, t)
                   /\ Same(h, m[n], FreeFields) /\ (h.abort => m[n].abort)
           T == {n \in Nat : n <= N => P(n)}
<1> HIDE DEF N
<1>5. 0 \in T
  <2>1. Upto(s, 0) = {} BY DEF Upto
  <2>2. DOMAIN v(0) = DOMAIN u /\ \A x \in DOMAIN u : v(0)[x] = u[x]
    BY <2>1 DEF WithoutAll
  <2> HIDE DEF v
  <2>3. HeapOK(h, v(0), {}, t)
    BY ONLY HeapOK(h, u, {}, t), <2>2, SameHeld
  <2>4. Same(h, h, FreeFields)
    BY DEF HeapOK, Same
  <2>5. P(0) BY <1>2, <2>3, <2>4
  <2> QED BY <2>5
<1>6. ASSUME NEW n \in Nat, n \in T PROVE n + 1 \in T
  <2>1. CASE ~(n + 1 <= N)
    <3>1. n + 1 \in Nat OBVIOUS
    <3> HIDE DEF P
    <3> QED BY <2>1, <3>1
  <2>2. CASE n + 1 <= N
    <3>1. n <= N /\ n + 1 \in 1 .. N /\ n + 1 \in Nat /\ n + 1 - 1 = n
      BY <1>1, <2>2
    <3>2. P(n) BY <1>6, <3>1
    <3> DEFINE p == s[n + 1]
               uA == Without(v(n), p)
    <3>3. p \in Range(s) /\ p \in DOMAIN u /\ ~u[p].mmapped
      BY <1>3, <3>1
    <3>4. p \notin Upto(s, n)
      <4>1. \A i \in 1 .. n : i \in 1 .. N /\ i # n + 1 BY <1>1, <3>1
      <4>2. \A i \in 1 .. n : s[i] # s[n + 1] BY <1>4, <3>1, <4>1
      <4> QED BY <4>2 DEF Upto
    <3>5. p \in DOMAIN v(n) /\ ~v(n)[p].mmapped
      BY <3>3, <3>4 DEF WithoutAll
    <3>6. m[n + 1] = int_free(m[n], p)
      BY <1>2, <3>1
    <3>7. HeapOK(m[n], v(n), {}, t) /\ Same(h, m[n], FreeFields) /\ (h.abort => m[n].abort)
      BY <3>2
    <3>8. Upto(s, n + 1) = Upto(s, n) \cup {p}
      <4>1. \A i : i \in 1 .. n + 1 <=> i \in 1 .. n \/ i = n + 1 BY <3>1
      <4> QED BY <4>1 DEF Upto
    <3>9. DOMAIN v(n + 1) = DOMAIN uA /\ \A x \in DOMAIN uA : v(n + 1)[x] = uA[x]
      BY <3>8 DEF WithoutAll, Without
    <3>10. uA = Without(v(n), p) OBVIOUS
    <3> HIDE DEF p, uA, v
    <3>11. /\ HeapOK(m[n + 1], uA, {}, t)
           /\ Same(m[n], m[n + 1], FreeFields) /\ (m[n].abort => m[n + 1].abort)
      BY ONLY <3>5, <3>6, <3>7, <3>10, Freed
    <3>12. HeapOK(m[n + 1], v(n + 1), {}, t)
      BY ONLY <3>9, <3>11, SameHeld
    <3>13. Same(h, m[n + 1], FreeFields) /\ (h.abort => m[n + 1].abort)
      BY ONLY <3>7, <3>11 DEF Same
    <3>14. P(n + 1) BY <3>12, <3>13
    <3> HIDE DEF P
    <3> QED BY <3>1, <3>14
  <2> QED BY <2>1, <2>2
<1>7. P(N)
  <2>1. Nat \subseteq T
    <3> HIDE DEF T
    <3> QED BY <1>5, <1>6, Induction
  <2>2. N \in T BY <1>1, <2>1
  <2>3. N <= N BY <1>1
  <2> HIDE DEF P
  <2> QED BY <2>2, <2>3
<1> QED BY <1>2, <1>3, <1>7 DEF N

\* A list of the cache is taken away.
LEMMA EmptiedEntry ==
  ASSUME NEW h, NEW u, NEW t, HeapOK(h, u, {}, t), NEW i, NEW s, s = At(h.entries, i),
         NEW h2, Same(h, h2, {"entries"}), h2.entries = Put(h.entries, i, << >>)
  PROVE  /\ HeapOK(h2, Taking(h, u, Range(s)), {}, t)
         /\ IsList(s) /\ Range(s) \subseteq Listed(h)
<1>1. /\ Proper(h.fast) /\ Proper(h.entries)
      /\ Members(h.fast) \cap Members(h.entries) = {}
      /\ Indexed(h.hdr, h.fast, h.entries)
      /\ \A x : x \in Listed(h) <=> x \in Members(h.fast) \/ x \in Members(h.entries)
      /\ Rec(h)
  BY ListFacts
<1>2. Same(h, h2, {"entries"}) /\ h2.entries = Put(h.entries, i, << >>)
  OBVIOUS
<1>3. IsList(s) /\ Range(s) \subseteq Members(h.entries)
  BY <1>1, AtList DEF On
<1>4. /\ IsList(<< >>) /\ Range(<< >>) = {} /\ Range(<< >>) \subseteq Range(At(h.entries, i))
      /\ Len(<< >>) <= Len(At(h.entries, i))
  <2>1. At(h.entries, i) \in Seq(Nat) BY ONLY <1>1, AtList DEF IsList
  <2>2. Len(At(h.entries, i)) \in Nat BY ONLY <2>1, InRange
  <2> QED BY ONLY <2>2, NoList
<1>5. Lost(h.entries, h2.entries, i, << >>)
  BY ONLY <1>1, <1>2, <1>4, Loses
<1>6. Indexed(h.hdr, h.fast, h2.entries)
  BY ONLY <1>1, <1>4, <1>5, EntriesLost
<1>7. h2.hdr = h.hdr /\ h2.fast = h.fast
  BY ONLY <1>2 DEF Same, Fields
<1>8. Proper(h2.entries) /\ \A x : x \in Members(h2.entries) <=> x \in Members(h.entries) /\ x \notin Range(s)
  <2>1. Proper(h2.entries) BY ONLY <1>5 DEF Lost
  <2>2. \A x : x \in Members(h2.entries) <=> x \in Members(h.entries) /\ (x \in Range(s) => x \in Range(<< >>))
    BY ONLY <1>5, s = At(h.entries, i) DEF Lost
  <2> QED BY ONLY <2>1, <2>2, <1>4
<1>9. /\ Members(h2.fast) \cap Members(h2.entries) = {}
      /\ \A x : x \in Listed(h2) <=> x \in Listed(h) /\ x \notin Range(s)
      /\ Range(s) \subseteq Listed(h)
  BY ONLY <1>1, <1>3, <1>7, <1>8 DEF Listed
<1>10. Same(h, h2, Loose \cup {"fast", "entries"})
  BY ONLY <1>2 DEF Same, Fields
<1>11. HeapOK(h2, Taking(h, u, Range(s)), {}, t)
  BY ONLY <1>1, <1>6, <1>7, <1>8, <1>9, <1>10, HeapOK(h, u, {}, t), Unshelved
<1> QED BY <1>2, <1>3, <1>9, <1>11

\* The chunks of one list of the cache are freed.
LEMMA FreedEntries ==
  ASSUME NEW h, NEW u, NEW t, HeapOK(h, u, {}, t), NEW i, NEW h2, h2 = free_entries(h, i)
  PROVE  HeapOK(h2, u, {}, t) /\ Same(h, h2, FreeFields) /\ (h.abort => h2.abort)
<1> DEFINE s == At(h.entries, i)
           hA == [h EXCEPT !.entries = Put(@, i, << >>)]
           uA == Taking(h, u, Range(s))
           uB == WithoutAll(uA, Range(s))
<1>1. h2 = FreeAll(hA, s) BY DEF free_entries
<1>2. s = At(h.entries, i) /\ hA = [h EXCEPT !.entries = Put(@, i, << >>)] /\ uA = Taking(h, u, Range(s))
      /\ uB = WithoutAll(uA, Range(s))
  OBVIOUS
<1> HIDE DEF s, hA, uA, uB
<1>a. Rec(h) BY DEF HeapOK
<1>b. Same(h, hA, {"entries"}) /\ hA.entries = Put(h.entries, i, << >>)
  BY ONLY <1>2, <1>a DEF Rec, Same, Fields
<1>c. s = At(h.entries, i) /\ uA = Taking(h, u, Range(s)) BY <1>2
<1>3. HeapOK(hA, uA, {}, t) /\ IsList(s) /\ Range(s) \subseteq Listed(h)
  <2>1. HeapOK(hA, Taking(h, u, Range(s)), {}, t) /\ IsList(s) /\ Range(s) \subseteq Listed(h)
    BY ONLY <1>b, <1>c, HeapOK(h, u, {}, t), EmptiedEntry
  <2> QED BY ONLY <2>1, <1>c
<1>4. /\ DOMAIN uA = DOMAIN u \cup Range(s)
      /\ \A q \in Range(s) : ~uA[q].mmapped
      /\ \A q \in DOMAIN u : q \notin Range(s) => uA[q] = u[q]
  BY ONLY <1>2 DEF Taking, Plain
<1>5. \A q \in DOMAIN u : q \notin Range(s)
  <2>1. \A q \in DOMAIN u : q \notin Listed(h) BY DEF HeapOK, Owned
  <2> QED BY ONLY <1>3, <2>1
<1>6. Range(s) \subseteq DOMAIN uA BY ONLY <1>4
<1>7. HeapOK(h2, uB, {}, t) /\ Same(hA, h2, FreeFields) /\ (hA.abort => h2.abort)
  <2>1. \A q \in Range(s) : ~uA[q].mmapped BY <1>4
  <2>2. uB = WithoutAll(uA, Range(s)) BY <1>2
  <2> QED BY ONLY <1>1, <1>3, <1>6, <2>1, <2>2, FreedAll
<1>8. DOMAIN u = DOMAIN uB /\ \A q \in DOMAIN uB : u[q] = uB[q]
  BY ONLY <1>2, <1>4, <1>5 DEF WithoutAll
<1>9. HeapOK(h2, u, {}, t)
  BY ONLY <1>7, <1>8, SameHeld
<1>10. Same(h, h2, FreeFields) /\ (h.abort => h2.abort)
  BY ONLY <1>b, <1>7 DEF Same, Fields, FreeFields
<1> QED BY <1>9, <1>10

\* free: of a mapping, or of a chunk of the heap.
LEMMA LibcFreed ==
  ASSUME NEW h, NEW u, NEW t, HeapOK(h, u, {}, t), NEW p \in DOMAIN u,
         NEW h2, h2 = libc_free(h, p)
  PROVE  HeapOK(h2, Without(u, p), {}, t)
<1> DEFINE g == raise_threshold(h, chunksize(h, p))
           v == Without(u, p)
<1>1. u[p].mmapped = h.hdr[p].mmapped
  BY ONLY HeapOK(h, u, {}, t), p \in DOMAIN u DEF HeapOK, Owned, Face
<1>2. CASE h.hdr[p].mmapped
  <2>1. h2 = munmap_chunk(g, p)
    BY ONLY <1>2, h2 = libc_free(h, p) DEF libc_free
  <2>2. Same(h, g, Loose)
    BY ONLY HeapOK(h, u, {}, t) DEF HeapOK, Rec, Same, Fields, Loose, raise_threshold
  <2>3. v = Without(u, p)
    OBVIOUS
  <2> HIDE DEF g, v
  <2>4. HeapOK(g, u, {}, t)
    BY ONLY HeapOK(h, u, {}, t), <2>2, SameHeap
  <2>5. HeapOK(h2, v, {}, t)
    BY ONLY <1>1, <1>2, <2>1, <2>3, <2>4, p \in DOMAIN u, Unmapped
  <2> QED BY ONLY <2>3, <2>5
<1>3. CASE ~h.hdr[p].mmapped
  <2>1. h2 = int_free(h, p)
    BY ONLY <1>3, h2 = libc_free(h, p) DEF libc_free
  <2> QED BY ONLY <1>1, <1>3, <2>1, HeapOK(h, u, {}, t), p \in DOMAIN u, Freed
<1> QED BY <1>2, <1>3

\* One list of the cache after the other is freed.
LEMMA ShutdownDef ==
  ASSUME NEW h
  PROVE  \E m : /\ m[0] = [h EXCEPT !.tcache = SHUT]
                /\ \A n \in 1 .. TcacheBins : m[n] = free_entries(m[n - 1], n - 1)
                /\ tcache_thread_shutdown(h) = libc_free(m[TcacheBins], h.tcache)
<1> DEFINE N == TcacheBins
           Is(g, k) == g = [n \in 0 .. k |-> IF n = 0 THEN [h EXCEPT !.tcache = SHUT] ELSE free_entries(g[n - 1], n - 1)]
           T == {k \in Nat : \E g : Is(g, k)}
<1>0. N \in Nat
  BY System
<1>1. 0 \in T
  <2> DEFINE m0 == [n \in 0 .. 0 |-> [h EXCEPT !.tcache = SHUT]]
  <2>1. Is(m0, 0) OBVIOUS
  <2> QED BY <2>1
<1>2. ASSUME NEW k \in Nat, k \in T PROVE k + 1 \in T
  <2>1. PICK g : Is(g, k) BY <1>2
  <2> DEFINE f == [n \in 0 .. k + 1 |-> IF n = 0 THEN [h EXCEPT !.tcache = SHUT] ELSE free_entries(g[n - 1], n - 1)]
  <2>2. \A n \in 0 .. k : f[n] = g[n]
    <3>1. \A n \in 0 .. k : g[n] = IF n = 0 THEN [h EXCEPT !.tcache = SHUT] ELSE free_entries(g[n - 1], n - 1) BY <2>1
    <3>2. \A n \in 0 .. k : n \in 0 .. k + 1 OBVIOUS
    <3>3. \A n \in 0 .. k + 1 : f[n] = IF n = 0 THEN [h EXCEPT !.tcache = SHUT] ELSE free_entries(g[n - 1], n - 1) OBVIOUS
    <3> HIDE DEF f
    <3> QED BY <3>1, <3>2, <3>3
  <2>3. \A n \in 0 .. k + 1 : n # 0 => f[n - 1] = g[n - 1]
    <3>1. \A n \in 0 .. k + 1 : n # 0 => n - 1 \in 0 .. k OBVIOUS
    <3> HIDE DEF f
    <3> QED BY <2>2, <3>1
  <2>4. f = [n \in 0 .. k + 1 |-> IF n = 0 THEN [h EXCEPT !.tcache = SHUT] ELSE free_entries(f[n - 1], n - 1)]
    BY <2>3
  <2> HIDE DEF f
  <2>5. \E x : Is(x, k + 1)
    BY <2>4
  <2>6. k + 1 \in Nat
    OBVIOUS
  <2> HIDE DEF Is
  <2> QED BY <2>5, <2>6
<1>3. \E g : Is(g, N)
  <2>1. Nat \subseteq T
    <3> HIDE DEF T
    <3> QED BY <1>1, <1>2, Induction
  <2>2. N \in T BY <1>0, <2>1
  <2> QED BY <2>2
<1> DEFINE m == CHOOSE g : g = [n \in 0 .. TcacheBins |-> IF n = 0 THEN [h EXCEPT !.tcache = SHUT] ELSE free_entries(g[n - 1], n - 1)]
<1>4. m = [n \in 0 .. N |-> IF n = 0 THEN [h EXCEPT !.tcache = SHUT] ELSE free_entries(m[n - 1], n - 1)]
  BY <1>3
<1>5. tcache_thread_shutdown(h) = libc_free(m[N], h.tcache)
  BY DEF tcache_thread_shutdown
<1> HIDE DEF m
<1>6. m[0] = [h EXCEPT !.tcache = SHUT]
  <2>1. 0 \in 0 .. N BY <1>0
  <2> QED BY <2>1, <1>4
<1>7. \A n \in 1 .. N : m[n] = free_entries(m[n - 1], n - 1)
  <2>1. \A n \in 1 .. N : n \in 0 .. N /\ n # 0 BY <1>0
  <2> HIDE DEF N
  <2> QED BY ONLY <2>1, <1>4
<1> QED BY <1>5, <1>6, <1>7

\* A thread that exits gives its cache back, and the tcache itself.
LEMMA ShutDown ==
  ASSUME NEW h, NEW u, NEW t, HeapOK(h, u, {}, t), h.tcache \in DOMAIN u,
         NEW h2, h2 = tcache_thread_shutdown(h), NEW u2, u2 = Without(u, h.tcache)
  PROVE  HeapOK(h2, u2, {}, SHUT)
<1>1. PICK m : /\ m[0] = [h EXCEPT !.tcache = SHUT]
               /\ \A n \in 1 .. TcacheBins : m[n] = free_entries(m[n - 1], n - 1)
               /\ tcache_thread_shutdown(h) = libc_free(m[TcacheBins], h.tcache)
  BY ShutdownDef
<1> DEFINE S == {"tcache"} \cup FreeFields
           P(n) == HeapOK(m[n], u, {}, SHUT) /\ Same(h, m[n], S) /\ (h.abort => m[n].abort)
           T == {n \in Nat : P(n)}
<1>2. 0 \in T
  <2> DEFINE g == m[0]
  <2>1. g = [h EXCEPT !.tcache = SHUT] /\ Rec(h) BY <1>1 DEF HeapOK
  <2> HIDE DEF g
  <2>2. Same(h, g, {"tcache"}) /\ g.tcache = SHUT /\ g.abort = h.abort BY ONLY <2>1 DEF Rec, Same, Fields
  <2>3. HeapOK(g, u, {}, SHUT)
    <3>1. Bounds(h) /\ Binned(h.hdr, h.bins, h.heads, h.binmap) BY DEF HeapOK
    <3>2. g.binmap \subseteq 2 .. NBINS - 2 /\ g.top_pad \in Nat /\ g.brk \in h.brk .. HeapEnd
      <4>1. g.binmap = h.binmap /\ g.top_pad = h.top_pad /\ g.brk = h.brk BY ONLY <2>2 DEF Same, Fields
      <4>2. h.binmap \subseteq 2 .. NBINS - 2 /\ h.top_pad \in Nat /\ h.brk \in BrkStart .. HeapEnd
        BY ONLY <3>1 DEF Bounds, Binned
      <4>3. BrkStart \in Nat /\ HeapEnd \in Nat BY System
      <4>4. h.brk \in h.brk .. HeapEnd BY ONLY <4>2, <4>3
      <4> QED BY ONLY <4>1, <4>2, <4>4
    <3>3. Same(h, g, Loose \cup {"binmap", "tcache", "top_pad", "brk"}) BY ONLY <2>2 DEF Same
    <3>4. SHUT = g.tcache BY ONLY <2>2
    <3> QED BY ONLY <3>2, <3>3, <3>4, HeapOK(h, u, {}, t), Adjusted
  <2>4. Same(h, g, S) BY ONLY <2>2 DEF Same
  <2>5. P(0) BY ONLY <2>2, <2>3, <2>4 DEF g
  <2> HIDE DEF P
  <2> QED BY ONLY <2>5
<1>3. \A n \in Nat : n < TcacheBins /\ n \in T => n + 1 \in T
  <2> SUFFICES ASSUME NEW n \in Nat, n < TcacheBins, n \in T PROVE n + 1 \in T OBVIOUS
  <2>1. TcacheBins \in Nat BY System
  <2>2. n + 1 \in 1 .. TcacheBins /\ n + 1 - 1 = n /\ n + 1 \in Nat BY <2>1
  <2>3. m[n + 1] = free_entries(m[n], n) BY ONLY <1>1, <2>2
  <2>4. HeapOK(m[n], u, {}, SHUT) /\ Same(h, m[n], S) /\ (h.abort => m[n].abort) OBVIOUS
  <2> HIDE DEF S
  <2>5. HeapOK(m[n + 1], u, {}, SHUT) /\ Same(m[n], m[n + 1], FreeFields) /\ (m[n].abort => m[n + 1].abort)
    BY ONLY <2>3, <2>4, FreedEntries
  <2>6. Same(h, m[n + 1], S) BY ONLY <2>4, <2>5 DEF S, Same
  <2>7. P(n + 1) BY ONLY <2>4, <2>5, <2>6
  <2> HIDE DEF P
  <2> QED BY ONLY <2>2, <2>7
<1>4. TcacheBins \in T
  <2>1. TcacheBins \in Nat BY System
  <2> HIDE DEF T
  <2> QED BY ONLY <2>1, <1>2, <1>3, Reached
<1> DEFINE g == m[TcacheBins]
<1>5. HeapOK(g, u, {}, SHUT) /\ Same(h, g, S) /\ (h.abort => g.abort) BY <1>4
<1>6. h2 = libc_free(g, h.tcache) BY <1>1
<1> HIDE DEF g, S
<1>7. HeapOK(h2, Without(u, h.tcache), {}, SHUT)
  BY ONLY <1>5, <1>6, h.tcache \in DOMAIN u, LibcFreed
<1> QED BY ONLY <1>7, u2 = Without(u, h.tcache)

----------------------------------------------------------------------------
(* The invariant of the program: a call, the blocks l that are in use, and  *)
(* the headers u of the chunks that nobody else has.                        *)

Inner == {"entry", "unsorted", "scan", "top", "sysmalloc", "extended"}
Asking == Inner \cup {"got"}
CallFields ==
  {"pc", "op", "req", "align", "old", "nb", "init", "tried", "cached", "seen", "iters",
   "oldtop", "oldtopsize", "dirty", "clear", "copied", "p"}

\* The blocks in use, with the one that a call returns for the old one.
Blocks(c, l) ==
  IF c.pc = "return" /\ c.p # NIL THEN (DOMAIN l \ {c.old}) \cup {c.p} ELSE DOMAIN l

\* What is in somebody's hands: those, what _int_malloc got, what is to be freed, the tcache.
HeldBy(c, l, t) ==
  Blocks(c, l)
    \cup {q \in {c.p} : c.pc = "got" /\ q # NIL}
    \cup {q \in {c.old} : c.op = "free" /\ c.pc # "return"}
    \cup {q \in {t} : q # NONE /\ q # SHUT}

\* The size that _int_malloc looks for.
Wanted(c) ==
  IF c.init THEN request2size(TcacheStruct)
  ELSE IF c.op = "memalign" THEN request2size(request2size(c.req) + c.align + MINSIZE)
  ELSE request2size(c.req)

usable(f) == f.size - (IF f.mmapped THEN CHUNK_HDR_SZ ELSE SIZE_SZ)

CallTyped(c) ==
  /\ DOMAIN c = CallFields
  /\ c.pc \in {"idle", "start", "return"} \cup Asking
  /\ c.op \in {"none", "malloc", "calloc", "memalign", "realloc", "recopy", "free"}
  /\ c.op = "none" <=> c.pc = "idle"
  /\ c.req \in Nat /\ c.align \in Nat /\ c.align > 0 /\ aligned_OK(c.align)
  /\ c.op # "memalign" => c.align = MALLOC_ALIGNMENT
  /\ c.init \in BOOLEAN /\ c.cached \in BOOLEAN

\* Inside _int_malloc, E the lists of the cache, z the size of top.
Underway(c, t, E, z) ==
  /\ c.pc \in Inner => c.nb = Wanted(c)
  /\ c.pc \in Asking => c.init \/ c.op # "free"
  /\ c.init => c.pc \in Asking /\ t = NONE
  /\ c.pc \in Inner /\ c.cached => c.pc = "unsorted" /\ csize2tidx(c.nb) \in E
  /\ c.pc = "sysmalloc" => z < c.nb + MINSIZE

\* The block that is freed or resized.
OldBlock(c, l, u, t) ==
  /\ c.op \in {"realloc", "recopy"} => c.old \in DOMAIN l
  /\ c.op = "free" /\ c.pc # "return" => c.old \notin DOMAIN l /\ c.old # t
  /\ c.op \notin {"free", "realloc", "recopy"} => c.old = NIL
  /\ c.op = "realloc" /\ c.pc \in Asking =>
       ~u[c.old].mmapped /\ (c.init \/ u[c.old].size < request2size(c.req))
  /\ c.op = "realloc" /\ c.pc = "start" /\ u[c.old].mmapped => c.nb = 0
  /\ c.op = "recopy" /\ c.pc # "return" =>
       u[c.old].mmapped /\ u[c.old].size - SIZE_SZ < request2size(c.req)

\* A chunk of the heap is less than MINSIZE too large.
Fits(f, n) ==
  IF f.mmapped THEN f.size >= n + SIZE_SZ
  ELSE f.size >= n /\ f.size < n + MINSIZE

NewChunk(c, l, u, t) ==
  c.pc = "got" /\ c.p # NIL =>
    /\ c.p \notin DOMAIN l /\ c.p # t /\ (c.op = "free" => c.p # c.old)
    /\ Fits(u[c.p], Wanted(c))

InUse(c, l, u, t) ==
  /\ DOMAIN l \subseteq Addresses /\ t \notin DOMAIN l
  /\ \A q \in DOMAIN l :
       /\ l[q] \in Nat
       /\ (c.pc = "return" /\ c.p # NIL /\ q = c.old) \/ usable(u[q]) >= l[q]

Copies(c) == c.op = "recopy" \/ (c.op = "realloc" /\ c.p # c.old /\ c.nb # 0)

Served(c, l, u, t) ==
  c.pc = "return" /\ c.p # NIL =>
    /\ c.p # t /\ (c.p # c.old => c.p \notin DOMAIN l)
    /\ usable(u[c.p]) >= c.req
    /\ chunk2mem(c.p) % c.align = 0
    /\ ~u[c.p].mmapped => u[c.p].size <= request2size(c.req) + MINSIZE
    /\ Copies(c) => c.copied \in Min({l[c.old], c.req}) .. usable(u[c.p])

CallOK(c, l, u, t, E, z) ==
  /\ CallTyped(c)
  /\ Underway(c, t, E, z)
  /\ OldBlock(c, l, u, t)
  /\ NewChunk(c, l, u, t)
  /\ InUse(c, l, u, t)
  /\ Served(c, l, u, t)

State(h, c, l, u) ==
  /\ HeapOK(h, u, {}, h.tcache)
  /\ DOMAIN u = HeldBy(c, l, h.tcache)
  /\ CallOK(c, l, u, h.tcache, DOMAIN h.entries, h.hdr[h.top].size)

IInv ==
  /\ program \in Seq(SUBSET Requests)
  /\ \E u : State(heap, call, live, u)

\* c2 differs from c at most in the fields S.
SameCall(c, c2, S) == DOMAIN c2 = CallFields /\ \A f \in CallFields \ S : c2[f] = c[f]

\* _int_malloc looks for a size that a chunk can have.
LEMMA WantedSize ==
  ASSUME NEW c, CallTyped(c)
  PROVE  Wanted(c) \in ChunkSizes
<1>1. /\ c.req \in Nat /\ c.align \in Nat /\ MINSIZE \in Nat /\ TcacheStruct \in Nat
  BY Units, SystemAssumption, Zenon DEF CallTyped
<1>2. /\ request2size(TcacheStruct) \in ChunkSizes /\ request2size(c.req) \in ChunkSizes
  BY ONLY <1>1, RequestServed
<1>3. request2size(c.req) + c.align + MINSIZE \in Nat
  BY ONLY <1>1, <1>2 DEF ChunkSizes
<1>4. request2size(request2size(c.req) + c.align + MINSIZE) \in ChunkSizes
  BY ONLY <1>3, RequestServed
<1> QED BY ONLY <1>2, <1>4, Zenon DEF Wanted

\* The invariant, part by part.
LEMMA StateFacts ==
  ASSUME NEW h, NEW c, NEW l, NEW u, State(h, c, l, u)
  PROVE  /\ HeapOK(h, u, {}, h.tcache) /\ Rec(h)
         /\ DOMAIN u = HeldBy(c, l, h.tcache)
         /\ CallTyped(c) /\ DOMAIN c = CallFields
         /\ Underway(c, h.tcache, DOMAIN h.entries, h.hdr[h.top].size)
         /\ OldBlock(c, l, u, h.tcache) /\ NewChunk(c, l, u, h.tcache)
         /\ InUse(c, l, u, h.tcache) /\ Served(c, l, u, h.tcache)
BY Zenon DEF State, CallOK, CallTyped, HeapOK

\* _int_malloc goes on.
LEMMA Stays ==
  ASSUME NEW h, NEW c, NEW l, NEW u, State(h, c, l, u), c.pc \in Inner,
         NEW h2, HeapOK(h2, u, {}, h.tcache),
         NEW c2, SameCall(c, c2, {"pc", "cached", "seen", "iters"}),
         c2.pc \in Inner, c2.cached \in BOOLEAN,
         c2.cached => c2.pc = "unsorted" /\ csize2tidx(c.nb) \in DOMAIN h2.entries,
         c2.pc = "sysmalloc" => h2.hdr[h2.top].size < c.nb + MINSIZE
  PROVE  State(h2, c2, l, u)
<1> DEFINE t == h.tcache
<1>1. /\ DOMAIN c2 = CallFields /\ c2.op = c.op /\ c2.req = c.req /\ c2.align = c.align
      /\ c2.old = c.old /\ c2.nb = c.nb /\ c2.init = c.init /\ c2.p = c.p
  BY DEF SameCall, CallFields
<1>2. /\ DOMAIN u = HeldBy(c, l, t) /\ CallTyped(c)
      /\ Underway(c, t, DOMAIN h.entries, h.hdr[h.top].size)
      /\ OldBlock(c, l, u, t) /\ InUse(c, l, u, t)
  BY ONLY State(h, c, l, u), StateFacts
<1>3. h2.tcache = t
  BY ONLY HeapOK(h2, u, {}, h.tcache) DEF HeapOK
<1>4. HeldBy(c2, l, t) = HeldBy(c, l, t)
  BY ONLY <1>1, c.pc \in Inner, c2.pc \in Inner DEF HeldBy, Blocks, Inner
<1>5. CallTyped(c2)
  BY ONLY <1>1, <1>2, c2.pc \in Inner, c.pc \in Inner, c2.cached \in BOOLEAN DEF CallTyped, Asking, Inner
<1>6. Wanted(c2) = Wanted(c)
  BY ONLY <1>1 DEF Wanted
<1>7. Underway(c2, t, DOMAIN h2.entries, h2.hdr[h2.top].size)
  BY ONLY <1>1, <1>2, <1>6, c2.pc \in Inner, c.pc \in Inner,
     c2.cached => c2.pc = "unsorted" /\ csize2tidx(c.nb) \in DOMAIN h2.entries,
     c2.pc = "sysmalloc" => h2.hdr[h2.top].size < c.nb + MINSIZE
  DEF Underway, Asking, Inner
<1>8. OldBlock(c2, l, u, t)
  BY ONLY <1>1, <1>2, c2.pc \in Inner, c.pc \in Inner DEF OldBlock, Asking, Inner
<1>9. InUse(c2, l, u, t)
  BY ONLY <1>1, <1>2, c2.pc \in Inner, c.pc \in Inner DEF InUse, Inner
<1>10. NewChunk(c2, l, u, t) /\ Served(c2, l, u, t)
  BY ONLY c2.pc \in Inner DEF NewChunk, Served, Inner
<1> QED
  BY ONLY <1>2, <1>3, <1>4, <1>5, <1>7, <1>8, <1>9, <1>10, HeapOK(h2, u, {}, h.tcache), Zenon
  DEF State, CallOK

\* _int_malloc starts, or refuses.
LEMMA Enters ==
  ASSUME NEW h, NEW c, NEW l, NEW u, State(h, c, l, u), c.pc = "start",
         NEW h2, HeapOK(h2, u, {}, h.tcache),
         NEW c2, SameCall(c, c2, {"pc", "nb", "cached", "seen", "iters", "p", "init", "tried",
                                  "oldtop", "oldtopsize", "dirty"}),
         c2.init \in BOOLEAN, c2.init => h.tcache = NONE, c2.init \/ c.op # "free",
         \/ c2.pc = "entry" /\ c2.nb = Wanted(c2) /\ c2.cached = FALSE
         \/ c2.pc = "got" /\ c2.p = NIL /\ c2.cached = c.cached,
         c.op = "realloc" => ~u[c.old].mmapped /\ (c2.init \/ u[c.old].size < request2size(c.req))
  PROVE  State(h2, c2, l, u)
<1> DEFINE t == h.tcache
<1>1. /\ DOMAIN c2 = CallFields /\ c2.op = c.op /\ c2.req = c.req /\ c2.align = c.align
      /\ c2.old = c.old
  BY DEF SameCall, CallFields
<1>2. /\ DOMAIN u = HeldBy(c, l, t) /\ CallTyped(c)
      /\ Underway(c, t, DOMAIN h.entries, h.hdr[h.top].size)
      /\ OldBlock(c, l, u, t) /\ InUse(c, l, u, t)
  BY ONLY State(h, c, l, u), StateFacts
<1>3. h2.tcache = t
  BY ONLY HeapOK(h2, u, {}, h.tcache) DEF HeapOK
<1>p. c2.pc = "entry" \/ (c2.pc = "got" /\ c2.p = NIL)
  OBVIOUS
<1>4. HeldBy(c2, l, t) = HeldBy(c, l, t)
  BY ONLY <1>1, c.pc = "start", <1>p DEF HeldBy, Blocks
<1>5. CallTyped(c2)
  <2>1. c2.cached \in BOOLEAN
    BY <1>2 DEF CallTyped
  <2> QED BY ONLY <1>1, <1>2, <2>1, c.pc = "start", <1>p, c2.init \in BOOLEAN DEF CallTyped, Asking, Inner
<1>7. Underway(c2, t, DOMAIN h2.entries, h2.hdr[h2.top].size)
  <2>1. c2.pc \in Inner => c2.pc = "entry" /\ c2.nb = Wanted(c2) /\ c2.cached = FALSE
    BY DEF Inner
  <2> QED BY ONLY <1>1, <2>1, <1>p, c2.init => h.tcache = NONE, c2.init \/ c.op # "free"
          DEF Underway, Asking, Inner
<1>8. OldBlock(c2, l, u, t)
  BY ONLY <1>1, <1>2, <1>p, c.pc = "start",
     c.op = "realloc" => ~u[c.old].mmapped /\ (c2.init \/ u[c.old].size < request2size(c.req))
  DEF OldBlock, Asking, Inner
<1>9. InUse(c2, l, u, t)
  BY ONLY <1>1, <1>2, <1>p, c.pc = "start" DEF InUse
<1>10. NewChunk(c2, l, u, t) /\ Served(c2, l, u, t)
  BY ONLY <1>p DEF NewChunk, Served
<1> QED
  BY ONLY <1>2, <1>3, <1>4, <1>5, <1>7, <1>8, <1>9, <1>10, HeapOK(h2, u, {}, h.tcache), Zenon
  DEF State, CallOK

\* u2 is u and the chunk p.
Adds(u, u2, p) ==
  /\ p \notin DOMAIN u /\ p # NIL /\ p \in Nat
  /\ DOMAIN u2 = DOMAIN u \cup {p}
  /\ \A q \in DOMAIN u : u2[q] = u[q]

\* _int_malloc is done.
LEMMA Gets ==
  ASSUME NEW h, NEW c, NEW l, NEW u, State(h, c, l, u),
         c.pc \in Inner \/ (c.pc = "start" /\ c.op \in {"malloc", "recopy"}),
         NEW h2, NEW u2, HeapOK(h2, u2, {}, h.tcache),
         NEW c2, SameCall(c, c2, {"pc", "p"}), c2.pc = "got",
         \/ c2.p = NIL /\ u2 = u
         \/ Adds(u, u2, c2.p) /\ Fits(u2[c2.p], Wanted(c))
  PROVE  State(h2, c2, l, u2)
<1> DEFINE t == h.tcache
           p == c2.p
<1>1. /\ DOMAIN c2 = CallFields /\ c2.op = c.op /\ c2.req = c.req /\ c2.align = c.align
      /\ c2.old = c.old /\ c2.nb = c.nb /\ c2.init = c.init /\ c2.cached = c.cached
  BY DEF SameCall, CallFields
<1>2. /\ DOMAIN u = HeldBy(c, l, t) /\ CallTyped(c)
      /\ Underway(c, t, DOMAIN h.entries, h.hdr[h.top].size)
      /\ OldBlock(c, l, u, t) /\ InUse(c, l, u, t)
  BY ONLY State(h, c, l, u), StateFacts
<1>3. h2.tcache = t
  BY ONLY HeapOK(h2, u2, {}, h.tcache) DEF HeapOK
<1>p. c.pc # "got" /\ c.pc # "return" /\ c.pc # "idle" /\ (c.pc = "start" => c.op # "realloc")
  BY DEF Inner
<1>h. DOMAIN u = DOMAIN l \cup {q \in {c.old} : c.op = "free"} \cup {q \in {t} : q # NONE /\ q # SHUT}
  BY ONLY <1>2, <1>p DEF HeldBy, Blocks
<1>4. DOMAIN u2 = HeldBy(c2, l, t)
  <2>1. HeldBy(c2, l, t) = DOMAIN u \cup {q \in {p} : q # NIL}
    BY ONLY <1>1, <1>h, c2.pc = "got" DEF HeldBy, Blocks
  <2>2. p = NIL \/ (p # NIL /\ DOMAIN u2 = DOMAIN u \cup {p})
    BY DEF Adds
  <2>3. p = NIL => u2 = u
    BY DEF Adds
  <2> QED BY ONLY <2>1, <2>2, <2>3
<1>s. \A q \in DOMAIN u : u2[q] = u[q]
  BY DEF Adds
<1>5. CallTyped(c2)
  BY ONLY <1>1, <1>2, <1>p, c2.pc = "got" DEF CallTyped, Asking, Inner
<1>6. Wanted(c2) = Wanted(c)
  BY ONLY <1>1 DEF Wanted
<1>7. Underway(c2, t, DOMAIN h2.entries, h2.hdr[h2.top].size)
  <2>1. c.pc = "start" => ~c.init /\ c.op # "free"
    BY ONLY <1>2, c.pc \in Inner \/ (c.pc = "start" /\ c.op \in {"malloc", "recopy"})
    DEF Underway, Asking, Inner, CallTyped
  <2>2. c.pc # "start" => c.pc \in Inner
    OBVIOUS
  <2> QED BY ONLY <1>1, <1>2, <2>1, <2>2, c2.pc = "got" DEF Underway, Asking, Inner
<1>i. DOMAIN l \subseteq DOMAIN u
  BY ONLY <1>h
<1>8. OldBlock(c2, l, u2, t)
  <2>1. c.op \in {"realloc", "recopy"} => u2[c.old] = u[c.old]
    BY ONLY <1>2, <1>s, <1>i DEF OldBlock
  <2>2. c.pc # "start" => c.pc \in Asking
    BY DEF Asking
  <2> QED BY ONLY <1>1, <1>2, <1>p, <2>1, <2>2, c2.pc = "got" DEF OldBlock
<1>9. InUse(c2, l, u2, t)
  <2>1. \A q \in DOMAIN l : u2[q] = u[q]
    BY ONLY <1>i, <1>s
  <2> QED BY ONLY <1>2, <1>p, <2>1, c2.pc = "got" DEF InUse
<1>10. NewChunk(c2, l, u2, t)
  <2>1. SUFFICES ASSUME p # NIL
                 PROVE  p \notin DOMAIN l /\ p # t /\ (c2.op = "free" => p # c2.old) /\ Fits(u2[p], Wanted(c2))
    BY DEF NewChunk
  <2>2. p \notin DOMAIN u /\ p \in Nat /\ Fits(u2[p], Wanted(c))
    BY <2>1 DEF Adds
  <2>3. p # NONE /\ p # SHUT
    BY ONLY <2>2 DEF NONE, SHUT
  <2> QED BY ONLY <1>1, <1>6, <1>h, <2>2, <2>3
<1>11. Served(c2, l, u2, t)
  BY ONLY c2.pc = "got" DEF Served
<1> QED
  BY ONLY <1>3, <1>4, <1>5, <1>7, <1>8, <1>9, <1>10, <1>11, HeapOK(h2, u2, {}, h.tcache), Zenon
  DEF State, CallOK

\* The result of a call, and its arguments' blocks are what they were.
LEMMA Returns ==
  ASSUME NEW h, NEW c, NEW l, NEW u, State(h, c, l, u),
         c.pc \in {"start", "got"}, ~c.init,
         NEW h2, NEW u2, HeapOK(h2, u2, {}, h.tcache),
         NEW c2, SameCall(c, c2, {"pc", "p", "clear", "copied"}), c2.pc = "return",
         DOMAIN u2 = HeldBy(c2, l, h.tcache),
         \A q \in DOMAIN l : (c2.p # NIL /\ q = c.old) \/ u2[q] = u[q],
         Served(c2, l, u2, h.tcache)
  PROVE  State(h2, c2, l, u2)
<1> DEFINE t == h.tcache
<1>1. /\ DOMAIN c2 = CallFields /\ c2.op = c.op /\ c2.req = c.req /\ c2.align = c.align
      /\ c2.old = c.old /\ c2.nb = c.nb /\ c2.init = c.init /\ c2.cached = c.cached
  BY DEF SameCall, CallFields
<1>2. /\ CallTyped(c) /\ OldBlock(c, l, u, t) /\ InUse(c, l, u, t)
  BY ONLY State(h, c, l, u), StateFacts
<1>3. h2.tcache = t
  BY ONLY HeapOK(h2, u2, {}, h.tcache) DEF HeapOK
<1>p. c.pc # "return" /\ c.pc # "idle"
  OBVIOUS
<1>5. CallTyped(c2)
  BY ONLY <1>1, <1>2, <1>p, c2.pc = "return" DEF CallTyped, Asking, Inner
<1>7. Underway(c2, t, DOMAIN h2.entries, h2.hdr[h2.top].size)
  BY ONLY <1>1, ~c.init, c2.pc = "return" DEF Underway, Asking, Inner
<1>8. OldBlock(c2, l, u2, t)
  BY ONLY <1>1, <1>2, <1>p, c2.pc = "return" DEF OldBlock, Asking, Inner
<1>9. InUse(c2, l, u2, t)
  BY ONLY <1>1, <1>2, <1>p, c2.pc = "return",
     \A q \in DOMAIN l : (c2.p # NIL /\ q = c.old) \/ u2[q] = u[q] DEF InUse
<1>10. NewChunk(c2, l, u2, t)
  BY ONLY c2.pc = "return" DEF NewChunk
<1> QED
  BY ONLY <1>3, DOMAIN u2 = HeldBy(c2, l, h.tcache), <1>5, <1>7, <1>8, <1>9, <1>10,
     Served(c2, l, u2, h.tcache), HeapOK(h2, u2, {}, h.tcache), Zenon
  DEF State, CallOK

\* A call without a result changes no block.
LEMMA ReturnsNull ==
  ASSUME NEW h, NEW c, NEW l, NEW u, State(h, c, l, u),
         c.pc = "start" \/ (c.pc = "got" /\ c.p = NIL), ~c.init, c.op # "free",
         NEW h2, HeapOK(h2, u, {}, h.tcache),
         NEW c2, SameCall(c, c2, {"pc", "p", "clear", "copied"}), c2.pc = "return", c2.p = NIL
  PROVE  State(h2, c2, l, u)
<1>1. c2.op = c.op /\ c2.old = c.old
  BY DEF SameCall, CallFields
<1>2. DOMAIN u = HeldBy(c, l, h.tcache)
  BY ONLY State(h, c, l, u), StateFacts
<1>3. HeldBy(c2, l, h.tcache) = HeldBy(c, l, h.tcache)
  BY ONLY <1>1, c.pc = "start" \/ (c.pc = "got" /\ c.p = NIL), c.op # "free", c2.pc = "return", c2.p = NIL
  DEF HeldBy, Blocks
<1>4. Served(c2, l, u, h.tcache)
  BY ONLY c2.p = NIL DEF Served
<1>5. c.pc \in {"start", "got"}
  OBVIOUS
<1>6. \A q \in DOMAIN l : (c2.p # NIL /\ q = c.old) \/ u[q] = u[q]
  OBVIOUS
<1>7. DOMAIN u = HeldBy(c2, l, h.tcache)
  BY ONLY <1>2, <1>3
<1> QED
  BY ONLY State(h, c, l, u), <1>5, ~c.init, HeapOK(h2, u, {}, h.tcache),
     SameCall(c, c2, {"pc", "p", "clear", "copied"}), c2.pc = "return", <1>7, <1>6, <1>4, Returns

\* The header of a block in somebody's hands is known.
LEMMA Known ==
  ASSUME NEW h, NEW u, NEW F, NEW t, HeapOK(h, u, F, t), NEW q \in DOMAIN u
  PROVE  /\ q \in DOMAIN h.hdr /\ q \in Nat /\ Face(h.hdr[q]) = u[q]
         /\ u[q].size = h.hdr[q].size /\ u[q].mmapped = h.hdr[q].mmapped
         /\ u[q].size \in Nat /\ u[q].mmapped \in BOOLEAN
<1>1. q \in DOMAIN h.hdr /\ Face(h.hdr[q]) = u[q]
  BY Zenon DEF HeapOK, Owned
<1>2. q \in Nat /\ h.hdr[q].size \in Nat /\ h.hdr[q].mmapped \in BOOLEAN
  BY ONLY HeapOK(h, u, F, t), <1>1, HeaderFacts
<1> QED BY ONLY <1>1, <1>2 DEF Face

\* Every chunk is in memory that sbrk or mmap gives.
LEMMA Addressed ==
  ASSUME NEW h, NEW u, NEW F, NEW t, HeapOK(h, u, F, t)
  PROVE  DOMAIN h.hdr \subseteq Addresses /\ \A p \in DOMAIN h.hdr : h.hdr[p] \in Headers
<1>1. /\ HeapEnd \in Nat /\ MmapEnd \in Nat /\ HeapEnd <= MmapEnd /\ MmapStart \in Nat
      /\ BrkStart \in Nat
  <2>1. /\ HeapEnd \in Nat /\ MmapEnd \in Nat /\ MmapStart \in Nat /\ BrkStart \in Nat
        /\ HeapEnd <= MmapStart /\ MmapStart <= MmapEnd
    BY ONLY System
  <2> QED BY ONLY <2>1
<1>2. Addresses = 0 .. MmapEnd
  <2> DEFINE T == {HeapEnd, MmapEnd}
  <2>1. T \subseteq Nat /\ T # {} /\ MmapEnd \in Nat /\ \A y \in T : y <= MmapEnd
    BY ONLY <1>1
  <2>2. Max(T) \in T /\ \A y \in T : Max(T) >= y
    <3> HIDE DEF T
    <3> QED BY ONLY <2>1, MaxIs
  <2>3. Max(T) >= MmapEnd
    BY ONLY <2>2
  <2>4. Max(T) = HeapEnd \/ Max(T) = MmapEnd
    BY ONLY <2>2
  <2>5. Max(T) = MmapEnd
    BY ONLY <1>1, <2>3, <2>4
  <2> QED BY ONLY <2>5 DEF Addresses
<1>3. /\ Shape(h.hdr, h.top, Space(h.brk, h.mapped), h.contiguous, h.sbrk_base)
      /\ h.brk \in Nat /\ h.brk <= HeapEnd
  <2>1. h.brk \in BrkStart .. HeapEnd
    BY DEF HeapOK, Bounds
  <2> QED BY ONLY <2>1, <1>1, HeapOK(h, u, F, t) DEF HeapOK, Laid
<1>4. \A x \in Space(h.brk, h.mapped) : x < MmapEnd
  BY ONLY <1>1, <1>3 DEF Space
<1>5. ASSUME NEW p \in DOMAIN h.hdr PROVE p \in 0 .. MmapEnd /\ h.hdr[p] \in Headers
  <2>1. /\ p \in Nat /\ h.hdr[p] \in AnyHeader /\ h.hdr[p].size \in Nat
        /\ h.hdr[p].prev_size \in Nat /\ h.hdr[p].prev_size <= p
    BY ONLY HeapOK(h, u, F, t), <1>5, HeaderFacts
  <2>2. h.hdr[p].size > 0 \/ (p = NIL /\ h.hdr[p].size = 0)
    <3>1. p # h.top => h.hdr[p].size > 0
      BY ONLY <1>3, <1>5 DEF Shape, Typed
    <3>2. h.top = NIL => h.hdr[h.top].size = 0
      BY ONLY HeapOK(h, u, F, t), TopFacts
    <3>3. h.top # NIL => h.hdr[h.top].size >= MINSIZE
      BY ONLY HeapOK(h, u, F, t), TopFacts
    <3>4. MINSIZE \in Nat /\ MINSIZE > 0
      BY Units
    <3> QED BY ONLY <3>1, <3>2, <3>3, <3>4, <2>1
  <2>3. CASE p = NIL /\ h.hdr[p].size = 0
    BY ONLY <2>1, <2>3, <1>1, <1>2 DEF NIL, Headers, AnyHeader
  <2>4. CASE h.hdr[p].size > 0
    <3>1. \A x \in Nat : Start(h.hdr, p) <= x /\ x < End(h.hdr, p) => x \in Space(h.brk, h.mapped)
      BY ONLY <1>3, <1>5 DEF Shape, Inside
    <3>2. Start(h.hdr, p) \in Int /\ Start(h.hdr, p) <= p /\ End(h.hdr, p) = p + h.hdr[p].size
      BY ONLY <2>1 DEF Start, End
    <3>3. p + h.hdr[p].size - 1 \in Space(h.brk, h.mapped)
      BY ONLY <2>1, <2>4, <3>1, <3>2
    <3>4. p + h.hdr[p].size - 1 < MmapEnd
      BY ONLY <3>3, <1>4
    <3>5. p \in 0 .. MmapEnd /\ h.hdr[p].size \in 0 .. MmapEnd /\ h.hdr[p].prev_size \in 0 .. MmapEnd
      BY ONLY <3>4, <2>1, <2>4, <1>1
    <3> QED BY ONLY <3>5, <2>1, <1>2 DEF Headers, AnyHeader
  <2> QED BY ONLY <2>2, <2>3, <2>4
<1> QED BY ONLY <1>2, <1>5

\* A block is freed.
LEMMA Frees ==
  ASSUME NEW h, NEW c, NEW l, NEW u, State(h, c, l, u), c.pc = "start", c.op = "free",
         NEW h2, HeapOK(h2, Without(u, c.old), {}, h.tcache),
         NEW c2, SameCall(c, c2, {"pc", "p", "clear", "copied"}), c2.pc = "return", c2.p = NIL
  PROVE  State(h2, c2, l, Without(u, c.old))
<1> DEFINE u2 == Without(u, c.old)
<1>1. c2.op = c.op /\ c2.old = c.old
  BY DEF SameCall, CallFields
<1>2. /\ DOMAIN u = HeldBy(c, l, h.tcache) /\ OldBlock(c, l, u, h.tcache)
      /\ Underway(c, h.tcache, DOMAIN h.entries, h.hdr[h.top].size)
  BY ONLY State(h, c, l, u), StateFacts
<1>3. c.old \notin DOMAIN l /\ c.old # h.tcache
  BY ONLY <1>2, c.pc = "start", c.op = "free" DEF OldBlock
<1>4. DOMAIN u2 = HeldBy(c2, l, h.tcache)
  BY ONLY <1>1, <1>2, <1>3, c.pc = "start", c.op = "free", c2.pc = "return", c2.p = NIL
  DEF HeldBy, Blocks, Without
<1>5. \A q \in DOMAIN l : (c2.p # NIL /\ q = c.old) \/ u2[q] = u[q]
  BY ONLY <1>2, <1>3, c.pc = "start", c.op = "free" DEF Without, HeldBy, Blocks
<1>6. Served(c2, l, u2, h.tcache)
  BY ONLY c2.p = NIL DEF Served
<1>7. ~c.init
  BY ONLY <1>2, c.pc = "start" DEF Underway, Asking, Inner
<1>8. c.pc \in {"start", "got"}
  OBVIOUS
<1>9. HeapOK(h2, u2, {}, h.tcache)
  OBVIOUS
<1>10. State(h2, c2, l, u2)
  <2> HIDE DEF u2
  <2> QED
    BY ONLY State(h, c, l, u), <1>8, <1>7, <1>9,
       SameCall(c, c2, {"pc", "p", "clear", "copied"}), c2.pc = "return", <1>4, <1>5, <1>6, Returns
<1> QED BY ONLY <1>10

\* A block is handed over, and the old one is not in use any more.
Settles(c, l, l2) ==
  IF c.p = NIL THEN l2 = l
  ELSE l2 = With(Restrict(l, DOMAIN l \ {c.old}), c.p, c.req)

\* Between calls,
LEMMA NoCallFields ==
  /\ DOMAIN NoCall = CallFields /\ NoCall.pc = "idle" /\ NoCall.op = "none"
  /\ NoCall.req = 0 /\ NoCall.align = MALLOC_ALIGNMENT /\ NoCall.old = NIL /\ NoCall.nb = 0
  /\ NoCall.init = FALSE /\ NoCall.cached = FALSE /\ NoCall.p = NIL
BY DEF NoCall, CallFields

\* a call that is none has its type.
LEMMA NoCallTyped == CallTyped(NoCall)
<1>1. MALLOC_ALIGNMENT \in Nat /\ MALLOC_ALIGNMENT > 0 /\ aligned_OK(MALLOC_ALIGNMENT)
  BY Units
<1>2. NoCall.init \in BOOLEAN /\ NoCall.cached \in BOOLEAN
  BY ONLY NoCallFields
<1>3. NoCall.req \in Nat /\ NoCall.align = MALLOC_ALIGNMENT /\ NoCall.pc = "idle" /\ NoCall.op = "none"
  BY ONLY NoCallFields
<1>4. DOMAIN NoCall = CallFields
  BY ONLY NoCallFields
<1> HIDE DEF NoCall
<1> QED BY ONLY <1>1, <1>2, <1>3, <1>4 DEF CallTyped

\* What a call returns is in use until it is freed.
LEMMA Finished ==
  ASSUME NEW h, NEW c, NEW l, NEW u, State(h, c, l, u), c.pc = "return",
         NEW l2, Settles(c, l, l2)
  PROVE  State(h, NoCall, l2, u)
<1> DEFINE t == h.tcache
           c2 == NoCall
<1>2. /\ DOMAIN u = HeldBy(c, l, t) /\ CallTyped(c) /\ HeapOK(h, u, {}, t)
      /\ OldBlock(c, l, u, t) /\ InUse(c, l, u, t) /\ Served(c, l, u, t)
  BY ONLY State(h, c, l, u), StateFacts
<1>3. DOMAIN l2 = Blocks(c, l)
  BY ONLY Settles(c, l, l2), c.pc = "return" DEF Settles, Blocks, With, Restrict
<1>4. DOMAIN u = HeldBy(c2, l2, t)
  BY ONLY <1>2, <1>3, c.pc = "return", NoCallFields DEF HeldBy, Blocks
<1>5. /\ CallTyped(c2) /\ Underway(c2, t, DOMAIN h.entries, h.hdr[h.top].size)
      /\ OldBlock(c2, l2, u, t) /\ NewChunk(c2, l2, u, t) /\ Served(c2, l2, u, t)
  <2>1. Underway(c2, t, DOMAIN h.entries, h.hdr[h.top].size)
    BY ONLY NoCallFields DEF Underway, Asking, Inner
  <2>2. OldBlock(c2, l2, u, t) /\ NewChunk(c2, l2, u, t) /\ Served(c2, l2, u, t)
    BY ONLY NoCallFields DEF OldBlock, NewChunk, Served
  <2> QED BY ONLY <2>1, <2>2, NoCallTyped
<1>6. InUse(c2, l2, u, t)
  <2>1. CASE c.p = NIL
    <3>1. l2 = l
      BY ONLY Settles(c, l, l2), <2>1 DEF Settles
    <3> QED BY ONLY <1>2, <2>1, <3>1, c.pc = "return" DEF InUse
  <2>2. CASE c.p # NIL
    <3>1. /\ DOMAIN l2 = (DOMAIN l \ {c.old}) \cup {c.p}
          /\ l2[c.p] = c.req /\ \A q \in DOMAIN l \ {c.old} : q # c.p => l2[q] = l[q]
      BY ONLY Settles(c, l, l2), <2>2 DEF Settles, With, Restrict
    <3>2. c.p # t /\ usable(u[c.p]) >= c.req /\ c.req \in Nat
      BY ONLY <1>2, <2>2, c.pc = "return" DEF Served, CallTyped
    <3>3. c.p \in Addresses
      <4>1. c.p \in DOMAIN u
        BY ONLY <1>2, <2>2, c.pc = "return" DEF HeldBy, Blocks
      <4>2. c.p \in DOMAIN h.hdr
        BY ONLY <1>2, <4>1, Known
      <4> QED BY ONLY <1>2, <4>2, Addressed
    <3>4. \A q \in DOMAIN l \ {c.old} : l[q] \in Nat /\ usable(u[q]) >= l[q]
      BY ONLY <1>2, c.pc = "return" DEF InUse
    <3>5. DOMAIN l \subseteq Addresses /\ t \notin DOMAIN l
      BY ONLY <1>2 DEF InUse
    <3>6. \A q \in DOMAIN l2 : l2[q] \in Nat /\ usable(u[q]) >= l2[q]
      BY ONLY <3>1, <3>2, <3>4
    <3>7. DOMAIN l2 \subseteq Addresses /\ t \notin DOMAIN l2
      BY ONLY <3>1, <3>2, <3>3, <3>5
    <3> QED BY ONLY <3>6, <3>7 DEF InUse
  <2> QED BY ONLY <2>1, <2>2
<1> QED BY ONLY <1>2, <1>4, <1>5, <1>6, Zenon DEF State, CallOK

\* A call begins.
Begins(c2, l, l2) ==
  /\ DOMAIN c2 = CallFields /\ c2.pc = "start"
  /\ c2.op \in {"malloc", "calloc", "memalign", "realloc", "free"}
  /\ c2.req \in Nat /\ c2.align \in Nat /\ c2.align > 0 /\ aligned_OK(c2.align)
  /\ c2.op # "memalign" => c2.align = MALLOC_ALIGNMENT
  /\ c2.init = FALSE /\ c2.cached = FALSE /\ c2.nb = 0
  /\ IF c2.op \in {"free", "realloc"} THEN c2.old \in DOMAIN l ELSE c2.old = NIL
  /\ l2 = IF c2.op = "free" THEN Restrict(l, DOMAIN l \ {c2.old}) ELSE l

\* A call begins with a block in its hands or without.
LEMMA Started2 ==
  ASSUME NEW h, NEW c, NEW l, NEW u, State(h, c, l, u), c.pc = "idle",
         NEW c2, NEW l2, Begins(c2, l, l2)
  PROVE  State(h, c2, l2, u)
<1> DEFINE t == h.tcache
<1>1. /\ DOMAIN u = HeldBy(c, l, t) /\ CallTyped(c) /\ HeapOK(h, u, {}, t)
      /\ InUse(c, l, u, t)
  BY ONLY State(h, c, l, u), StateFacts
<1>2. DOMAIN u = DOMAIN l \cup {q \in {t} : q # NONE /\ q # SHUT}
  BY ONLY <1>1, c.pc = "idle" DEF HeldBy, Blocks, CallTyped
<1>3. /\ c2.op # "free" => l2 = l
      /\ c2.op = "free" => DOMAIN l2 = DOMAIN l \ {c2.old} /\ c2.old \in DOMAIN l
      /\ \A q \in DOMAIN l2 : q \in DOMAIN l /\ l2[q] = l[q]
  BY ONLY Begins(c2, l, l2) DEF Begins, Restrict
<1>4. DOMAIN u = HeldBy(c2, l2, t)
  <2>1. c2.pc = "start"
    BY DEF Begins
  <2> QED BY ONLY <1>2, <1>3, <2>1 DEF HeldBy, Blocks
<1>5. CallTyped(c2)
  BY ONLY Begins(c2, l, l2) DEF Begins, CallTyped, Asking, Inner
<1>6. Underway(c2, t, DOMAIN h.entries, h.hdr[h.top].size)
  BY ONLY Begins(c2, l, l2) DEF Begins, Underway, Asking, Inner
<1>7. OldBlock(c2, l2, u, t)
  <2>1. t \notin DOMAIN l
    BY ONLY <1>1 DEF InUse
  <2>2. c2.op = "free" => c2.old \in DOMAIN l /\ c2.old \notin DOMAIN l2
    BY ONLY <1>3
  <2>3. c2.op = "free" => c2.old # t
    BY ONLY <2>1, <2>2
  <2>4. c2.op # "free" => l2 = l
    BY ONLY <1>3
  <2> QED BY ONLY Begins(c2, l, l2), <2>2, <2>3, <2>4 DEF Begins, OldBlock, Asking, Inner
<1>8. NewChunk(c2, l2, u, t) /\ Served(c2, l2, u, t)
  BY ONLY Begins(c2, l, l2) DEF Begins, NewChunk, Served
<1>9. InUse(c2, l2, u, t)
  <2>1. \A q \in DOMAIN l : l[q] \in Nat /\ usable(u[q]) >= l[q]
    BY ONLY <1>1, c.pc = "idle" DEF InUse
  <2>2. DOMAIN l \subseteq Addresses /\ t \notin DOMAIN l
    BY ONLY <1>1 DEF InUse
  <2>3. \A q \in DOMAIN l2 : l2[q] \in Nat /\ usable(u[q]) >= l2[q]
    BY ONLY <1>3, <2>1
  <2>4. DOMAIN l2 \subseteq Addresses /\ t \notin DOMAIN l2
    BY ONLY <1>3, <2>2
  <2> QED BY ONLY <2>3, <2>4 DEF InUse
<1> QED BY ONLY <1>1, <1>4, <1>5, <1>6, <1>7, <1>8, <1>9, Zenon DEF State, CallOK

\* Between calls the heap changes, but no block does.
LEMMA Idles ==
  ASSUME NEW h, NEW c, NEW l, NEW u, State(h, c, l, u), c.pc = "idle",
         NEW h2, NEW u2, HeapOK(h2, u2, {}, h2.tcache),
         \/ h2.tcache = h.tcache /\ u2 = u
         \/ h2.tcache = SHUT /\ h.tcache \in DOMAIN u /\ u2 = Without(u, h.tcache)
  PROVE  State(h2, c, l, u2)
<1> DEFINE t == h.tcache
           t2 == h2.tcache
<1>1. /\ DOMAIN u = HeldBy(c, l, t) /\ CallTyped(c) /\ HeapOK(h, u, {}, t)
      /\ InUse(c, l, u, t)
  BY ONLY State(h, c, l, u), StateFacts
<1>2. DOMAIN u = DOMAIN l \cup {q \in {t} : q # NONE /\ q # SHUT}
  BY ONLY <1>1, c.pc = "idle" DEF HeldBy, Blocks, CallTyped
<1>i. c.op = "none"
  BY ONLY <1>1, c.pc = "idle" DEF CallTyped
<1>3. DOMAIN l \subseteq Addresses /\ t \notin DOMAIN l
  BY ONLY <1>1 DEF InUse
<1>4. SHUT \notin DOMAIN l
  <2>1. \A q \in DOMAIN l : q \in Nat
    BY ONLY <1>1, <1>2, Known
  <2> QED BY ONLY <2>1 DEF SHUT
<1>5. DOMAIN u2 = HeldBy(c, l, t2)
  <2>1. HeldBy(c, l, t2) = DOMAIN l \cup {q \in {t2} : q # NONE /\ q # SHUT}
    BY ONLY c.pc = "idle", <1>i DEF HeldBy, Blocks
  <2>2. CASE t2 = t /\ u2 = u
    BY ONLY <2>1, <2>2, <1>2
  <2>3. CASE t2 = SHUT /\ t \in DOMAIN u /\ u2 = Without(u, t)
    BY ONLY <2>1, <2>3, <1>2, <1>3 DEF Without
  <2> QED BY <2>2, <2>3
<1>6. \A q \in DOMAIN l : u2[q] = u[q]
  BY <1>2, <1>3 DEF Without
<1>7. /\ Underway(c, t2, DOMAIN h2.entries, h2.hdr[h2.top].size) /\ OldBlock(c, l, u2, t2)
      /\ NewChunk(c, l, u2, t2) /\ Served(c, l, u2, t2)
  <2>1. OldBlock(c, l, u, t) /\ Underway(c, t, DOMAIN h.entries, h.hdr[h.top].size)
    BY ONLY State(h, c, l, u), StateFacts
  <2>2. Underway(c, t2, DOMAIN h2.entries, h2.hdr[h2.top].size)
    BY ONLY <2>1, c.pc = "idle" DEF Underway, Asking, Inner
  <2>3. OldBlock(c, l, u2, t2)
    BY ONLY <2>1, <1>i, c.pc = "idle" DEF OldBlock
  <2> QED BY ONLY <2>2, <2>3, c.pc = "idle" DEF NewChunk, Served
<1>8. InUse(c, l, u2, t2)
  <2>1. t2 \notin DOMAIN l
    BY <1>3, <1>4
  <2> QED BY ONLY <2>1, <1>1, <1>6, c.pc = "idle" DEF InUse
<1> QED BY ONLY <1>1, <1>5, <1>7, <1>8, HeapOK(h2, u2, {}, h2.tcache), Zenon DEF State, CallOK

\* The chunk for the cache is there, or not.
LEMMA CacheReady ==
  ASSUME NEW h, NEW c, NEW l, NEW u, State(h, c, l, u), c.pc = "got", c.init,
         NEW h2, HeapOK(h2, u, {}, h2.tcache), h2.tcache = (IF c.p = NIL THEN h.tcache ELSE c.p),
         NEW c2, SameCall(c, c2, {"pc", "init"}), c2.pc = "start", c2.init = FALSE
  PROVE  State(h2, c2, l, u)
<1> DEFINE t == h.tcache
           t2 == h2.tcache
<1>1. /\ DOMAIN c2 = CallFields /\ c2.op = c.op /\ c2.req = c.req /\ c2.align = c.align
      /\ c2.old = c.old /\ c2.nb = c.nb /\ c2.cached = c.cached
  BY DEF SameCall, CallFields
<1>2. /\ DOMAIN u = HeldBy(c, l, t) /\ CallTyped(c) /\ HeapOK(h, u, {}, t)
      /\ Underway(c, t, DOMAIN h.entries, h.hdr[h.top].size)
      /\ OldBlock(c, l, u, t) /\ NewChunk(c, l, u, t) /\ InUse(c, l, u, t)
  BY ONLY State(h, c, l, u), StateFacts
<1>3. t = NONE
  BY ONLY <1>2, c.init DEF Underway
<1>4. c.p # NIL => c.p \in Nat
  <2>1. c.p # NIL => c.p \in DOMAIN u
    BY ONLY <1>2, c.pc = "got" DEF HeldBy
  <2> QED BY ONLY <2>1, <1>2, Known
<1>5. DOMAIN u = HeldBy(c2, l, t2)
  <2>1. CASE c.p = NIL
    BY <2>1, <1>1, <1>2 DEF HeldBy, Blocks
  <2>2. CASE c.p # NIL
    <3>1. c.p # NONE /\ c.p # SHUT
      BY ONLY <1>4, <2>2 DEF NONE, SHUT
    <3>2. t2 = c.p
      BY <2>2
    <3> QED BY ONLY <2>2, <3>1, <3>2, <1>1, <1>2, <1>3, c.pc = "got", c2.pc = "start" DEF HeldBy, Blocks
  <2> QED BY ONLY <2>1, <2>2
<1>6. CallTyped(c2)
  BY ONLY <1>1, <1>2, c.pc = "got", c2.pc = "start", c2.init = FALSE DEF CallTyped
<1>7. Underway(c2, t2, DOMAIN h2.entries, h2.hdr[h2.top].size)
  BY ONLY c2.pc = "start", c2.init = FALSE DEF Underway, Asking, Inner
<1>8. OldBlock(c2, l, u, t2)
  <2>1. c.op = "free" => c.old # t2
    <3>1. CASE c.p = NIL
      BY <3>1, <1>2 DEF OldBlock
    <3>2. CASE c.p # NIL
      BY <3>2, <1>2 DEF NewChunk
    <3> QED BY ONLY <3>1, <3>2
  <2>2. c.pc \in Asking
    BY DEF Asking
  <2> QED BY ONLY <1>1, <1>2, <2>1, <2>2, c.pc = "got", c2.pc = "start" DEF OldBlock, Asking, Inner
<1>9. NewChunk(c2, l, u, t2) /\ Served(c2, l, u, t2)
  BY ONLY c2.pc = "start" DEF NewChunk, Served
<1>10. InUse(c2, l, u, t2)
  <2>1. t2 \notin DOMAIN l
    <3>1. c.p = NIL => t2 \notin DOMAIN l
      BY <1>2 DEF InUse
    <3>2. c.p # NIL => t2 \notin DOMAIN l
      BY <1>2 DEF NewChunk
    <3> QED BY ONLY <3>1, <3>2
  <2> QED BY ONLY <2>1, <1>2, c.pc = "got", c2.pc = "start" DEF InUse
<1> QED
  BY ONLY <1>5, <1>6, <1>7, <1>8, <1>9, <1>10, HeapOK(h2, u, {}, h2.tcache), Zenon DEF State, CallOK

\* How a step changes the call.
LEMMA GotCall ==
  ASSUME DOMAIN call = CallFields, NEW p, Got(p)
  PROVE  SameCall(call, call', {"pc", "p"}) /\ call'.pc = "got" /\ call'.p = p
BY DEF Got, SameCall, CallFields

\* Going on to another place changes only that,
LEMMA GotoCall ==
  ASSUME DOMAIN call = CallFields, NEW x, Goto(x)
  PROVE  SameCall(call, call', {"pc"}) /\ call'.pc = x /\ call'.cached = call.cached
BY DEF Goto, SameCall, CallFields

\* and returning p changes no more.
LEMMA ResultCall ==
  ASSUME DOMAIN call = CallFields, NEW p, Result(p)
  PROVE  SameCall(call, call', {"pc", "p"}) /\ call'.pc = "return" /\ call'.p = p
BY DEF Result, SameCall, CallFields

\* What changes less changes no more.
LEMMA SameMore ==
  ASSUME NEW c, NEW c2, NEW S, SameCall(c, c2, S), NEW T, S \subseteq T
  PROVE  SameCall(c, c2, T)
BY DEF SameCall

\* What is added to somebody's hands.
LEMMA AddsWith ==
  ASSUME NEW u, NEW p, p \notin DOMAIN u, p # NIL, p \in Nat, NEW f, NEW u2, u2 = With(u, p, f)
  PROVE  Adds(u, u2, p) /\ u2[p] = f
BY DEF Adds, With

\* A chunk that is taken is in somebody's hands, too.
LEMMA AddsTaking ==
  ASSUME NEW h, NEW u, NEW p, p \notin DOMAIN u, p # NIL, p \in Nat, NEW u2, u2 = Taking(h, u, {p})
  PROVE  Adds(u, u2, p) /\ u2[p] = Plain(h.hdr[p].size)
BY DEF Adds, Taking

\* A chunk that is cut fits.
LEMMA FitsPlain ==
  ASSUME NEW s, NEW n, s >= n, s < n + MINSIZE
  PROVE  Fits(Plain(s), n)
BY DEF Fits, Plain

\* _int_malloc returns the chunk p of the heap.
LEMMA GetsChunk ==
  ASSUME NEW h, NEW c, NEW l, NEW u, State(h, c, l, u), c.pc \in Inner,
         NEW p, NEW s, s >= c.nb, s < c.nb + MINSIZE,
         NEW h2, NEW u2, HeapOK(h2, u2, {}, h.tcache), Adds(u, u2, p), u2[p] = Plain(s),
         NEW c2, SameCall(c, c2, {"pc", "p"}), c2.pc = "got", c2.p = p
  PROVE  State(h2, c2, l, u2)
<1>1. DOMAIN c = CallFields /\ c.nb = Wanted(c)
  <2>1. DOMAIN c = CallFields /\ Underway(c, h.tcache, DOMAIN h.entries, h.hdr[h.top].size)
    BY ONLY State(h, c, l, u), StateFacts
  <2> QED BY ONLY <2>1, c.pc \in Inner DEF Underway
<1>2. SameCall(c, c2, {"pc", "p"}) /\ c2.pc = "got" /\ c2.p = p
  OBVIOUS
<1>3. Fits(u2[c2.p], Wanted(c))
  BY ONLY <1>1, <1>2, s >= c.nb, s < c.nb + MINSIZE, u2[p] = Plain(s), FitsPlain
<1>4. Adds(u, u2, c2.p)
  BY ONLY <1>2, Adds(u, u2, p)
<1> QED
  BY ONLY State(h, c, l, u), c.pc \in Inner, HeapOK(h2, u2, {}, h.tcache), <1>2, <1>3, <1>4, Gets

\* What is known inside _int_malloc.
LEMMA InnerFacts ==
  ASSUME NEW h, NEW c, NEW l, NEW u, State(h, c, l, u), c.pc \in Inner
  PROVE  /\ HeapOK(h, u, {}, h.tcache) /\ Rec(h) /\ DOMAIN c = CallFields
         /\ c.nb \in ChunkSizes /\ c.nb \in Nat /\ c.nb >= MINSIZE
         /\ c.cached \in BOOLEAN
         /\ c.cached => c.pc = "unsorted" /\ csize2tidx(c.nb) \in DOMAIN h.entries
         /\ c.pc = "sysmalloc" => h.hdr[h.top].size < c.nb + MINSIZE
<1>1. /\ HeapOK(h, u, {}, h.tcache) /\ Rec(h) /\ DOMAIN c = CallFields /\ CallTyped(c)
      /\ Underway(c, h.tcache, DOMAIN h.entries, h.hdr[h.top].size)
  BY ONLY State(h, c, l, u), StateFacts
<1>2. c.nb = Wanted(c) /\ Wanted(c) \in ChunkSizes
  BY ONLY <1>1, c.pc \in Inner, WantedSize DEF Underway
<1>3. c.nb \in ChunkSizes /\ c.nb \in Nat /\ c.nb >= MINSIZE
  BY ONLY <1>2 DEF ChunkSizes
<1> QED BY ONLY <1>1, <1>3, c.pc \in Inner DEF Underway, CallTyped

\* A list of the cache is never longer than TcacheCount.
LEMMA CacheLength ==
  ASSUME NEW h, NEW u, NEW F, NEW t, HeapOK(h, u, F, t), NEW i
  PROVE  Len(At(h.entries, i)) \in Nat /\ Len(At(h.entries, i)) <= TcacheCount
<1>1. Proper(h.entries) /\ Indexed(h.hdr, h.fast, h.entries)
  BY ONLY HeapOK(h, u, F, t), ListFacts
<1>2. TcacheCount \in Nat
  BY System
<1>3. At(h.entries, i) \in Seq(Nat)
  BY ONLY <1>1, AtList DEF IsList
<1>4. Len(At(h.entries, i)) \in Nat
  BY ONLY <1>3, InRange
<1>5. CASE i \in DOMAIN h.entries
  BY ONLY <1>1, <1>4, <1>5 DEF At, Indexed
<1>6. CASE i \notin DOMAIN h.entries
  <2>1. At(h.entries, i) = << >>
    BY ONLY <1>6 DEF At
  <2>2. Len(<< >>) = 0
    BY ONLY NoList
  <2> QED BY ONLY <2>1, <2>2, <1>2
<1> QED BY ONLY <1>5, <1>6

\* As many chunks go to the cache as it has room for.
LEMMA StashedBound ==
  ASSUME NEW u, NEW F, NEW t, HeapOK(heap, u, F, t), NEW n \in Nat
  PROVE  /\ Stashed(n) \in Nat /\ Stashed(n) <= n
         /\ Stashed(n) + Len(At(heap.entries, csize2tidx(nb))) <= TcacheCount
<1> DEFINE len == Len(At(heap.entries, csize2tidx(nb)))
           r == TcacheCount - len
           T == {n, r}
           V == {0, Min(T)}
<1>1. len \in Nat /\ len <= TcacheCount /\ TcacheCount \in Nat
  <2>1. len \in Nat /\ len <= TcacheCount
    BY ONLY HeapOK(heap, u, F, t), CacheLength
  <2> HIDE DEF len
  <2> QED BY <2>1, System
<1>2. Room(heap, nb) = r
  BY DEF Room
<1> HIDE DEF len
<1>3. r \in Nat
  BY ONLY <1>1
<1>4. T \subseteq Nat /\ T # {}
  BY ONLY <1>3, n \in Nat
<1>5. Min(T) \in T /\ \A y \in T : Min(T) <= y
  <2> HIDE DEF T
  <2> QED BY ONLY <1>4, MinIs
<1>6. Min(T) \in Nat /\ Min(T) <= n /\ Min(T) <= r
  BY ONLY <1>3, <1>5, n \in Nat
<1> DEFINE m == Min(T)
<1>7. Min(T) = m
  OBVIOUS
<1> HIDE DEF m
<1>8. V \subseteq Nat /\ V # {} /\ m \in Nat /\ \A y \in V : y <= m
  BY ONLY <1>6, <1>7
<1>9. Max(V) \in V /\ \A y \in V : Max(V) >= y
  <2> HIDE DEF V
  <2> QED BY ONLY <1>8, MaxIs
<1>10. Max(V) \in Nat /\ Max(V) <= n /\ Max(V) <= r
  BY ONLY <1>6, <1>7, <1>9, <1>3, n \in Nat
<1>11. Stashed(n) = IF Cacheable(heap, nb) THEN Max(V) ELSE 0
  BY ONLY <1>2 DEF Stashed
<1> HIDE DEF V
<1>12. Stashed(n) \in Nat /\ Stashed(n) <= n /\ Stashed(n) <= r
  BY ONLY <1>10, <1>11, <1>3, n \in Nat
<1> QED BY <1>1, <1>12 DEF len

\* The same for the steps of the program.
LEMMA GotStep ==
  ASSUME NEW u, State(heap, call, live, u), call.pc \in Inner,
         NEW p, NEW s, s >= nb, s < nb + MINSIZE,
         NEW u2, HeapOK(heap', u2, {}, heap.tcache), Adds(u, u2, p), u2[p] = Plain(s),
         Got(p), live' = live
  PROVE  \E v : State(heap', call', live', v)
<1>1. DOMAIN call = CallFields
  BY ONLY State(heap, call, live, u), StateFacts
<1>2. SameCall(call, call', {"pc", "p"}) /\ call'.pc = "got" /\ call'.p = p
  BY ONLY <1>1, Got(p), GotCall
<1>3. s >= call.nb /\ s < call.nb + MINSIZE
  BY ONLY s >= nb, s < nb + MINSIZE DEF nb
<1>4. State(heap', call', live, u2)
  BY ONLY State(heap, call, live, u), call.pc \in Inner, <1>2, <1>3,
     HeapOK(heap', u2, {}, heap.tcache), Adds(u, u2, p), u2[p] = Plain(s), GetsChunk
<1> QED BY ONLY <1>4, live' = live

\* A fast chunk is taken.
LEMMA TakeFastStep ==
  ASSUME NEW u, State(heap, call, live, u), TakeFast
  PROVE  \E v : State(heap', call', live', v)
<1> DEFINE s == At(heap.fast, fastbin_index(nb))
           k == Stashed(Len(s) - 1)
           i == fastbin_index(nb)
           c == csize2tidx(nb)
           p == Head(s)
           u2 == Taking(heap, u, {p})
           t == heap.tcache
<1>0. call.pc \in Inner
  BY DEF TakeFast, Inner
<1>1. /\ HeapOK(heap, u, {}, t) /\ Rec(heap) /\ nb \in ChunkSizes /\ nb \in Nat /\ DOMAIN call = CallFields
  BY ONLY State(heap, call, live, u), <1>0, InnerFacts DEF nb
<1>2. /\ s # << >>
      /\ heap' = [[heap EXCEPT !.entries = Put(@, c, Reverse(SubSeq(s, 2, k + 1)) \o At(@, c))]
                    EXCEPT !.fast = Put(@, i, SubSeq(s, k + 2, Len(s)))]
      /\ Got(p) /\ live' = live
  BY DEF TakeFast, HasFast, fast, WithStash
<1>3. IsList(s)
  <2>1. Proper(heap.fast)
    BY ONLY <1>1, ListFacts
  <2> QED BY ONLY <2>1, AtList
<1>4. Len(s) \in Nat /\ Len(s) >= 1
  BY ONLY <1>2, <1>3, EndsList
<1>5. Len(s) - 1 \in Nat
  BY ONLY <1>4
<1>6. k \in Nat /\ k <= Len(s) - 1 /\ k + Len(At(heap.entries, c)) <= TcacheCount
  BY ONLY <1>1, <1>5, StashedBound
<1> HIDE DEF k
<1>7. k \in Nat /\ k + 1 <= Len(s) /\ k + Len(At(heap.entries, c)) <= TcacheCount
  BY ONLY <1>4, <1>6
<1>8. TakesFast(heap, heap', nb, i, c, s, k)
  BY ONLY <1>1, <1>2, <1>7 DEF TakesFast
<1>9. /\ HeapOK(heap', u2, {}, t) /\ p \in Listed(heap) /\ heap.hdr[p].size = nb
  <2> HIDE DEF s, i, c
  <2> QED BY ONLY <1>1, <1>8, TookFast
<1>10. p \notin DOMAIN u /\ p \in Nat /\ p \in Chunks(heap.hdr, heap.top)
  BY ONLY <1>1, <1>9, ListedSize
<1>11. p # NIL
  <2>1. p > 0
    BY ONLY <1>1, <1>10, ChunkFacts
  <2> QED BY ONLY <2>1, <1>10 DEF NIL
<1> HIDE DEF p, u2
<1>12. Adds(u, u2, p) /\ u2[p] = Plain(nb)
  BY ONLY <1>9, <1>10, <1>11, AddsTaking DEF u2
<1>13. nb >= nb /\ nb < nb + MINSIZE
  BY ONLY <1>1, Units
<1>14. Got(p) /\ live' = live
  BY ONLY <1>2
<1> QED
  BY ONLY State(heap, call, live, u), <1>0, <1>9, <1>12, <1>13, <1>14, GotStep

\* A chunk of a bin is in nobody's hands.
LEMMA BinnedChunk ==
  ASSUME NEW h, NEW u, NEW t, HeapOK(h, u, {}, t), NEW p \in Members(h.bins)
  PROVE  /\ p \in Chunks(h.hdr, h.top) /\ p \notin DOMAIN u /\ p \in Nat /\ p # NIL
         /\ h.hdr[p].size \in ChunkSizes
<1>1. p \in Chunks(h.hdr, h.top) /\ p \notin DOMAIN u
  BY Zenon DEF HeapOK, Owned
<1>2. p \in Nat /\ p > 0 /\ h.hdr[p].size \in ChunkSizes
  BY ONLY HeapOK(h, u, {}, t), <1>1, ChunkFacts
<1> QED BY ONLY <1>1, <1>2 DEF NIL

\* The headers after the chunks T, all of n bytes, show that these are in use.
Untagged(hdr, n, T) == [q \in DOMAIN hdr |-> IF q - n \in T THEN Inuse(hdr[q]) ELSE hdr[q]]

\* A small chunk is taken.
LEMMA TakeSmallStep ==
  ASSUME NEW u, State(heap, call, live, u), TakeSmall
  PROVE  \E v : State(heap', call', live', v)
<1> DEFINE s == At(heap.bins, smallbin_index(nb))
           left == Len(s) - 1 - Stashed(Len(s) - 1)
           w == SubSeq(s, left + 1, Len(s))
           i == smallbin_index(nb)
           c == csize2tidx(nb)
           p == Last(s)
           u2 == Taking(heap, u, {p})
           t == heap.tcache
<1>0. call.pc \in Inner
  BY DEF TakeSmall, Inner
<1>1. /\ HeapOK(heap, u, {}, t) /\ Rec(heap) /\ nb \in ChunkSizes /\ nb \in Nat
  BY ONLY State(heap, call, live, u), <1>0, InnerFacts DEF nb
<1>2. /\ in_smallbin_range(nb) /\ s # << >>
      /\ heap' = [[heap EXCEPT !.entries = Put(@, c, Front(w) \o At(@, c))] EXCEPT
                    !.hdr = Untagged(@, nb, Range(w)), !.bins = Put(@, i, SubSeq(s, 1, left))]
      /\ Got(p) /\ live' = live
  BY DEF TakeSmall, HasSmall, smallbin, WithStash, Untagged, Inuse
<1>3. Proper(heap.bins) /\ IsList(s)
  <2>1. Proper(heap.bins)
    BY ONLY <1>1, ListFacts
  <2> QED BY ONLY <2>1, AtList
<1>4. Len(s) \in Nat /\ Len(s) >= 1
  BY ONLY <1>2, <1>3, EndsList
<1> DEFINE k == Stashed(Len(s) - 1)
<1>5. Len(s) - 1 \in Nat
  BY ONLY <1>4
<1>6. k \in Nat /\ k <= Len(s) - 1 /\ k + Len(At(heap.entries, c)) <= TcacheCount
  BY ONLY <1>1, <1>5, StashedBound
<1>7. left = Len(s) - 1 - k
  OBVIOUS
<1> HIDE DEF k, left
<1>8. left \in Nat /\ left + 1 <= Len(s) /\ Len(s) - 1 - left = k
  BY ONLY <1>4, <1>6, <1>7
<1>9. Len(s) - 1 - left + Len(At(heap.entries, c)) <= TcacheCount
  BY ONLY <1>6, <1>8
<1>10. /\ Same(heap, heap', {"hdr", "bins", "entries"})
       /\ heap'.bins = Put(heap.bins, i, SubSeq(s, 1, left))
       /\ heap'.entries = Put(heap.entries, c, Front(w) \o At(heap.entries, c))
       /\ heap'.hdr = Untagged(heap.hdr, nb, Range(w))
  <2> HIDE DEF w, s, i, c
  <2> QED BY ONLY <1>1, <1>2 DEF Rec, Same, Fields
<1>11. /\ DOMAIN heap'.hdr = DOMAIN heap.hdr
       /\ \A q \in DOMAIN heap.hdr :
            heap'.hdr[q] = IF q - nb \in Range(w) THEN Inuse(heap.hdr[q]) ELSE heap.hdr[q]
  <2> HIDE DEF w
  <2> QED BY ONLY <1>10 DEF Untagged
<1>12. w = SubSeq(s, left + 1, Len(s))
  OBVIOUS
<1> HIDE DEF w
<1>13. TakesSmall(heap, heap', nb, i, c, s, left, w)
  BY ONLY <1>1, <1>2, <1>8, <1>9, <1>10, <1>11, <1>12 DEF TakesSmall
<1>14. HeapOK(heap', u2, {}, t) /\ p \in Members(heap.bins) /\ heap.hdr[p].size = nb
  <2> HIDE DEF s, i, c
  <2> QED BY ONLY <1>1, <1>13, TookSmall
<1>15. p \notin DOMAIN u /\ p \in Nat /\ p # NIL
  BY ONLY <1>1, <1>14, BinnedChunk
<1> HIDE DEF p, u2
<1>16. Adds(u, u2, p) /\ u2[p] = Plain(nb)
  BY ONLY <1>14, <1>15, AddsTaking DEF u2
<1>17. nb >= nb /\ nb < nb + MINSIZE
  BY ONLY <1>1, Units
<1>18. Got(p) /\ live' = live
  BY ONLY <1>2
<1> QED
  BY ONLY State(heap, call, live, u), <1>0, <1>14, <1>16, <1>17, <1>18, GotStep

\* A call goes on inside _int_malloc.
LEMMA StayStep ==
  ASSUME NEW u, State(heap, call, live, u), call.pc \in Inner,
         HeapOK(heap', u, {}, heap.tcache),
         SameCall(call, call', {"pc", "cached", "seen", "iters"}),
         call'.pc \in Inner, call'.cached \in BOOLEAN,
         call'.cached => call'.pc = "unsorted" /\ csize2tidx(nb) \in DOMAIN (heap').entries,
         call'.pc = "sysmalloc" => (heap').hdr[(heap').top].size < nb + MINSIZE,
         live' = live
  PROVE  \E v : State(heap', call', live', v)
<1>1. State(heap', call', live, u)
  BY Stays DEF nb
<1> QED BY ONLY <1>1, live' = live

\* The same, when only call.pc changes.
LEMMA GotoStep ==
  ASSUME NEW u, State(heap, call, live, u), call.pc \in Inner,
         HeapOK(heap', u, {}, heap.tcache),
         NEW x \in Inner, Goto(x), call.cached = FALSE,
         x = "sysmalloc" => (heap').hdr[(heap').top].size < nb + MINSIZE,
         live' = live
  PROVE  \E v : State(heap', call', live', v)
<1>1. DOMAIN call = CallFields
  BY ONLY State(heap, call, live, u), StateFacts
<1>2. SameCall(call, call', {"pc"}) /\ call'.pc = x /\ call'.cached = FALSE
  BY ONLY <1>1, Goto(x), call.cached = FALSE, GotoCall
<1>3. SameCall(call, call', {"pc", "cached", "seen", "iters"})
  BY ONLY <1>2, SameMore
<1>4. call'.pc \in Inner /\ call'.cached \in BOOLEAN /\ ~call'.cached
  BY ONLY <1>2, x \in Inner
<1> QED
  BY ONLY State(heap, call, live, u), call.pc \in Inner, HeapOK(heap', u, {}, heap.tcache),
     <1>2, <1>3, <1>4, x = "sysmalloc" => (heap').hdr[(heap').top].size < nb + MINSIZE,
     live' = live, StayStep

\* The fast bins are consolidated for a large request.
LEMMA EnterUnsortedStep ==
  ASSUME NEW u, State(heap, call, live, u), EnterUnsorted
  PROVE  \E v : State(heap', call', live', v)
<1>0. /\ call.pc \in Inner /\ call.pc # "unsorted" /\ Goto("unsorted") /\ live' = live
      /\ heap' = heap \/ heap' = malloc_consolidate(heap)
  BY DEF EnterUnsorted, Inner
<1>1. HeapOK(heap, u, {}, heap.tcache) /\ call.cached = FALSE
  BY ONLY State(heap, call, live, u), <1>0, InnerFacts
<1>2. HeapOK(heap', u, {}, heap.tcache)
  BY ONLY <1>0, <1>1, Consolidated
<1>3. "unsorted" \in Inner /\ ~("unsorted" = "sysmalloc")
  BY DEF Inner
<1> QED BY ONLY State(heap, call, live, u), <1>0, <1>1, <1>2, <1>3, GotoStep

\* A chunk p that is on no bin any more is split and taken.
LEMMA SplitStep ==
  ASSUME NEW u, State(heap, call, live, u), call.pc \in Inner,
         NEW p, NEW h1, HeapOK(h1, u, {p}, heap.tcache), p \notin DOMAIN u, p \in Nat, p # NIL,
         nb <= h1.hdr[p].size, h1.hdr[p].size \in Nat,
         NEW h2, h2 = split(h1, p, nb), Same(h2, heap', Loose), Got(p), live' = live
  PROVE  \E v : State(heap', call', live', v)
<1> DEFINE z == h1.hdr[p].size
           s == IF z - nb < MINSIZE THEN z ELSE nb
           u2 == With(u, p, Plain(s))
           t == heap.tcache
<1>1. nb \in ChunkSizes /\ nb \in Nat
  BY ONLY State(heap, call, live, u), call.pc \in Inner, InnerFacts DEF nb
<1>2. s >= nb /\ s < nb + MINSIZE
  <2>1. z \in Nat /\ nb <= z /\ MINSIZE \in Nat /\ MINSIZE > 0
    BY Units
  <2> HIDE DEF z
  <2> QED BY ONLY <1>1, <2>1
<1>3. s = IF h1.hdr[p].size - nb < MINSIZE THEN h1.hdr[p].size ELSE nb
  OBVIOUS
<1>4. u2 = With(u, p, Plain(s))
  OBVIOUS
<1> HIDE DEF s, u2, z
<1>5. HeapOK(h2, u2, {}, t)
  BY ONLY <1>1, <1>3, <1>4, HeapOK(h1, u, {p}, heap.tcache), nb <= h1.hdr[p].size,
     h2 = split(h1, p, nb), Split
<1>6. HeapOK(heap', u2, {}, t)
  BY ONLY <1>5, Same(h2, heap', Loose), SameHeap
<1>7. Adds(u, u2, p) /\ u2[p] = Plain(s)
  BY ONLY <1>4, p \notin DOMAIN u, p \in Nat, p # NIL, AddsWith
<1> QED
  BY ONLY State(heap, call, live, u), call.pc \in Inner, <1>2, <1>6, <1>7, Got(p), live' = live,
     GotStep

\* The last chunk of the unsorted bin, when it is off the bin.
LEMMA Visited ==
  ASSUME NEW u, State(heap, call, live, u), Visit
  PROVE  /\ HeapOK(removed, u, {victim}, heap.tcache)
         /\ Same(heap, removed, {"bins", "abort"}) /\ removed.hdr = heap.hdr
         /\ removed.bins = Put(heap.bins, UNSORTED, Front(unsorted))
         /\ victim \in Chunks(heap.hdr, heap.top) /\ victim \notin DOMAIN u /\ victim \in Nat
         /\ victim # NIL /\ victim \in Members(heap.bins)
         /\ size = heap.hdr[victim].size /\ size \in ChunkSizes /\ size \in Nat
         /\ call.pc \in Inner /\ call.pc = "unsorted"
<1> DEFINE s == At(heap.bins, UNSORTED)
           p == Last(s)
           t == heap.tcache
<1>1. call.pc \in Inner /\ call.pc = "unsorted" /\ s # << >> /\ victim = p
  BY DEF Visit, Inner, unsorted, victim
<1>2. HeapOK(heap, u, {}, t) /\ Rec(heap)
  BY ONLY State(heap, call, live, u), <1>1, InnerFacts
<1>3. Same(heap, removed, {"bins", "abort"}) /\ removed.bins = Put(heap.bins, UNSORTED, Front(s))
  <2> DEFINE c == /\ size > CHUNK_HDR_SZ
                  /\ size <= heap.system_mem
                  /\ heap.hdr[victim + size].size >= CHUNK_HDR_SZ
                  /\ heap.hdr[victim + size].size <= heap.system_mem
                  /\ heap.hdr[victim + size].prev_size = size
                  /\ ~heap.hdr[victim + size].prev_inuse
             h1 == Require(heap, c)
  <2>1. removed = [h1 EXCEPT !.bins = Put(@, UNSORTED, Front(s))]
    BY DEF removed, unsorted
  <2>2. h1 = Require(heap, c)
    OBVIOUS
  <2> HIDE DEF c, h1, s
  <2>3. Same(heap, h1, {"abort"})
    BY ONLY <1>2, <2>2, RequireSame
  <2> QED BY ONLY <1>2, <2>1, <2>3 DEF Rec, Same, Fields
<1> HIDE DEF s
<1>4. p = Last(s) /\ s = At(heap.bins, UNSORTED)
  BY DEF s
<1> HIDE DEF p
<1>5. /\ HeapOK(removed, u, {p}, t) /\ p \in Members(heap.bins) /\ removed.hdr = heap.hdr
  BY ONLY <1>1, <1>2, <1>3, <1>4, TookVictim
<1>6. /\ p \in Chunks(heap.hdr, heap.top) /\ p \notin DOMAIN u /\ p \in Nat /\ p # NIL
      /\ heap.hdr[p].size \in ChunkSizes
  BY ONLY <1>2, <1>5, BinnedChunk
<1>7. size = heap.hdr[p].size
  BY ONLY <1>1 DEF size, chunksize
<1>8. size \in Nat
  BY ONLY <1>6, <1>7 DEF ChunkSizes
<1>9. unsorted = s
  BY ONLY <1>4 DEF unsorted
<1> QED BY ONLY <1>1, <1>3, <1>5, <1>6, <1>7, <1>8, <1>9

\* The last remainder is split.
LEMMA SplitLastRemainderStep ==
  ASSUME NEW u, State(heap, call, live, u), SplitLastRemainder
  PROVE  \E v : State(heap', call', live', v)
<1> DEFINE p == victim
           h1 == removed
           h2 == split(h1, p, nb)
<1>1. /\ Visit /\ size > nb + MINSIZE /\ heap' = [h2 EXCEPT !.last_remainder = p + nb]
      /\ Got(p) /\ live' = live
  BY DEF SplitLastRemainder, UseLastRemainder
<1>2. /\ HeapOK(h1, u, {p}, heap.tcache) /\ h1.hdr = heap.hdr
      /\ p \notin DOMAIN u /\ p \in Nat /\ p # NIL
      /\ size = heap.hdr[p].size /\ size \in ChunkSizes /\ size \in Nat /\ call.pc \in Inner
  BY ONLY State(heap, call, live, u), <1>1, Visited
<1>3. nb \in ChunkSizes /\ nb \in Nat
  BY ONLY State(heap, call, live, u), <1>2, InnerFacts DEF nb
<1>4. nb <= size
  BY <1>1, <1>2, <1>3, Units
<1>5. h2 = split(h1, p, nb) /\ nb <= h1.hdr[p].size /\ h1.hdr[p].size \in Nat
  BY ONLY <1>2, <1>4
<1> HIDE DEF h2, h1, p
<1>6. HeapOK(h2, With(u, p, Plain(IF h1.hdr[p].size - nb < MINSIZE THEN h1.hdr[p].size ELSE nb)), {}, heap.tcache)
  BY ONLY <1>2, <1>3, <1>5, Split
<1>7. Rec(h2)
  BY ONLY <1>6 DEF HeapOK
<1>8. Same(h2, heap', Loose)
  BY ONLY <1>1, <1>7 DEF Rec, Same, Fields, Loose
<1> QED BY ONLY State(heap, call, live, u), <1>1, <1>2, <1>5, <1>8, SplitStep

\* A chunk that the cache has for the request is taken from there.
LEMMA CachedStep ==
  ASSUME NEW u, State(heap, call, live, u), call.pc \in Inner,
         NEW h1, HeapOK(h1, u, {}, heap.tcache), NEW i, i = csize2tidx(nb), i \in DOMAIN h1.entries,
         NEW p, p = Head(h1.entries[i]), heap' = tcache_get(h1, i), Got(p), live' = live
  PROVE  \E v : State(heap', call', live', v)
<1> DEFINE u2 == Taking(h1, u, {p})
           t == heap.tcache
<1>1. nb \in ChunkSizes /\ nb \in Nat
  BY ONLY State(heap, call, live, u), call.pc \in Inner, InnerFacts DEF nb
<1>2. u2 = Taking(h1, u, {p})
  OBVIOUS
<1> HIDE DEF u2
<1>3. HeapOK(heap', u2, {}, t) /\ p \in Listed(h1) /\ csize2tidx(h1.hdr[p].size) = i
  BY ONLY HeapOK(h1, u, {}, heap.tcache), i \in DOMAIN h1.entries, p = Head(h1.entries[i]),
     heap' = tcache_get(h1, i), <1>2, Uncaches
<1>4. h1.hdr[p].size \in ChunkSizes /\ p \notin DOMAIN u /\ p \in Nat /\ p \in Chunks(h1.hdr, h1.top)
  BY ONLY HeapOK(h1, u, {}, heap.tcache), <1>3, ListedSize
<1>5. h1.hdr[p].size = nb
  BY ONLY <1>1, <1>3, <1>4, i = csize2tidx(nb), CachedChunksFit
<1>6. p # NIL
  <2>1. p > 0
    BY ONLY HeapOK(h1, u, {}, heap.tcache), <1>4, ChunkFacts
  <2> QED BY ONLY <2>1, <1>4 DEF NIL
<1>7. Adds(u, u2, p) /\ u2[p] = Plain(nb)
  BY ONLY <1>2, <1>4, <1>5, <1>6, AddsTaking
<1>8. nb >= nb /\ nb < nb + MINSIZE
  BY ONLY <1>1, Units
<1> QED
  BY ONLY State(heap, call, live, u), call.pc \in Inner, <1>3, <1>7, <1>8, Got(p), live' = live,
     GotStep

\* A chunk that is put into the cache makes its list there.
LEMMA CacheGrows ==
  ASSUME NEW h, Rec(h), Proper(h.entries), NEW p, NEW h2, h2 = tcache_put(h, p)
  PROVE  csize2tidx(h.hdr[p].size) \in DOMAIN h2.entries
<1> DEFINE i == csize2tidx(h.hdr[p].size)
           s == At(h.entries, i)
           r == <<p>> \o s
<1>1. h2.entries = Put(h.entries, i, r)
  <2> DEFINE c == chunksize(h, p)
  <2>1. h2 = [h EXCEPT !.entries = Put(@, csize2tidx(c), <<p>> \o At(@, csize2tidx(c)))]
    BY ONLY h2 = tcache_put(h, p) DEF tcache_put
  <2>2. c = h.hdr[p].size
    BY DEF chunksize
  <2> HIDE DEF c
  <2>3. h2.entries = Put(h.entries, csize2tidx(c), <<p>> \o At(h.entries, csize2tidx(c)))
    BY ONLY <2>1, Rec(h) DEF Rec, Fields
  <2> QED BY <2>2, <2>3
<1>2. s \in Seq(Nat)
  BY ONLY Proper(h.entries), AtList DEF IsList
<1> HIDE DEF s
<1>3. r # << >>
  <2>1. <<p>> \in Seq({p}) /\ Len(<<p>>) = 1
    OBVIOUS
  <2>2. Len(s) \in Nat
    BY <1>2
  <2>3. Len(<<p>> \o s) = 1 + Len(s)
    <3>1. <<p>> \in Seq(Nat \cup {p}) /\ s \in Seq(Nat \cup {p})
      BY <1>2
    <3> QED BY <3>1, <2>1
  <2>4. Len(<< >>) = 0
    OBVIOUS
  <2> QED BY ONLY <2>2, <2>3, <2>4
<1> HIDE DEF r, i
<1>4. i \in DOMAIN Put(h.entries, i, r)
  BY ONLY <1>3 DEF Put, With
<1> QED BY <1>1, <1>4 DEF i

\* A chunk of the right size is taken or goes to the cache.
LEMMA TakeExactStep ==
  ASSUME NEW u, State(heap, call, live, u), TakeExact
  PROVE  \E v : State(heap', call', live', v)
<1> DEFINE p == victim
           e == victim + size
           h1 == set_inuse_bit(removed, e)
           u1 == With(u, p, Plain(size))
           t == heap.tcache
           i == csize2tidx(nb)
<1>1. /\ Visit /\ size = nb /\ live' = live
      /\ \/ Room(heap, nb) > 0 /\ heap' = tcache_put(h1, p) /\ call' = [call EXCEPT !.cached = TRUE]
         \/ heap' = h1 /\ Got(p)
  BY DEF TakeExact
<1>2. /\ HeapOK(removed, u, {p}, t) /\ removed.hdr = heap.hdr /\ Same(heap, removed, {"bins", "abort"})
      /\ p \notin DOMAIN u /\ p \in Nat /\ p # NIL
      /\ size = heap.hdr[p].size /\ size \in ChunkSizes /\ size \in Nat
      /\ call.pc \in Inner /\ call.pc = "unsorted"
  BY ONLY State(heap, call, live, u), <1>1, Visited
<1>3. e = End(removed.hdr, p) /\ h1 = set_inuse_bit(removed, e) /\ u1 = With(u, p, Plain(removed.hdr[p].size))
  BY ONLY <1>2 DEF End
<1> HIDE DEF p, e, h1, u1
<1>4. HeapOK(h1, u1, {}, t) /\ Same(removed, h1, {"hdr"})
  BY ONLY <1>2, <1>3, Retaken
<1>5. u1 = With(u, p, Plain(nb))
  BY ONLY <1>1, <1>2, <1>3
<1>6. Adds(u, u1, p) /\ u1[p] = Plain(nb)
  BY ONLY <1>2, <1>5, AddsWith
<1>7. /\ nb \in ChunkSizes /\ nb \in Nat /\ DOMAIN call = CallFields
  BY ONLY State(heap, call, live, u), <1>2, InnerFacts DEF nb
<1>8. CASE heap' = h1 /\ Got(p)
  <2>1. nb >= nb /\ nb < nb + MINSIZE
    BY ONLY <1>7, Units
  <2> QED
    BY ONLY State(heap, call, live, u), <1>2, <1>4, <1>6, <1>8, <2>1, <1>1, GotStep
<1>9. CASE Room(heap, nb) > 0 /\ heap' = tcache_put(h1, p) /\ call' = [call EXCEPT !.cached = TRUE]
  <2>1. p \in DOMAIN u1 /\ ~u1[p].mmapped
    BY ONLY <1>6 DEF Adds, Plain
  <2>2. h1.hdr[p].size = nb
    <3>1. u1[p].size = h1.hdr[p].size
      BY ONLY <1>4, <2>1, Known
    <3> QED BY ONLY <3>1, <1>6 DEF Plain
  <2>3. h1.entries = heap.entries
    BY ONLY <1>2, <1>4 DEF Same, Fields
  <2>4. Len(At(h1.entries, i)) + 1 <= TcacheCount
    <3> DEFINE len == Len(At(h1.entries, i))
    <3>1. Len(At(h1.entries, i)) \in Nat
      BY ONLY <1>4, CacheLength
    <3>2. TcacheCount - Len(At(h1.entries, i)) > 0
      BY ONLY <1>9, <2>3 DEF Room
    <3>3. TcacheCount \in Nat
      BY System
    <3> HIDE DEF i
    <3> QED BY ONLY <3>1, <3>2, <3>3
  <2>5. HeapOK(heap', Without(u1, p), {}, t)
    BY ONLY <1>4, <1>9, <2>1, <2>2, <2>4, Caches
  <2>6. HeapOK(heap', u, {}, t)
    <3>1. DOMAIN u = DOMAIN Without(u1, p) /\ \A x \in DOMAIN Without(u1, p) : u[x] = Without(u1, p)[x]
      BY ONLY <1>6 DEF Adds, Without
    <3> QED BY ONLY <2>5, <3>1, SameHeld
  <2>7. i \in DOMAIN (heap').entries
    <3>1. Rec(h1) /\ Proper(h1.entries)
      BY ONLY <1>4, ListFacts
    <3> QED BY ONLY <3>1, <1>9, <2>2, CacheGrows
  <2>8. /\ SameCall(call, call', {"pc", "cached", "seen", "iters"})
        /\ call'.pc = "unsorted" /\ call'.cached = TRUE
    BY ONLY <1>7, <1>9, <1>2 DEF SameCall, CallFields
  <2>9. call'.pc \in Inner /\ call'.cached \in BOOLEAN /\ ~(call'.pc = "sysmalloc")
    BY ONLY <2>8 DEF Inner
  <2> QED
    BY ONLY State(heap, call, live, u), <1>2, <2>6, <2>7, <2>8, <2>9, <1>1, StayStep
<1> QED BY ONLY <1>1, <1>8, <1>9

\* The loop over the unsorted chunks is done.
LEMMA UnsortedDoneStep ==
  ASSUME NEW u, State(heap, call, live, u), UnsortedDone
  PROVE  \E v : State(heap', call', live', v)
<1> DEFINE i == csize2tidx(nb)
           p == Head(heap.entries[i])
<1>1. /\ call.pc \in Inner /\ live' = live
      /\ \/ call.cached /\ heap' = tcache_get(heap, i) /\ Got(p)
         \/ ~call.cached /\ Goto("scan") /\ heap' = heap
  BY Zenon DEF UnsortedDone, Inner
<1>2. /\ HeapOK(heap, u, {}, heap.tcache) /\ call.cached \in BOOLEAN
      /\ call.cached => csize2tidx(call.nb) \in DOMAIN heap.entries
  BY ONLY State(heap, call, live, u), <1>1, InnerFacts
<1>3. CASE call.cached /\ heap' = tcache_get(heap, i) /\ Got(p)
  <2>1. i \in DOMAIN heap.entries
    BY ONLY <1>2, <1>3 DEF nb
  <2>2. i = csize2tidx(nb) /\ p = Head(heap.entries[i])
    OBVIOUS
  <2> HIDE DEF i, p
  <2> QED BY ONLY State(heap, call, live, u), <1>1, <1>2, <1>3, <2>1, <2>2, CachedStep
<1>4. CASE ~call.cached /\ Goto("scan") /\ heap' = heap
  <2>1. call.cached = FALSE
    BY ONLY <1>2, <1>4
  <2>2. "scan" \in Inner /\ ~("scan" = "sysmalloc")
    BY DEF Inner
  <2>3. HeapOK(heap', u, {}, heap.tcache) /\ Goto("scan")
    BY ONLY <1>2, <1>4
  <2> QED BY ONLY State(heap, call, live, u), <1>1, <2>1, <2>2, <2>3, GotoStep
<1> QED BY ONLY <1>1, <1>3, <1>4

\* What a chunk is put into: its bin, which it is not on yet.
LEMMA BinOf ==
  ASSUME NEW h, NEW u, NEW t, NEW p, HeapOK(h, u, {}, t), p \in Members(h.bins),
         NEW g, HeapOK(g, u, {p}, t), g.hdr = h.hdr, g.heads = h.heads,
         g.bins = Put(h.bins, UNSORTED, Front(At(h.bins, UNSORTED))),
         NEW i, i = bin_index(h.hdr[p].size)
  PROVE  /\ At(g.bins, i) = At(h.bins, i) /\ IsList(At(h.bins, i)) /\ p \notin Range(At(h.bins, i))
         /\ i \in 2 .. NBINS - 2
         /\ in_smallbin_range(h.hdr[p].size) <=> i < NSMALLBINS
         /\ i >= NSMALLBINS /\ At(h.bins, i) # << >> => At(h.bins, i)[1] \in h.heads
<1>1. p \in Chunks(h.hdr, h.top) /\ p \in Nat /\ h.hdr[p].size \in ChunkSizes
  BY ONLY HeapOK(h, u, {}, t), p \in Members(h.bins), BinnedChunk
<1>2. i \in 2 .. NBINS - 2
  BY ONLY <1>1, i = bin_index(h.hdr[p].size), BinExists
<1>3. i # UNSORTED
  BY ONLY <1>2 DEF UNSORTED
<1>4. At(g.bins, i) = At(h.bins, i)
  BY ONLY <1>3, g.bins = Put(h.bins, UNSORTED, Front(At(h.bins, UNSORTED))), PutAt
<1>5. Proper(g.bins) /\ Proper(h.bins)
  BY ONLY HeapOK(g, u, {p}, t), HeapOK(h, u, {}, t), ListFacts
<1>6. IsList(At(h.bins, i))
  BY ONLY <1>5, AtList
<1>7. p \notin Members(g.bins)
  BY ONLY HeapOK(g, u, {p}, t) DEF HeapOK
<1>8. On(g.bins, i) \subseteq Members(g.bins)
  BY ONLY <1>5, AtList
<1>9. p \notin Range(At(h.bins, i))
  BY ONLY <1>4, <1>7, <1>8 DEF On
<1>10. in_smallbin_range(h.hdr[p].size) <=> i < NSMALLBINS
  <2> DEFINE s == h.hdr[p].size
  <2>1. s \in ChunkSizes /\ i = bin_index(s)
    BY ONLY <1>1, i = bin_index(h.hdr[p].size)
  <2>2. s = h.hdr[p].size
    OBVIOUS
  <2> HIDE DEF s
  <2>3. s \in Nat
    BY ONLY <2>1 DEF ChunkSizes
  <2>4. CASE in_smallbin_range(s)
    <3>1. smallbin_index(s) \in 2 .. 63
      BY ONLY <2>1, <2>4, SmallIndex
    <3>2. i = smallbin_index(s)
      BY ONLY <2>1, <2>4 DEF bin_index
    <3> QED BY ONLY <2>2, <2>4, <3>1, <3>2 DEF NSMALLBINS
  <2>5. CASE ~in_smallbin_range(s)
    <3>1. s <= s
      BY ONLY <2>3
    <3>2. largebin_index(s) \in 64 .. 126
      BY ONLY <2>3, <2>5, <3>1, LargeIndex
    <3>3. i = largebin_index(s)
      BY ONLY <2>1, <2>5 DEF bin_index
    <3> QED BY ONLY <2>2, <2>5, <3>2, <3>3 DEF NSMALLBINS
  <2> QED BY ONLY <2>4, <2>5
<1>11. ASSUME i >= NSMALLBINS, At(h.bins, i) # << >> PROVE At(h.bins, i)[1] \in h.heads
  <2>1. i \in DOMAIN h.bins /\ At(h.bins, i) = h.bins[i]
    BY ONLY <1>5, <1>11, AtList
  <2>2. Binned(h.hdr, h.bins, h.heads, h.binmap)
    BY ONLY HeapOK(h, u, {}, t) DEF HeapOK
  <2> QED BY ONLY <2>1, <2>2, <1>11 DEF Binned
<1> QED BY ONLY <1>2, <1>4, <1>6, <1>9, <1>10, <1>11

\* A chunk is sorted into its bin.
LEMMA BinVictimStep ==
  ASSUME NEW u, State(heap, call, live, u), BinVictim
  PROVE  \E v : State(heap', call', live', v)
<1> DEFINE p == victim
           i == bin_index(size)
           s == At(heap.bins, i)
           ins == IF in_smallbin_range(size) THEN [list |-> <<p>> \o s, heads |-> heap.heads]
                  ELSE sorted_insert(heap, s, p)
           r == ins.list
           H == ins.heads
           h1 == [removed EXCEPT !.bins = Put(@, i, r), !.heads = H, !.binmap = @ \union {i}]
           c1 == [call EXCEPT !.seen = @ + 1, !.iters = @ + 1]
           c == csize2tidx(nb)
           t == heap.tcache
<1>1. /\ Visit /\ live' = live
      /\ \/ call.cached /\ heap' = tcache_get(h1, c) /\ Got(Head(heap.entries[c]))
         \/ heap' = h1 /\ call' = c1
  BY Zenon DEF BinVictim
<1>2. /\ HeapOK(removed, u, {p}, t) /\ removed.hdr = heap.hdr /\ Same(heap, removed, {"bins", "abort"})
      /\ removed.bins = Put(heap.bins, UNSORTED, Front(unsorted))
      /\ p \notin DOMAIN u /\ p \in Nat /\ p # NIL /\ p \in Members(heap.bins)
      /\ size = heap.hdr[p].size /\ size \in ChunkSizes /\ size \in Nat
      /\ call.pc \in Inner /\ call.pc = "unsorted"
  BY ONLY State(heap, call, live, u), <1>1, Visited
<1>3. /\ HeapOK(heap, u, {}, t) /\ DOMAIN call = CallFields /\ call.cached \in BOOLEAN
      /\ call.cached => csize2tidx(call.nb) \in DOMAIN heap.entries
  BY ONLY State(heap, call, live, u), <1>2, InnerFacts
<1>4. /\ i = bin_index(heap.hdr[p].size) /\ s = At(heap.bins, i)
      /\ r = ins.list /\ H = ins.heads
      /\ ins = IF in_smallbin_range(size) THEN [list |-> <<p>> \o s, heads |-> heap.heads]
               ELSE sorted_insert(heap, s, p)
  BY ONLY <1>2
<1>5. removed.heads = heap.heads /\ removed.binmap = heap.binmap /\ removed.entries = heap.entries /\ Rec(removed)
  BY ONLY <1>2 DEF Same, Fields
<1>6. removed.bins = Put(heap.bins, UNSORTED, Front(At(heap.bins, UNSORTED)))
  BY ONLY <1>2 DEF unsorted
<1>7. h1 = [removed EXCEPT !.bins = Put(@, i, r), !.heads = H, !.binmap = @ \union {i}]
  OBVIOUS
<1> HIDE DEF i, s, ins, r, H, h1, p
<1>8. /\ At(removed.bins, i) = s /\ IsList(s) /\ p \notin Range(s)
      /\ in_smallbin_range(size) <=> i < NSMALLBINS
      /\ i >= NSMALLBINS /\ s # << >> => s[1] \in heap.heads
      /\ i \in 2 .. NBINS - 2
  BY ONLY <1>2, <1>3, <1>4, <1>5, <1>6, BinOf
<1>9. /\ IsList(r) /\ r # << >> /\ Range(r) = Range(s) \cup {p}
      /\ heap.heads \subseteq H /\ H \subseteq heap.heads \cup {p}
      /\ p \in H /\ p \notin heap.heads => i >= NSMALLBINS
      /\ i >= NSMALLBINS => r[1] \in H
  <2>1. CASE in_smallbin_range(size)
    <3>1. r = <<p>> \o s /\ H = heap.heads
      BY ONLY <1>4, <2>1
    <3>2. IsList(<<p>> \o s) /\ Range(<<p>> \o s) = Range(s) \cup {p} /\ <<p>> \o s # << >>
      BY ONLY <1>2, <1>8, ConsList
    <3>3. ~(i >= NSMALLBINS)
      BY ONLY <1>8, <2>1 DEF NSMALLBINS
    <3> QED BY ONLY <3>1, <3>2, <3>3
  <2>2. CASE ~in_smallbin_range(size)
    <3>1. i >= NSMALLBINS
      BY ONLY <1>8, <2>2 DEF NSMALLBINS
    <3>2. r = sorted_insert(heap, s, p).list /\ H = sorted_insert(heap, s, p).heads
      BY ONLY <1>4, <2>2
    <3>3. s # << >> => s[1] \in heap.heads
      BY ONLY <1>8, <3>1
    <3>4. /\ IsList(r) /\ r # << >> /\ Range(r) = Range(s) \cup {p}
          /\ heap.heads \subseteq H /\ H \subseteq heap.heads \cup {p} /\ r[1] \in H
      BY ONLY <1>2, <1>8, <3>2, <3>3, SortedIn
    <3> QED BY ONLY <3>1, <3>4
  <2> QED BY ONLY <2>1, <2>2
<1>10. /\ Same(removed, h1, {"bins", "heads", "binmap"})
       /\ h1.bins = Put(removed.bins, i, r) /\ h1.binmap = removed.binmap \cup {i} /\ h1.heads = H
  BY ONLY <1>5, <1>7 DEF Rec, Same, Fields
<1>11. Inserts(removed, h1, p, i, s, r, H)
  <2>1. i = bin_index(removed.hdr[p].size)
    BY ONLY <1>2, <1>4
  <2> QED BY ONLY <2>1, <1>5, <1>8, <1>9, <1>10 DEF Inserts
<1>12. HeapOK(h1, u, {}, t)
  BY ONLY <1>2, <1>11, Inserted
<1>13. h1.entries = heap.entries
  BY ONLY <1>5, <1>10 DEF Same, Fields
<1>14. CASE call.cached /\ heap' = tcache_get(h1, c) /\ Got(Head(heap.entries[c]))
  <2> DEFINE q == Head(h1.entries[c])
  <2>1. c \in DOMAIN h1.entries /\ Got(q)
    BY ONLY <1>3, <1>13, <1>14 DEF nb
  <2>2. c = csize2tidx(nb) /\ q = Head(h1.entries[c])
    OBVIOUS
  <2> HIDE DEF c, q
  <2> QED BY ONLY State(heap, call, live, u), <1>1, <1>2, <1>12, <1>14, <2>1, <2>2, CachedStep
<1>15. CASE heap' = h1 /\ call' = c1
  <2>1. SameCall(call, call', {"pc", "cached", "seen", "iters"}) /\ call'.pc = "unsorted" /\ call'.cached = call.cached
    BY ONLY <1>2, <1>3, <1>15 DEF SameCall, CallFields
  <2>2. call'.pc \in Inner /\ call'.cached \in BOOLEAN /\ ~(call'.pc = "sysmalloc")
    BY ONLY <1>3, <2>1 DEF Inner
  <2>3. call'.cached => csize2tidx(nb) \in DOMAIN (heap').entries
    BY ONLY <1>3, <1>13, <1>15, <2>1 DEF nb
  <2>4. HeapOK(heap', u, {}, t)
    BY ONLY <1>12, <1>15
  <2> QED
    BY ONLY State(heap, call, live, u), <1>1, <1>2, <2>1, <2>2, <2>3, <2>4, StayStep
<1> QED BY ONLY <1>1, <1>14, <1>15

\* A chunk p of a bin is unlinked, split and taken.
LEMMA UnlinkStep ==
  ASSUME NEW u, State(heap, call, live, u), call.pc \in Inner,
         NEW g, HeapOK(g, u, {}, heap.tcache), NEW p \in Members(g.bins), nb <= g.hdr[p].size,
         NEW h1, h1 = unlink_chunk(g, p), NEW h2, h2 = split(h1, p, nb), Same(h2, heap', Loose),
         Got(p), live' = live
  PROVE  \E v : State(heap', call', live', v)
<1> DEFINE t == heap.tcache
<1>1. HeapOK(h1, u, {p}, t) /\ Same(g, h1, {"bins", "heads", "abort"})
  BY ONLY HeapOK(g, u, {}, heap.tcache), p \in Members(g.bins), h1 = unlink_chunk(g, p), Unlink
<1>2. h1.hdr = g.hdr
  BY ONLY <1>1 DEF Same, Fields
<1>3. p \notin DOMAIN u /\ p \in Nat /\ p # NIL /\ g.hdr[p].size \in ChunkSizes
  BY ONLY HeapOK(g, u, {}, heap.tcache), p \in Members(g.bins), BinnedChunk
<1>4. nb <= h1.hdr[p].size /\ h1.hdr[p].size \in Nat
  BY ONLY <1>2, <1>3, nb <= g.hdr[p].size DEF ChunkSizes
<1> QED
  BY ONLY State(heap, call, live, u), call.pc \in Inner, <1>1, <1>3, <1>4,
     h2 = split(h1, p, nb), Same(h2, heap', Loose), Got(p), live' = live, SplitStep

\* What is left after a chunk of a bin is split.
LEMMA SplitRec ==
  ASSUME NEW g, NEW u, NEW t, HeapOK(g, u, {}, t), NEW p \in Members(g.bins),
         NEW n \in ChunkSizes, n <= g.hdr[p].size
  PROVE  Rec(split(unlink_chunk(g, p), p, n))
<1> DEFINE h1 == unlink_chunk(g, p)
           h2 == split(h1, p, n)
           s == IF h1.hdr[p].size - n < MINSIZE THEN h1.hdr[p].size ELSE n
           u2 == With(u, p, Plain(s))
<1>1. h1 = unlink_chunk(g, p) /\ h2 = split(h1, p, n)
  OBVIOUS
<1>2. s = IF h1.hdr[p].size - n < MINSIZE THEN h1.hdr[p].size ELSE n
  OBVIOUS
<1>3. u2 = With(u, p, Plain(s))
  OBVIOUS
<1> HIDE DEF h1, h2, s, u2
<1>4. HeapOK(h1, u, {p}, t) /\ Same(g, h1, {"bins", "heads", "abort"})
  BY ONLY HeapOK(g, u, {}, t), p \in Members(g.bins), <1>1, Unlink
<1>5. n <= h1.hdr[p].size
  BY ONLY <1>4, n <= g.hdr[p].size DEF Same, Fields
<1>6. HeapOK(h2, u2, {}, t)
  BY ONLY <1>1, <1>2, <1>3, <1>4, <1>5, n \in ChunkSizes, Split
<1>7. Rec(h2)
  BY ONLY <1>6 DEF HeapOK
<1> QED BY <1>7 DEF h1, h2

\* The chunk of a large bin that the skip list leads to is taken.
LEMMA TakeLargeStep ==
  ASSUME NEW u, State(heap, call, live, u), TakeLarge
  PROVE  \E v : State(heap', call', live', v)
<1> DEFINE i == bin_index(nb)
           s == At(heap.bins, i)
           T == {n \in DOMAIN s : s[n] \in heap.heads /\ chunksize(heap, s[n]) >= nb}
           k == Max(T)
           second == k < Len(s) /\ chunksize(heap, s[k + 1]) = chunksize(heap, s[k])
           p == IF second THEN s[k + 1] ELSE s[k]
           h1 == unlink_chunk(heap, p)
           h2 == split(h1, p, nb)
           t == heap.tcache
<1>1. /\ call.pc \in Inner /\ ~in_smallbin_range(nb) /\ s # << >>
      /\ chunksize(heap, Head(s)) >= nb
      /\ heap' = h2 /\ Got(p) /\ live' = live
  BY Zenon DEF TakeLarge, Inner, HasLarge, largebin
<1>16. h1 = unlink_chunk(heap, p) /\ h2 = split(h1, p, nb)
  BY Zenon
<1> HIDE DEF h1, h2
<1>17. p = IF second THEN s[k + 1] ELSE s[k]
  BY Zenon
<1> HIDE DEF p
<1>18. k = Max(T)
  BY Zenon
<1> HIDE DEF k
<1>2. HeapOK(heap, u, {}, t) /\ nb \in ChunkSizes /\ nb \in Nat
  BY ONLY State(heap, call, live, u), <1>1, InnerFacts DEF nb
<1>3. Proper(heap.bins)
  BY ONLY <1>2, ListFacts
<1>4. IsList(s) /\ i \in DOMAIN heap.bins /\ s = heap.bins[i]
  BY ONLY <1>1, <1>3, AtList
<1>5. s[1] \in heap.heads
  <2>1. nb <= nb
    BY ONLY <1>2
  <2>2. largebin_index(nb) \in 64 .. 126
    BY ONLY <1>1, <1>2, <2>1, LargeIndex
  <2>3. i = largebin_index(nb)
    BY ONLY <1>1 DEF bin_index
  <2>4. i >= NSMALLBINS
    BY ONLY <2>2, <2>3 DEF NSMALLBINS
  <2>5. Binned(heap.hdr, heap.bins, heap.heads, heap.binmap)
    BY ONLY <1>2 DEF HeapOK
  <2> HIDE DEF i, s
  <2> QED BY ONLY <1>4, <2>4, <2>5 DEF Binned
<1> HIDE DEF i, s
<1>6. Head(s) = s[1] /\ Len(s) \in Nat /\ Len(s) >= 1
  BY ONLY <1>1, <1>4, EndsList
<1>7. s \in Seq(Nat) /\ DOMAIN s = 1 .. Len(s)
  <2>1. s \in Seq(Nat)
    BY ONLY <1>4 DEF IsList
  <2> QED BY ONLY <2>1, InRange
<1>8. T \subseteq Nat /\ T # {} /\ \A y \in T : y <= Len(s)
  <2>1. 1 \in DOMAIN s
    BY ONLY <1>6, <1>7
  <2>2. 1 \in T
    BY ONLY <2>1, <1>1, <1>5, <1>6
  <2>3. \A y \in T : y \in 1 .. Len(s)
    BY ONLY <1>7
  <2> HIDE DEF T
  <2> QED BY ONLY <2>2, <2>3, <1>6
<1>9. k \in T
  <2> HIDE DEF T
  <2> QED BY ONLY <1>6, <1>8, <1>18, MaxIs
<1>10. k \in 1 .. Len(s) /\ chunksize(heap, s[k]) >= nb
  BY ONLY <1>7, <1>9
<1> HIDE DEF T
<1>11. p \in Range(s) /\ heap.hdr[p].size >= nb
  <2>1. Range(s) = {s[n] : n \in 1 .. Len(s)}
    BY ONLY <1>7, InRange
  <2>2. CASE second
    <3>1. k + 1 \in 1 .. Len(s)
      BY ONLY <1>6, <1>10, <2>2
    <3>2. p = s[k + 1] /\ chunksize(heap, s[k + 1]) >= nb
      BY ONLY <1>10, <1>17, <2>2
    <3>3. s[k + 1] \in Range(s)
      BY ONLY <2>1, <3>1
    <3> QED BY ONLY <3>2, <3>3 DEF chunksize
  <2>3. CASE ~second
    <3>1. p = s[k]
      BY ONLY <1>17, <2>3
    <3>2. s[k] \in Range(s)
      BY ONLY <2>1, <1>10
    <3> QED BY ONLY <1>10, <3>1, <3>2 DEF chunksize
  <2> QED BY ONLY <2>2, <2>3
<1>12. p \in Members(heap.bins)
  BY ONLY <1>4, <1>11 DEF Members
<1>13. nb <= heap.hdr[p].size
  <2>1. heap.hdr[p].size \in ChunkSizes
    BY ONLY <1>2, <1>12, BinnedChunk
  <2>2. heap.hdr[p].size \in Nat
    BY ONLY <2>1 DEF ChunkSizes
  <2> QED BY ONLY <1>2, <1>11, <2>2
<1>14. Rec(heap')
  BY ONLY <1>1, <1>16, <1>2, <1>12, <1>13, SplitRec
<1>15. Same(h2, heap', Loose)
  BY ONLY <1>1, <1>14 DEF Same
<1> QED
  BY ONLY State(heap, call, live, u), <1>1, <1>2, <1>12, <1>13, <1>15, <1>16, UnlinkStep

\* The bin map is corrected: only bits are taken away.
LEMMA Corrected ==
  ASSUME NEW h, NEW u, NEW t, HeapOK(h, u, {}, t), NEW h2, h2 = corrected(h)
  PROVE  HeapOK(h2, u, {}, t) /\ Same(h, h2, {"binmap"})
<1> DEFINE X == {i \in marked : \A j \in larger : i < j}
<1>1. h2 = [h EXCEPT !.binmap = @ \ X]
  BY Zenon, h2 = corrected(h) DEF corrected
<1> HIDE DEF X
<1>2. Rec(h) /\ Binned(h.hdr, h.bins, h.heads, h.binmap) /\ Bounds(h) /\ h.tcache = t
  BY ONLY HeapOK(h, u, {}, t) DEF HeapOK
<1>3. Same(h, h2, {"binmap"}) /\ h2.binmap = h.binmap \ X
  BY ONLY <1>1, <1>2 DEF Rec, Same, Fields
<1>4. h2.binmap \subseteq 2 .. NBINS - 2
  BY ONLY <1>2, <1>3 DEF Binned
<1>5. h2.top_pad \in Nat /\ h2.brk \in h.brk .. HeapEnd /\ t = h2.tcache
  <2>1. h2.top_pad = h.top_pad /\ h2.brk = h.brk /\ h2.tcache = h.tcache
    BY ONLY <1>3 DEF Same, Fields
  <2>2. h.top_pad \in Nat /\ h.brk \in BrkStart .. HeapEnd
    BY ONLY <1>2 DEF Bounds
  <2>3. BrkStart \in Nat /\ HeapEnd \in Nat
    BY System
  <2> QED BY ONLY <1>2, <2>1, <2>2, <2>3
<1>6. Same(h, h2, Loose \cup {"binmap", "tcache", "top_pad", "brk"})
  BY ONLY <1>3 DEF Same
<1> QED BY ONLY HeapOK(h, u, {}, t), <1>3, <1>4, <1>5, <1>6, Adjusted

\* What the next larger bin has fits.
LEMMA LargerFits ==
  ASSUME NEW u, NEW t, HeapOK(heap, u, {}, t), nb \in ChunkSizes, larger # {},
         NEW p, p = Last(heap.bins[Min(larger)])
  PROVE  p \in Members(heap.bins) /\ heap.hdr[p].size > nb
<1> DEFINE j == Min(larger)
<1>1. Proper(heap.bins) /\ Binned(heap.hdr, heap.bins, heap.heads, heap.binmap)
  BY ONLY HeapOK(heap, u, {}, t), ListFacts DEF HeapOK
<1>2. bin_index(nb) \in 2 .. NBINS - 2
  BY ONLY nb \in ChunkSizes, BinExists
<1>3. larger \subseteq heap.binmap /\ \A i \in larger : i > bin_index(nb) /\ At(heap.bins, i) # << >>
  BY DEF larger, marked
<1>4. larger \subseteq Nat
  <2>1. heap.binmap \subseteq Nat
    BY ONLY <1>1 DEF Binned, NBINS
  <2> QED BY ONLY <2>1, <1>3
<1>5. Min(larger) \in larger
  BY ONLY <1>4, larger # {}, MinIs
<1>6. j \in Nat /\ j > bin_index(nb) /\ At(heap.bins, j) # << >> /\ p = Last(heap.bins[j])
  BY ONLY <1>3, <1>4, <1>5, p = Last(heap.bins[Min(larger)])
<1> HIDE DEF j
<1>7. j \in DOMAIN heap.bins /\ At(heap.bins, j) = heap.bins[j] /\ IsList(At(heap.bins, j))
  BY ONLY <1>1, <1>6, AtList
<1>8. IsList(heap.bins[j]) /\ heap.bins[j] # << >>
  BY ONLY <1>6, <1>7
<1>9. p \in Range(heap.bins[j])
  BY ONLY <1>6, <1>8, EndsList
<1>10. p \in Members(heap.bins)
  BY ONLY <1>7, <1>9 DEF Members
<1>11. j # UNSORTED
  <2>1. bin_index(nb) \in Int /\ bin_index(nb) >= 2
    BY ONLY <1>2 DEF NBINS
  <2>2. j > 1
    BY ONLY <1>6, <2>1
  <2> QED BY ONLY <1>6, <2>2 DEF UNSORTED
<1>12. bin_index(heap.hdr[p].size) = j
  BY ONLY <1>1, <1>7, <1>9, <1>11 DEF Binned
<1>13. heap.hdr[p].size \in ChunkSizes
  BY ONLY HeapOK(heap, u, {}, t), <1>10, BinnedChunk
<1>14. bin_index(heap.hdr[p].size) > bin_index(nb)
  BY ONLY <1>6, <1>12
<1>15. heap.hdr[p].size > nb
  BY ONLY nb \in ChunkSizes, <1>13, <1>14, LargerBinFits
<1> QED BY ONLY <1>10, <1>15

\* A chunk of a larger bin is taken.
LEMMA TakeBinnedStep ==
  ASSUME NEW u, State(heap, call, live, u), TakeBinned
  PROVE  \E v : State(heap', call', live', v)
<1> DEFINE p == Last(heap.bins[Min(larger)])
           rest == chunksize(heap, p) - nb
           g1 == Require(heap, rest >= 0)
           g == corrected(g1)
           h1 == unlink_chunk(g, p)
           h2 == split(h1, p, nb)
           t == heap.tcache
           x == rest >= MINSIZE /\ in_smallbin_range(nb)
<1>1. /\ call.pc \in Inner /\ larger # {} /\ Got(p) /\ live' = live
      /\ heap' = [h2 EXCEPT !.last_remainder = IF x THEN p + nb ELSE @]
  BY Zenon DEF TakeBinned, Inner
<1>2. h1 = unlink_chunk(g, p) /\ h2 = split(h1, p, nb)
  BY Zenon
<1> HIDE DEF h1, h2, x
<1>3. g = corrected(g1) /\ g1 = Require(heap, rest >= 0) /\ p = Last(heap.bins[Min(larger)])
  BY Zenon
<1> HIDE DEF g, g1, p
<1>4. HeapOK(heap, u, {}, t) /\ nb \in ChunkSizes /\ nb \in Nat
  BY ONLY State(heap, call, live, u), <1>1, InnerFacts DEF nb
<1>5. p \in Members(heap.bins) /\ heap.hdr[p].size > nb
  BY ONLY <1>1, <1>3, <1>4, LargerFits
<1>6. HeapOK(g1, u, {}, t) /\ Same(heap, g1, {"abort"})
  BY ONLY <1>3, <1>4, Required
<1>7. HeapOK(g, u, {}, t) /\ Same(g1, g, {"binmap"})
  BY ONLY <1>3, <1>6, Corrected
<1>8. g.hdr = heap.hdr /\ g.bins = heap.bins
  BY ONLY <1>6, <1>7 DEF Same, Fields
<1>9. p \in Members(g.bins) /\ nb <= g.hdr[p].size
  <2>1. heap.hdr[p].size \in ChunkSizes
    BY ONLY <1>4, <1>5, BinnedChunk
  <2>2. heap.hdr[p].size \in Nat
    BY ONLY <2>1 DEF ChunkSizes
  <2> QED BY ONLY <1>4, <1>5, <1>8, <2>2
<1>10. Rec(h2)
  BY ONLY <1>2, <1>4, <1>7, <1>9, SplitRec
<1>11. Same(h2, heap', Loose)
  BY ONLY <1>1, <1>10 DEF Rec, Same, Fields, Loose
<1> QED
  BY ONLY State(heap, call, live, u), <1>1, <1>2, <1>7, <1>9, <1>11, UnlinkStep

\* No bin has a chunk that fits.
LEMMA ScanDoneStep ==
  ASSUME NEW u, State(heap, call, live, u), ScanDone
  PROVE  \E v : State(heap', call', live', v)
<1>1. /\ call.pc \in Inner /\ call.pc # "unsorted" /\ Goto("top") /\ live' = live
      /\ heap' = corrected(heap)
  BY DEF ScanDone, Inner
<1>2. HeapOK(heap, u, {}, heap.tcache) /\ call.cached = FALSE
  BY ONLY State(heap, call, live, u), <1>1, InnerFacts
<1>3. HeapOK(heap', u, {}, heap.tcache)
  BY ONLY <1>1, <1>2, Corrected
<1>4. "top" \in Inner /\ ~("top" = "sysmalloc")
  BY DEF Inner
<1> QED BY ONLY State(heap, call, live, u), <1>1, <1>2, <1>3, <1>4, GotoStep

\* What top gives: g is the heap but for what no list and no header shows.
LEMMA CarveStep ==
  ASSUME NEW u, State(heap, call, live, u), call.pc \in Inner,
         NEW g, HeapOK(g, u, {}, heap.tcache), g.hdr[g.top].size >= nb + MINSIZE,
         heap' = carve(g, nb), Got(g.top), live' = live
  PROVE  \E v : State(heap', call', live', v)
<1> DEFINE p == g.top
           u2 == With(u, p, Plain(nb))
<1>1. nb \in ChunkSizes /\ nb \in Nat
  BY ONLY State(heap, call, live, u), call.pc \in Inner, InnerFacts DEF nb
<1>2. p = g.top /\ u2 = With(u, p, Plain(nb)) /\ Got(p)
  BY Got(g.top)
<1> HIDE DEF p, u2
<1>3. /\ HeapOK(heap', u2, {}, heap.tcache)
      /\ p \notin DOMAIN u /\ p # NIL /\ p \in Nat
  BY ONLY <1>1, <1>2, HeapOK(g, u, {}, heap.tcache), g.hdr[g.top].size >= nb + MINSIZE,
     heap' = carve(g, nb), Carved
<1>4. Adds(u, u2, p) /\ u2[p] = Plain(nb)
  BY ONLY <1>2, <1>3, AddsWith
<1>5. nb >= nb /\ nb < nb + MINSIZE
  BY ONLY <1>1, Units
<1> QED
  BY ONLY State(heap, call, live, u), call.pc \in Inner, <1>2, <1>3, <1>4, <1>5, live' = live, GotStep

\* Top serves the request.
LEMMA UseTopStep ==
  ASSUME NEW u, State(heap, call, live, u), UseTop
  PROVE  \E v : State(heap', call', live', v)
<1> DEFINE g == Require(heap, chunksize(heap, heap.top) <= heap.system_mem)
<1>1. /\ call.pc \in Inner /\ TopServes(heap) /\ heap' = carve(g, nb) /\ Got(heap.top) /\ live' = live
  BY DEF UseTop, Inner, top_checked
<1>2. g = Require(heap, chunksize(heap, heap.top) <= heap.system_mem)
  OBVIOUS
<1> HIDE DEF g
<1>3. HeapOK(heap, u, {}, heap.tcache)
  BY ONLY State(heap, call, live, u), <1>1, InnerFacts
<1>4. HeapOK(g, u, {}, heap.tcache) /\ Same(heap, g, {"abort"})
  BY ONLY <1>2, <1>3, Required
<1>5. g.hdr = heap.hdr /\ g.top = heap.top
  BY ONLY <1>4 DEF Same, Fields
<1>6. g.hdr[g.top].size >= nb + MINSIZE /\ Got(g.top)
  BY ONLY <1>1, <1>5 DEF TopServes, chunksize
<1> QED BY ONLY State(heap, call, live, u), <1>1, <1>4, <1>6, CarveStep

\* The fast bins are consolidated and the bins looked through again.
LEMMA ConsolidateStep ==
  ASSUME NEW u, State(heap, call, live, u), ConsolidateAndRetry
  PROVE  \E v : State(heap', call', live', v)
<1> DEFINE g == top_checked
<1>1. /\ call.pc \in Inner /\ call.pc # "unsorted" /\ heap' = malloc_consolidate(g) /\ live' = live
      /\ call' = [call EXCEPT !.pc = "unsorted", !.iters = 0]
  BY DEF ConsolidateAndRetry, Inner
<1>0. g = Require(heap, chunksize(heap, heap.top) <= heap.system_mem)
  BY DEF top_checked
<1> HIDE DEF g
<1>2. HeapOK(heap, u, {}, heap.tcache) /\ call.cached = FALSE /\ DOMAIN call = CallFields
  BY ONLY State(heap, call, live, u), <1>1, InnerFacts
<1>a. HeapOK(g, u, {}, heap.tcache)
  BY ONLY <1>0, <1>2, Required
<1>3. HeapOK(heap', u, {}, heap.tcache)
  BY ONLY <1>1, <1>a, Consolidated
<1>4. /\ SameCall(call, call', {"pc", "cached", "seen", "iters"})
      /\ call'.pc = "unsorted" /\ call'.cached = FALSE
  BY ONLY <1>1, <1>2 DEF SameCall, CallFields
<1>5. call'.pc \in Inner /\ call'.cached \in BOOLEAN /\ ~(call'.pc = "sysmalloc") /\ ~call'.cached
  BY ONLY <1>4 DEF Inner
<1> QED BY ONLY State(heap, call, live, u), <1>1, <1>3, <1>4, <1>5, StayStep

\* Top is too small: the system is asked.
LEMMA AskSystemStep ==
  ASSUME NEW u, State(heap, call, live, u), AskSystem
  PROVE  \E v : State(heap', call', live', v)
<1>1. /\ call.pc \in Inner /\ call.pc # "unsorted" /\ Goto("sysmalloc") /\ live' = live
      /\ heap' = Require(heap, chunksize(heap, heap.top) <= heap.system_mem)
      /\ ~TopServes(heap)
  BY DEF AskSystem, Inner, top_checked
<1>2. HeapOK(heap, u, {}, heap.tcache) /\ call.cached = FALSE /\ nb \in Nat
  BY ONLY State(heap, call, live, u), <1>1, InnerFacts DEF nb
<1>3. HeapOK(heap', u, {}, heap.tcache) /\ Same(heap, heap', {"abort"})
  BY ONLY <1>1, <1>2, Required
<1>5. "sysmalloc" \in Inner
  BY DEF Inner
<1>6. (heap').hdr = heap.hdr /\ (heap').top = heap.top
  BY ONLY <1>3 DEF Same, Fields
<1>4. (heap').hdr[(heap').top].size < nb + MINSIZE
  <2>1. heap.hdr[heap.top].size \in Nat
    BY ONLY <1>2, TopFacts
  <2>2. ~(heap.hdr[heap.top].size >= nb + MINSIZE)
    BY ONLY <1>1 DEF TopServes, chunksize
  <2>3. MINSIZE \in Nat
    BY Units
  <2>4. heap.hdr[heap.top].size < nb + MINSIZE
    BY ONLY <1>2, <2>1, <2>2, <2>3
  <2> QED BY ONLY <1>6, <2>4
<1> QED BY ONLY State(heap, call, live, u), <1>1, <1>2, <1>3, <1>4, <1>5, GotoStep

\* What sbrk is asked for: whole pages.
LEMMA SystemFacts ==
  ASSUME NEW u, State(heap, call, live, u), call.pc = "sysmalloc"
  PROVE  /\ HeapOK(heap, u, {}, heap.tcache) /\ Rec(heap) /\ call.pc \in Inner /\ call.cached = FALSE
         /\ nb \in Nat /\ nb >= MINSIZE /\ old_size \in Nat /\ old_size = heap.hdr[heap.top].size
         /\ sbrk_size \in Nat /\ sbrk_size % Pagesize = 0 /\ sbrk_size >= Pagesize
         /\ old_end = End(heap.hdr, heap.top)
<1> DEFINE z == old_size
           x == nb + heap.top_pad + MINSIZE - (IF heap.contiguous THEN z ELSE 0)
           s == ALIGN_UP(x, Pagesize)
<1>1. call.pc \in Inner /\ ~(call.pc = "unsorted")
  BY DEF Inner
<1>2. /\ HeapOK(heap, u, {}, heap.tcache) /\ Rec(heap) /\ nb \in Nat /\ nb >= MINSIZE
      /\ call.cached = FALSE /\ heap.hdr[heap.top].size < nb + MINSIZE
  BY ONLY State(heap, call, live, u), <1>1, call.pc = "sysmalloc", InnerFacts DEF nb
<1>3. z = heap.hdr[heap.top].size
  BY DEF old_size, old_top, chunksize
<1>4. heap.hdr[heap.top].size \in Nat
  BY ONLY <1>2, TopFacts
<1>5. heap.top_pad \in Nat /\ MINSIZE \in Nat
  <2>1. Bounds(heap)
    BY ONLY <1>2 DEF HeapOK
  <2> QED BY <2>1, Units DEF Bounds
<1>6. z \in Nat /\ z < nb + MINSIZE
  BY ONLY <1>2, <1>3, <1>4
<1> HIDE DEF z
<1>7. x \in Int /\ x > 0
  BY ONLY <1>2, <1>5, <1>6
<1>8. sbrk_size = s
  BY DEF sbrk_size, z
<1> HIDE DEF x
<1>9. s \in Int /\ s % Pagesize = 0 /\ x <= s
  BY ONLY <1>7, RoundPage
<1> HIDE DEF s
<1>10. 0 < s /\ 0 \in Int
  BY ONLY <1>7, <1>9
<1>11. Pagesize \in Nat /\ Pagesize > 0
  BY System
<1>12. 0 % Pagesize = 0
  BY ONLY <1>11, IsMultiple, 0 \in Int, 0 = Pagesize * 0
<1>13. 0 + Pagesize <= s
  BY ONLY <1>9, <1>10, <1>11, <1>12, MultipleGap
<1>14. s \in Nat /\ s >= Pagesize
  BY ONLY <1>9, <1>10, <1>11, <1>13
<1>15. old_end = End(heap.hdr, heap.top)
  BY DEF old_end, old_top, old_size, chunksize, End
<1> QED BY ONLY <1>1, <1>2, <1>3, <1>6, <1>8, <1>9, <1>14, <1>15 DEF z

\* The lowest hole is one.
LEMMA LowestHole ==
  ASSUME NEW u, NEW t, HeapOK(heap, u, {}, t), NEW s \in Nat, s % Pagesize = 0, s > 0,
         MmapHoles(heap, s) # {}
  PROVE  Min(MmapHoles(heap, s)) \in MmapHoles(heap, s)
<1>1. heap.brk \in BrkStart .. HeapEnd
  BY ONLY HeapOK(heap, u, {}, t) DEF HeapOK, Bounds
<1>2. \A a \in MmapHoles(heap, s) : a \in Nat
  BY ONLY <1>1, s \in Nat, s % Pagesize = 0, s > 0, HoleSpace
<1>3. MmapHoles(heap, s) \subseteq Nat
  BY ONLY <1>2
<1> QED BY ONLY <1>3, MmapHoles(heap, s) # {}, MinIs

\* A mapping serves the request.
LEMMA SysMmapStep ==
  ASSUME NEW u, State(heap, call, live, u), SysMmap
  PROVE  \E v : State(heap', call', live', v)
<1> DEFINE s == mmap_size(nb)
           a == Min(MmapHoles(heap, s))
           u2 == With(u, a, Mapping(s, 0))
           t == heap.tcache
<1>1. /\ call.pc = "sysmalloc" /\ MmapHoles(heap, s) # {} /\ live' = live
      /\ heap' = mmapped_chunk(heap, a, s) /\ Got(a)
  BY DEF SysMmap, CanMmap
<1>2. /\ HeapOK(heap, u, {}, t) /\ call.pc \in Inner /\ nb \in Nat /\ nb >= MINSIZE
  BY ONLY State(heap, call, live, u), <1>1, SystemFacts
<1>3. s \in Nat /\ s % Pagesize = 0 /\ s >= nb + SIZE_SZ /\ s >= MINSIZE /\ s > 0
  <2> DEFINE y == nb + SIZE_SZ
  <2>1. SIZE_SZ \in Nat /\ SIZE_SZ > 0 /\ MINSIZE \in Nat
    BY SizesAssumption, Units
  <2>2. y \in Int /\ y > MINSIZE
    BY ONLY <1>2, <2>1
  <2>3. s = ALIGN_UP(y, Pagesize)
    BY DEF mmap_size
  <2> HIDE DEF s
  <2>4. s \in Int /\ s % Pagesize = 0 /\ y <= s
    <3> HIDE DEF y
    <3> QED BY ONLY <2>2, <2>3, RoundPage
  <2>5. s \in Nat /\ s >= MINSIZE /\ s > 0
    <3> HIDE DEF y
    <3> QED BY ONLY <2>1, <2>2, <2>4
  <2> QED BY ONLY <2>1, <2>4, <2>5, <1>2
<1> HIDE DEF s
<1>4. a \in MmapHoles(heap, s)
  BY ONLY <1>1, <1>2, <1>3, LowestHole
<1>5. u2 = With(u, a, Mapping(s, 0))
  OBVIOUS
<1> HIDE DEF a, u2
<1>6. HeapOK(heap', u2, {}, t) /\ a \notin DOMAIN u /\ a # NIL /\ a \in Nat
  BY ONLY <1>1, <1>2, <1>3, <1>4, <1>5, Mmapped
<1>7. Adds(u, u2, a) /\ u2[a] = Mapping(s, 0)
  BY ONLY <1>5, <1>6, AddsWith
<1>8. DOMAIN call = CallFields /\ nb = Wanted(call)
  <2>1. DOMAIN call = CallFields /\ Underway(call, heap.tcache, DOMAIN heap.entries, heap.hdr[heap.top].size)
    BY ONLY State(heap, call, live, u), StateFacts
  <2> QED BY ONLY <2>1, <1>2 DEF Underway, nb
<1>9. SameCall(call, call', {"pc", "p"}) /\ call'.pc = "got" /\ call'.p = a
  BY ONLY <1>1, <1>8, GotCall
<1>10. Adds(u, u2, call'.p) /\ Fits(u2[call'.p], Wanted(call))
  <2>1. Fits(Mapping(s, 0), nb)
    BY ONLY <1>3 DEF Fits, Mapping
  <2> QED BY ONLY <2>1, <1>7, <1>8, <1>9
<1>11. State(heap', call', live, u2)
  BY ONLY State(heap, call, live, u), <1>2, <1>6, <1>9, <1>10, Gets
<1> QED BY ONLY <1>11, <1>1

\* The state when the system gave something or nothing.
LEMMA ExtendedStep ==
  ASSUME NEW u, State(heap, call, live, u), call.pc = "sysmalloc",
         HeapOK(heap', u, {}, heap.tcache), Goto("extended"), live' = live
  PROVE  \E v : State(heap', call', live', v)
<1>1. call.pc \in Inner /\ call.cached = FALSE
  BY ONLY State(heap, call, live, u), call.pc = "sysmalloc", SystemFacts
<1>2. "extended" \in Inner /\ ~("extended" = "sysmalloc")
  BY DEF Inner
<1> QED
  BY ONLY State(heap, call, live, u), <1>1, <1>2, HeapOK(heap', u, {}, heap.tcache),
     Goto("extended"), live' = live, GotoStep

\* sysmalloc takes note of what sbrk or mmap gave.
LEMMA TakesNote ==
  ASSUME Rec(heap), NEW a, NEW s, NEW h1, h1 = got_brk(a, s)
  PROVE  GotBrk(heap, h1, a, s)
<1> DEFINE c == /\ \/ old_top = NIL /\ old_size = 0
                   \/ /\ old_size >= MINSIZE
                      /\ heap.hdr[old_top].prev_inuse
                      /\ old_end % Pagesize = 0
                /\ old_size < nb + MINSIZE
           g == Require(heap, c)
<1>1. g = Require(heap, c)
  OBVIOUS
<1>2. h1 = [g EXCEPT !.sbrk_base = IF @ = 0 THEN a ELSE @, !.system_mem = @ + s]
  BY Zenon, h1 = got_brk(a, s) DEF got_brk, SysEntry
<1> HIDE DEF c, g
<1>3. Same(heap, g, {"abort"})
  BY ONLY Rec(heap), <1>1, RequireSame
<1>4. Rec(g) /\ g.sbrk_base = heap.sbrk_base /\ g.system_mem = heap.system_mem
  BY ONLY <1>3 DEF Same, Fields
<1>5. /\ h1.sbrk_base = (IF heap.sbrk_base = 0 THEN a ELSE heap.sbrk_base)
      /\ h1.system_mem = heap.system_mem + s
  BY ONLY <1>2, <1>4 DEF Rec, Fields
<1>6. Same(heap, h1, Loose \cup {"sbrk_base", "system_mem"})
  BY ONLY <1>2, <1>3, <1>4 DEF Rec, Same, Fields, Loose
<1> QED BY ONLY <1>5, <1>6 DEF GotBrk

\* sbrk extends top.
LEMMA SysExtendStep ==
  ASSUME NEW u, State(heap, call, live, u), SysExtend
  PROVE  \E v : State(heap', call', live', v)
<1> DEFINE s == sbrk_size
           h1 == got_brk(heap.brk, s)
           x == old_size + s
<1>1. /\ call.pc = "sysmalloc" /\ heap.brk + s <= HeapEnd /\ heap.brk = old_end
      /\ heap' = set_head_size([h1 EXCEPT !.brk = @ + s], heap.top, x)
      /\ Goto("extended") /\ live' = live
  BY DEF SysExtend, ByBrk, CanSbrk, old_top
<1>2. /\ HeapOK(heap, u, {}, heap.tcache) /\ Rec(heap) /\ old_size = heap.hdr[heap.top].size
      /\ s \in Nat /\ old_end = End(heap.hdr, heap.top)
  BY ONLY State(heap, call, live, u), <1>1, SystemFacts
<1>3. h1 = got_brk(heap.brk, s) /\ x = heap.hdr[heap.top].size + s
  BY ONLY <1>2
<1> HIDE DEF s, h1, x
<1>4. GotBrk(heap, h1, heap.brk, s)
  BY ONLY <1>2, <1>3, TakesNote
<1>5. ExtendsTop(heap, h1, s)
  BY ONLY <1>1, <1>2, <1>4 DEF ExtendsTop
<1>6. HeapOK(heap', u, {}, heap.tcache)
  BY ONLY <1>1, <1>2, <1>3, <1>5, Extended
<1> QED BY ONLY State(heap, call, live, u), <1>1, <1>6, ExtendedStep

\* Top moves to what the system gave.
LEMMA NewTop ==
  ASSUME NEW u, HeapOK(heap, u, {}, heap.tcache),
         NEW h1, NEW a, NEW b, MovesTop(heap, h1, a, b), NEW h2, h2 = new_top(h1, a, b)
  PROVE  HeapOK(h2, u, {}, heap.tcache)
<1> DEFINE p == heap.top
           s == ALIGN_DOWN(heap.hdr[p].size - 2 * CHUNK_HDR_SZ, MALLOC_ALIGNMENT)
           x == a + CHUNK_HDR_SZ
           hA == Touch([set_head(h1, a, b - a) EXCEPT !.top = a], x)
<1>1. h2 = retire(hA, p, s)
  BY Zenon, h2 = new_top(h1, a, b) DEF new_top, old_top, old_size, chunksize
<1>2. hA = Touch([set_head(h1, a, b - a) EXCEPT !.top = a], x) /\ p = heap.top
      /\ s = ALIGN_DOWN(heap.hdr[p].size - 2 * CHUNK_HDR_SZ, MALLOC_ALIGNMENT)
  OBVIOUS
<1> HIDE DEF hA, p, s, x
<1> QED
  BY ONLY HeapOK(heap, u, {}, heap.tcache), MovesTop(heap, h1, a, b), <1>1, <1>2, Moved

\* The second sbrk makes the start aligned.
LEMMA Skips ==
  ASSUME NEW brk \in Nat, NEW m, m = chunk2mem(brk) % MALLOC_ALIGNMENT,
         NEW skip, skip = IF m > 0 THEN MALLOC_ALIGNMENT - m ELSE 0
  PROVE  skip \in Nat /\ skip <= MALLOC_ALIGNMENT /\ aligned_OK(brk + skip)
<1>1. chunk2mem(brk) = brk + MALLOC_ALIGNMENT
  BY Units DEF chunk2mem
<1>2. m = (brk + MALLOC_ALIGNMENT) % MALLOC_ALIGNMENT
  BY ONLY <1>1, m = chunk2mem(brk) % MALLOC_ALIGNMENT
<1>3. CASE MALLOC_ALIGNMENT = 8
  <2>1. m = (brk + 8) % 8 /\ skip = IF m > 0 THEN 8 - m ELSE 0
    BY ONLY <1>2, <1>3, skip = IF m > 0 THEN MALLOC_ALIGNMENT - m ELSE 0
  <2>2. skip \in Nat /\ skip <= 8 /\ (brk + skip) % 8 = 0
    BY ONLY <2>1, brk \in Nat
  <2> QED BY ONLY <2>2, <1>3 DEF aligned_OK
<1>4. CASE MALLOC_ALIGNMENT = 16
  <2>1. m = (brk + 16) % 16 /\ skip = IF m > 0 THEN 16 - m ELSE 0
    BY ONLY <1>2, <1>4, skip = IF m > 0 THEN MALLOC_ALIGNMENT - m ELSE 0
  <2>2. skip \in Nat /\ skip <= 16 /\ (brk + skip) % 16 = 0
    BY ONLY <2>1, brk \in Nat
  <2> QED BY ONLY <2>2, <1>4 DEF aligned_OK
<1> QED BY <1>3, <1>4, Units

\* What the second sbrk is asked for is not negative.
LEMMA Corrections ==
  ASSUME NEW end \in Nat, NEW skip \in Nat, NEW z \in Nat, end <= HeapEnd,
         NEW w, w = ALIGN_UP(end + skip + z, Pagesize) - end,
         NEW corr, corr = IF end + w <= HeapEnd THEN w ELSE 0
  PROVE  corr \in Nat /\ end + corr <= HeapEnd
<1> DEFINE x == end + skip + z
<1>1. x \in Int /\ x >= end
  OBVIOUS
<1>2. w = ALIGN_UP(x, Pagesize) - end
  OBVIOUS
<1> HIDE DEF x
<1>3. ALIGN_UP(x, Pagesize) \in Int /\ x <= ALIGN_UP(x, Pagesize)
  BY ONLY <1>1, RoundPage
<1>4. HeapEnd \in Nat
  BY System
<1> QED BY ONLY <1>1, <1>2, <1>3, <1>4, end \in Nat, end <= HeapEnd, corr = IF end + w <= HeapEnd THEN w ELSE 0

\* The heap starts, or goes on behind what somebody else has.
LEMMA SysRestartStep ==
  ASSUME NEW u, State(heap, call, live, u), SysRestart
  PROVE  \E v : State(heap', call', live', v)
<1> DEFINE s == sbrk_size
           brk == heap.brk
           m == chunk2mem(brk) % MALLOC_ALIGNMENT
           skip == IF m > 0 THEN MALLOC_ALIGNMENT - m ELSE 0
           end == brk + s
           w == ALIGN_UP(end + skip + old_size, Pagesize) - end
           corr == IF end + w <= HeapEnd THEN w ELSE 0
           c == old_size # 0 => brk >= old_end
           g == got_brk(brk, s)
           hA == Require(g, c)
           h1 == [hA EXCEPT !.system_mem = @ + corr + (IF old_size # 0 THEN brk - old_end ELSE 0),
                            !.brk = end + corr]
           a == brk + skip
           b == end + corr
<1>1. /\ call.pc = "sysmalloc" /\ heap.brk + s <= HeapEnd /\ heap.contiguous
      /\ heap' = new_top(h1, a, b) /\ Goto("extended") /\ live' = live
  BY Zenon DEF SysRestart, ByBrk, CanSbrk
<1>2. h1 = [hA EXCEPT !.system_mem = @ + corr + (IF old_size # 0 THEN brk - old_end ELSE 0),
                      !.brk = end + corr]
  BY Zenon
<1> HIDE DEF h1
<1>3. hA = Require(g, c) /\ g = got_brk(brk, s)
  BY Zenon
<1> HIDE DEF hA, g, c
<1>4. corr = IF end + w <= HeapEnd THEN w ELSE 0
  BY Zenon
<1>5. w = ALIGN_UP(end + skip + old_size, Pagesize) - end
  BY Zenon
<1>6. skip = IF m > 0 THEN MALLOC_ALIGNMENT - m ELSE 0
  BY Zenon
<1>7. m = chunk2mem(brk) % MALLOC_ALIGNMENT
  BY Zenon
<1> HIDE DEF corr, w, skip, m
<1>8. /\ HeapOK(heap, u, {}, heap.tcache) /\ Rec(heap) /\ old_size = heap.hdr[heap.top].size
      /\ old_size \in Nat /\ s \in Nat /\ s >= Pagesize /\ old_end = End(heap.hdr, heap.top)
  BY ONLY State(heap, call, live, u), <1>1, SystemFacts
<1>9. brk \in Nat /\ end \in Nat /\ end <= HeapEnd
  <2>1. heap.brk \in BrkStart .. HeapEnd
    BY ONLY <1>8 DEF HeapOK, Bounds
  <2>2. BrkStart \in Nat /\ HeapEnd \in Nat
    BY System
  <2> HIDE DEF s
  <2> QED BY ONLY <1>1, <1>8, <2>1, <2>2
<1>10. skip \in Nat /\ skip <= MALLOC_ALIGNMENT /\ aligned_OK(brk + skip)
  BY ONLY <1>6, <1>7, <1>9, Skips
<1>11. corr \in Nat /\ end + corr <= HeapEnd
  BY ONLY <1>4, <1>5, <1>8, <1>9, <1>10, Corrections
<1>12. a = heap.brk + skip /\ b = heap.brk + s + corr /\ b = end + corr
  OBVIOUS
<1> HIDE DEF s, a, b
<1>13. Corrects(heap, s, skip, corr, a, b)
  BY ONLY <1>8, <1>10, <1>11, <1>12 DEF Corrects
<1>14. GotBrk(heap, g, heap.brk, s)
  BY ONLY <1>3, <1>8, TakesNote
<1>15. GotBrk(heap, hA, heap.brk, s)
  <2>1. Rec(g)
    BY ONLY <1>14 DEF GotBrk, Same
  <2>2. Same(g, hA, {"abort"})
    BY ONLY <2>1, <1>3, RequireSame
  <2>3. hA.sbrk_base = g.sbrk_base /\ hA.system_mem = g.system_mem
    BY ONLY <2>2 DEF Same, Fields
  <2>4. Same(heap, hA, Loose \cup {"sbrk_base", "system_mem"})
    BY ONLY <2>2, <1>14 DEF GotBrk, Same, Loose
  <2> QED BY ONLY <1>14, <2>3, <2>4 DEF GotBrk
<1>16. Rec(hA)
  BY ONLY <1>15 DEF GotBrk, Same
<1>17. h1 = [hA EXCEPT !.system_mem = @ + corr + (IF old_size # 0 THEN heap.brk - old_end ELSE 0),
                       !.brk = b]
  BY <1>2, <1>12
<1>18. /\ Same(hA, h1, {"system_mem", "brk"}) /\ h1.brk = b
       /\ h1.system_mem = hA.system_mem + corr + (IF old_size # 0 THEN heap.brk - old_end ELSE 0)
  BY ONLY <1>16, <1>17 DEF Rec, Same, Fields
<1> DEFINE e == End(heap.hdr, heap.top)
<1>19. e = End(heap.hdr, heap.top)
  OBVIOUS
<1> HIDE DEF e
<1>20. h1.system_mem = hA.system_mem + corr + (IF heap.hdr[heap.top].size # 0 THEN heap.brk - e ELSE 0)
  BY ONLY <1>8, <1>18, <1>19
<1>21. MovesTop(heap, h1, a, b)
  BY ONLY <1>1, <1>8, <1>13, <1>15, <1>18, <1>19, <1>20, Restarted
<1>22. HeapOK(heap', u, {}, heap.tcache)
  BY ONLY <1>1, <1>8, <1>21, NewTop
<1> QED BY ONLY State(heap, call, live, u), <1>1, <1>22, ExtendedStep

\* What mmap is asked for where sbrk fails.
LEMMA FallbackSize ==
  ASSUME NEW u, State(heap, call, live, u), call.pc = "sysmalloc"
  PROVE  fallback_size \in Nat /\ fallback_size % Pagesize = 0 /\ fallback_size >= Pagesize
<1> DEFINE s == sbrk_size
           z == old_size
           x == s + z
           y == IF heap.contiguous THEN ALIGN_UP(x, Pagesize) ELSE s
           m == MMAP_AS_MORECORE_SIZE
           T == {m, y}
<1>1. s \in Nat /\ s % Pagesize = 0 /\ s >= Pagesize /\ z \in Nat
  BY ONLY State(heap, call, live, u), call.pc = "sysmalloc", SystemFacts
<1>2. fallback_size = Max(T)
  BY Zenon DEF fallback_size
<1> HIDE DEF s, z
<1>3. x \in Int /\ x >= s
  BY ONLY <1>1
<1> HIDE DEF x
<1>4. ALIGN_UP(x, Pagesize) \in Int /\ ALIGN_UP(x, Pagesize) % Pagesize = 0 /\ x <= ALIGN_UP(x, Pagesize)
  BY ONLY <1>3, RoundPage
<1>5. Pagesize \in Nat
  BY System
<1>6. y \in Nat /\ y % Pagesize = 0 /\ y >= Pagesize
  <2>1. CASE heap.contiguous
    BY ONLY <1>1, <1>3, <1>4, <1>5, <2>1
  <2>2. CASE ~heap.contiguous
    BY ONLY <1>1, <2>2
  <2> QED BY ONLY <2>1, <2>2
<1> HIDE DEF y
<1>7. m \in Nat /\ m % Pagesize = 0
  BY SystemAssumption
<1> HIDE DEF m
<1> DEFINE n == m + y
<1>8. T \subseteq Nat /\ T # {} /\ n \in Nat /\ \A v \in T : v <= n
  BY ONLY <1>6, <1>7
<1>9. Max(T) \in T /\ \A v \in T : Max(T) >= v
  <2> HIDE DEF T, n
  <2> QED BY ONLY <1>8, MaxIs
<1>10. Max(T) >= y
  BY ONLY <1>9
<1>11. Max(T) \in Nat /\ Max(T) % Pagesize = 0
  BY ONLY <1>6, <1>7, <1>9
<1> QED BY ONLY <1>2, <1>5, <1>6, <1>10, <1>11

\* The break is not aligned: the assertion fails, and nothing is lost.
LEMMA OnlyNoted ==
  ASSUME NEW u, NEW t, HeapOK(heap, u, {}, t), ~heap.contiguous,
         NEW h1, NEW s \in Int, NEW a, GotBrk(heap, h1, a, s)
  PROVE  HeapOK(h1, u, {}, t)
<1>1. /\ Same(heap, h1, Loose \cup {"sbrk_base", "system_mem"})
      /\ h1.sbrk_base = (IF heap.sbrk_base = 0 THEN a ELSE heap.sbrk_base)
      /\ h1.system_mem = heap.system_mem + s
  BY ONLY GotBrk(heap, h1, a, s) DEF GotBrk
<1>2. Same(heap, h1, Loose \cup Moving)
  BY ONLY <1>1 DEF Same, Moving
<1>3. /\ h1.hdr = heap.hdr /\ h1.top = heap.top /\ h1.brk = heap.brk /\ h1.mapped = heap.mapped
      /\ h1.contiguous = heap.contiguous /\ h1.top_pad = heap.top_pad
  BY ONLY <1>1 DEF Same, Fields, Loose
<1>4. Bounds(heap)
  BY ONLY HeapOK(heap, u, {}, t) DEF HeapOK
<1>5. heap.top # NIL /\ heap.sbrk_base # 0
  BY ONLY <1>4, ~heap.contiguous DEF Bounds
<1>6. h1.sbrk_base = heap.sbrk_base
  BY ONLY <1>1, <1>5
<1>7. h1.system_mem \in Int
  <2>1. heap.system_mem \in Int
    BY ONLY <1>4 DEF Bounds
  <2> QED BY ONLY <2>1, <1>1, s \in Int
<1>8. Bounds(h1)
  BY ONLY <1>3, <1>4, <1>5, <1>6, <1>7, ~heap.contiguous DEF Bounds
<1>9. /\ Shape(h1.hdr, h1.top, Space(h1.brk, h1.mapped), h1.contiguous, h1.sbrk_base)
      /\ Tagged(h1.hdr, h1.top, Members(heap.bins))
  <2>1. /\ Shape(heap.hdr, heap.top, Space(heap.brk, heap.mapped), heap.contiguous, heap.sbrk_base)
        /\ Tagged(heap.hdr, heap.top, Members(heap.bins))
    BY ONLY HeapOK(heap, u, {}, t), LaidOut
  <2> QED BY ONLY <1>3, <1>6, <2>1
<1>10. Untouched(heap, u, h1, u, {}) /\ Disposed(h1, u, {})
  BY ONLY <1>3 DEF Untouched, Disposed
<1>11. {} \cap Listed(heap) = {} /\ {} \cap Members(heap.bins) = {}
  OBVIOUS
<1> QED BY ONLY HeapOK(heap, u, {}, t), <1>2, <1>8, <1>9, <1>10, <1>11, Rebuilt

\* sbrk gave more where the heap is not contiguous.
LEMMA SysNoncontiguousStep ==
  ASSUME NEW u, State(heap, call, live, u), SysNoncontiguous
  PROVE  \E v : State(heap', call', live', v)
<1> DEFINE s == sbrk_size
           b == heap.brk + s
           g == got_brk(heap.brk, s)
           c == aligned_OK(chunk2mem(heap.brk))
           hA == Require(g, c)
           h1 == [hA EXCEPT !.brk = b]
<1>1. /\ call.pc = "sysmalloc" /\ heap.brk + s <= HeapEnd /\ ~heap.contiguous
      /\ heap' = IF hA.abort THEN hA ELSE new_top(h1, heap.brk, b)
      /\ Goto("extended") /\ live' = live
  BY Zenon DEF SysNoncontiguous, ByBrk, CanSbrk
<1>2. h1 = [hA EXCEPT !.brk = b]
  BY Zenon
<1> HIDE DEF h1
<1>3. hA = Require(g, c) /\ g = got_brk(heap.brk, s)
  BY Zenon
<1> HIDE DEF hA, g
<1>4. /\ HeapOK(heap, u, {}, heap.tcache) /\ Rec(heap) /\ s \in Nat /\ s >= Pagesize
  BY ONLY State(heap, call, live, u), <1>1, SystemFacts
<1>5. b = heap.brk + s
  OBVIOUS
<1> HIDE DEF s, b
<1>6. GotBrk(heap, g, heap.brk, s)
  BY ONLY <1>3, <1>4, TakesNote
<1>7. Rec(g)
  BY ONLY <1>6 DEF GotBrk, Same
<1>8. Same(g, hA, {"abort"}) /\ (~c => hA.abort)
  <2> HIDE DEF c
  <2> QED BY ONLY <1>7, <1>3, RequireSame
<1>9. GotBrk(heap, hA, heap.brk, s) /\ Rec(hA)
  <2>1. hA.sbrk_base = g.sbrk_base /\ hA.system_mem = g.system_mem
    BY ONLY <1>8 DEF Same, Fields
  <2>2. Same(heap, hA, Loose \cup {"sbrk_base", "system_mem"})
    BY ONLY <1>8, <1>6 DEF GotBrk, Same, Loose
  <2> QED BY ONLY <1>6, <2>1, <2>2 DEF GotBrk, Same
<1>10. HeapOK(heap', u, {}, heap.tcache)
  <2>1. CASE hA.abort
    <3>1. s \in Int
      BY ONLY <1>4
    <3>2. HeapOK(hA, u, {}, heap.tcache)
      BY ONLY <1>1, <1>4, <1>9, <3>1, OnlyNoted
    <3> QED BY ONLY <1>1, <2>1, <3>2
  <2>2. CASE ~hA.abort
    <3>1. c
      BY ONLY <1>8, <2>2
    <3>2. heap.brk \in Int
      <4>1. heap.brk \in BrkStart .. HeapEnd /\ BrkStart \in Nat
        BY <1>4, System DEF HeapOK, Bounds
      <4> QED BY ONLY <4>1
    <3>3. aligned_OK(heap.brk)
      <4> DEFINE y == heap.brk + MALLOC_ALIGNMENT
      <4>1. aligned_OK(y)
        BY ONLY <3>1, Units DEF chunk2mem
      <4>2. MALLOC_ALIGNMENT \in Int /\ aligned_OK(MALLOC_ALIGNMENT)
        BY Units
      <4>3. y \in Int /\ heap.brk = y - MALLOC_ALIGNMENT
        BY ONLY <3>2, <4>2
      <4> HIDE DEF y
      <4>4. aligned_OK(y - MALLOC_ALIGNMENT)
        BY ONLY <4>1, <4>2, <4>3, AlignedSum
      <4> QED BY ONLY <4>3, <4>4
    <3>4. Same(hA, h1, {"brk"}) /\ h1.brk = b
      BY ONLY <1>2, <1>9 DEF Rec, Same, Fields
    <3>5. b <= HeapEnd
      BY ONLY <1>1, <1>5
    <3>6. MovesTop(heap, h1, heap.brk, b)
      BY ONLY <1>1, <1>4, <1>5, <1>9, <3>3, <3>4, <3>5, MovedToBreak
    <3>7. heap' = new_top(h1, heap.brk, b)
      BY ONLY <1>1, <2>2
    <3> QED BY ONLY <1>4, <3>6, <3>7, NewTop
  <2> QED BY ONLY <2>1, <2>2
<1> QED BY ONLY State(heap, call, live, u), <1>1, <1>10, ExtendedStep

\* A mapping extends the heap.
LEMMA SysFallbackStep ==
  ASSUME NEW u, State(heap, call, live, u), SysFallback
  PROVE  \E v : State(heap', call', live', v)
<1> DEFINE s == fallback_size
           a == Min(MmapHoles(heap, s))
           b == a + s
           hA == got_brk(a, s)
           h1 == [hA EXCEPT !.contiguous = FALSE, !.mapped = @ \union Pages(a, s)]
<1>1. /\ call.pc = "sysmalloc" /\ MmapHoles(heap, s) # {}
      /\ heap' = new_top(h1, a, b) /\ Goto("extended") /\ live' = live
  BY Zenon DEF SysFallback
<1>2. h1 = [hA EXCEPT !.contiguous = FALSE, !.mapped = @ \union Pages(a, s)]
  BY Zenon
<1> HIDE DEF h1
<1>3. hA = got_brk(a, s) /\ a = Min(MmapHoles(heap, s)) /\ b = a + s
  BY Zenon
<1> HIDE DEF hA, b, a
<1>4. /\ HeapOK(heap, u, {}, heap.tcache) /\ Rec(heap)
  BY ONLY State(heap, call, live, u), <1>1, SystemFacts
<1>5. s \in Nat /\ s % Pagesize = 0 /\ s >= Pagesize
  BY ONLY State(heap, call, live, u), <1>1, FallbackSize
<1> HIDE DEF s
<1>6. s > 0
  <2>1. Pagesize \in Nat /\ Pagesize > 0
    BY System
  <2> QED BY ONLY <2>1, <1>5
<1>7. a \in MmapHoles(heap, s)
  BY ONLY <1>1, <1>3, <1>4, <1>5, <1>6, LowestHole
<1>8. GotBrk(heap, hA, a, s)
  BY ONLY <1>3, <1>4, TakesNote
<1>9. Rec(hA)
  BY ONLY <1>8 DEF GotBrk, Same
<1>10. /\ Same(hA, h1, {"contiguous", "mapped"}) /\ h1.contiguous = FALSE
       /\ h1.mapped = hA.mapped \cup Pages(a, s)
  BY ONLY <1>2, <1>9 DEF Rec, Same, Fields
<1>11. MovesTop(heap, h1, a, b)
  BY ONLY <1>3, <1>4, <1>5, <1>7, <1>8, <1>10, FallenBack
<1>12. HeapOK(heap', u, {}, heap.tcache)
  BY ONLY <1>1, <1>4, <1>11, NewTop
<1> QED BY ONLY State(heap, call, live, u), <1>1, <1>12, ExtendedStep

\* The system gives nothing.
LEMMA SysFailStep ==
  ASSUME NEW u, State(heap, call, live, u), SysFail
  PROVE  \E v : State(heap', call', live', v)
<1> DEFINE c == /\ \/ old_top = NIL /\ old_size = 0
                   \/ /\ old_size >= MINSIZE
                      /\ heap.hdr[old_top].prev_inuse
                      /\ old_end % Pagesize = 0
                /\ old_size < nb + MINSIZE
<1>1. /\ call.pc = "sysmalloc" /\ heap' = Require(heap, c) /\ Goto("extended") /\ live' = live
  BY Zenon DEF SysFail, SysEntry
<1> HIDE DEF c
<1>2. HeapOK(heap, u, {}, heap.tcache)
  BY ONLY State(heap, call, live, u), <1>1, SystemFacts
<1>3. HeapOK(heap', u, {}, heap.tcache)
  BY ONLY <1>1, <1>2, Required
<1> QED BY ONLY State(heap, call, live, u), <1>1, <1>3, ExtendedStep

\* Top, extended or not, serves the request or does not.
LEMMA SysFinishStep ==
  ASSUME NEW u, State(heap, call, live, u), SysFinish
  PROVE  \E v : State(heap', call', live', v)
<1> DEFINE m == Max({heap.max_system_mem, heap.system_mem})
           h1 == [heap EXCEPT !.max_system_mem = m]
<1>1. /\ call.pc \in Inner /\ live' = live
      /\ \/ TopServes(heap) /\ heap' = carve(h1, nb) /\ Got(heap.top)
         \/ heap' = h1 /\ Got(NIL)
  <2>1. h1 = [heap EXCEPT !.max_system_mem = Max({@, heap.system_mem})]
    OBVIOUS
  <2> HIDE DEF h1
  <2> QED BY <2>1 DEF SysFinish, Inner, old_top
<1>2. h1 = [heap EXCEPT !.max_system_mem = m]
  OBVIOUS
<1> HIDE DEF h1, m
<1>3. HeapOK(heap, u, {}, heap.tcache) /\ Rec(heap) /\ DOMAIN call = CallFields
  BY ONLY State(heap, call, live, u), <1>1, InnerFacts
<1>4. Same(heap, h1, Loose) /\ h1.hdr = heap.hdr /\ h1.top = heap.top
  BY ONLY <1>2, <1>3 DEF Rec, Same, Fields, Loose
<1>5. HeapOK(h1, u, {}, heap.tcache)
  BY ONLY <1>3, <1>4, SameHeap
<1>6. CASE TopServes(heap) /\ heap' = carve(h1, nb) /\ Got(heap.top)
  <2>1. h1.hdr[h1.top].size >= nb + MINSIZE /\ Got(h1.top)
    BY ONLY <1>4, <1>6 DEF TopServes, chunksize
  <2> QED BY ONLY State(heap, call, live, u), <1>1, <1>5, <1>6, <2>1, CarveStep
<1>7. CASE heap' = h1 /\ Got(NIL)
  <2>1. SameCall(call, call', {"pc", "p"}) /\ call'.pc = "got" /\ call'.p = NIL
    BY ONLY <1>3, <1>7, GotCall
  <2>2. HeapOK(heap', u, {}, heap.tcache)
    BY ONLY <1>5, <1>7
  <2>3. State(heap', call', live, u)
    BY ONLY State(heap, call, live, u), <1>1, <2>1, <2>2, Gets
  <2> QED BY ONLY <2>3, <1>1
<1> QED BY ONLY <1>1, <1>6, <1>7

\* Every step of _int_malloc leaves a state of the program.
LEMMA IntMallocSteps ==
  ASSUME NEW u, State(heap, call, live, u), IntMallocStep
  PROVE  \E v : State(heap', call', live', v)
BY ONLY State(heap, call, live, u), IntMallocStep, TakeFastStep, TakeSmallStep, EnterUnsortedStep,
   SplitLastRemainderStep, TakeExactStep, BinVictimStep, UnsortedDoneStep, TakeLargeStep,
   TakeBinnedStep, ScanDoneStep, UseTopStep, ConsolidateStep, AskSystemStep, SysMmapStep,
   SysExtendStep, SysRestartStep, SysNoncontiguousStep, SysFallbackStep, SysFailStep, SysFinishStep
   DEF IntMallocStep

----------------------------------------------------------------------------
(* The steps before and after _int_malloc.                                 *)

\* The chunk that a call is about is in somebody's hands.
Handles(h, u, p) ==
  /\ p \in DOMAIN u /\ p \in DOMAIN h.hdr /\ p \in Nat
  /\ u[p].size = h.hdr[p].size /\ u[p].mmapped = h.hdr[p].mmapped
  /\ u[p].size \in Nat /\ u[p].mmapped \in BOOLEAN

\* What is known when a call starts,
LEMMA StartFacts ==
  ASSUME NEW h, NEW c, NEW l, NEW u, State(h, c, l, u), c.pc = "start"
  PROVE  /\ HeapOK(h, u, {}, h.tcache) /\ Rec(h) /\ DOMAIN c = CallFields
         /\ c.init = FALSE /\ c.cached \in BOOLEAN /\ c.req \in Nat
         /\ c.op \in {"realloc", "recopy", "free"} => Handles(h, u, c.old)
         /\ c.op \in {"realloc", "recopy"} => c.old \in DOMAIN l
<1>1. /\ HeapOK(h, u, {}, h.tcache) /\ Rec(h) /\ DOMAIN c = CallFields
      /\ DOMAIN u = HeldBy(c, l, h.tcache) /\ CallTyped(c)
      /\ Underway(c, h.tcache, DOMAIN h.entries, h.hdr[h.top].size)
      /\ OldBlock(c, l, u, h.tcache)
  BY ONLY State(h, c, l, u), StateFacts
<1>2. c.init = FALSE /\ c.cached \in BOOLEAN /\ c.req \in Nat
  <2>1. c.init \in BOOLEAN /\ ~c.init /\ c.cached \in BOOLEAN /\ c.req \in Nat
    BY ONLY <1>1, c.pc = "start" DEF Underway, CallTyped, Asking, Inner
  <2> QED BY ONLY <2>1
<1>3. c.op \in {"realloc", "recopy"} => c.old \in DOMAIN l
  BY ONLY <1>1 DEF OldBlock
<1>4. ASSUME c.op \in {"realloc", "recopy", "free"} PROVE Handles(h, u, c.old)
  <2>1. c.old \in DOMAIN u
    <3>1. c.old \in HeldBy(c, l, h.tcache)
      BY ONLY <1>3, <1>4, c.pc = "start" DEF HeldBy, Blocks
    <3> QED BY ONLY <1>1, <3>1
  <2> DEFINE p == c.old
  <2>2. p \in DOMAIN u
    BY ONLY <2>1
  <2> HIDE DEF p
  <2>3. Handles(h, u, p)
    BY ONLY <1>1, <2>2, Known DEF Handles
  <2> QED BY <2>3 DEF p
<1> QED BY ONLY <1>1, <1>2, <1>3, <1>4

\* How _int_malloc starts.
Starting(c, n, c2) ==
  /\ SameCall(c, c2, {"pc", "nb", "cached", "seen", "iters", "p"})
  /\ \/ c2.pc = "entry" /\ c2.nb = request2size(n) /\ c2.cached = FALSE
     \/ c2.pc = "got" /\ c2.p = NIL /\ c2.cached = c.cached

\* when it goes on to _int_malloc,
LEMMA IntMallocCall ==
  ASSUME NEW c, DOMAIN c = CallFields, NEW n
  PROVE  Starting(c, n, IntMalloc(c, n))
<1> DEFINE c2 == IntMalloc(c, n)
<1>0. c2 = IntMalloc(c, n)
  OBVIOUS
<1> HIDE DEF c2
<1>1. ASSUME Acceptable(n) PROVE Starting(c, n, c2)
  <2>1. c2 = [c EXCEPT !.pc = "entry", !.nb = request2size(n),
                       !.cached = FALSE, !.seen = 0, !.iters = 0]
    BY ONLY <1>1, <1>0 DEF IntMalloc
  <2> QED BY ONLY <2>1, DOMAIN c = CallFields DEF Starting, SameCall, CallFields
<1>2. ASSUME ~Acceptable(n) PROVE Starting(c, n, c2)
  <2>1. c2 = [c EXCEPT !.pc = "got", !.p = NIL]
    BY ONLY <1>2, <1>0 DEF IntMalloc
  <2> QED BY ONLY <2>1, DOMAIN c = CallFields DEF Starting, SameCall, CallFields
<1>3. Starting(c, n, c2)
  BY ONLY <1>1, <1>2
<1> QED BY ONLY <1>0, <1>3

\* What Enters asks for.
Entering(h, c, l, u, h2, c2) ==
  /\ State(h, c, l, u) /\ c.pc = "start" /\ HeapOK(h2, u, {}, h.tcache)
  /\ SameCall(c, c2, {"pc", "nb", "cached", "seen", "iters", "p", "init", "tried",
                      "oldtop", "oldtopsize", "dirty"})
  /\ c2.init \in BOOLEAN /\ (c2.init => h.tcache = NONE) /\ (c2.init \/ c.op # "free")
  /\ \/ c2.pc = "entry" /\ c2.nb = Wanted(c2) /\ c2.cached = FALSE
     \/ c2.pc = "got" /\ c2.p = NIL /\ c2.cached = c.cached
  /\ c.op = "realloc" => ~u[c.old].mmapped /\ (c2.init \/ u[c.old].size < request2size(c.req))

\* and when it is there.
LEMMA Entered ==
  ASSUME NEW h, NEW c, NEW l, NEW u, NEW h2, NEW c2, Entering(h, c, l, u, h2, c2)
  PROVE  State(h2, c2, l, u)
BY ONLY Entering(h, c, l, u, h2, c2), Enters DEF Entering

\* A call enters _int_malloc: c is the call as it is then.
LEMMA EnterStep ==
  ASSUME NEW u, State(heap, call, live, u), call.pc = "start",
         HeapOK(heap', u, {}, heap.tcache), live' = live,
         NEW c, SameCall(call, c, {"init", "tried", "oldtop", "oldtopsize", "dirty"}),
         c.init \in BOOLEAN, c.init => heap.tcache = NONE, c.init \/ call.op # "free",
         NEW n, request2size(n) = Wanted(c), call' = IntMalloc(c, n),
         call.op = "realloc" =>
           ~u[call.old].mmapped /\ (c.init \/ u[call.old].size < request2size(call.req))
  PROVE  \E v : State(heap', call', live', v)
<1> DEFINE c2 == IntMalloc(c, n)
<1>1. DOMAIN c = CallFields
  BY ONLY SameCall(call, c, {"init", "tried", "oldtop", "oldtopsize", "dirty"}) DEF SameCall
<1>2. c2 = IntMalloc(c, n) /\ call' = c2
  BY ONLY call' = IntMalloc(c, n)
<1> HIDE DEF c2
<1>3. /\ SameCall(c, c2, {"pc", "nb", "cached", "seen", "iters", "p"})
      /\ \/ c2.pc = "entry" /\ c2.nb = request2size(n) /\ c2.cached = FALSE
         \/ c2.pc = "got" /\ c2.p = NIL /\ c2.cached = c.cached
  <2>1. Starting(c, n, IntMalloc(c, n))
    BY ONLY <1>1, IntMallocCall
  <2> QED BY ONLY <1>2, <2>1 DEF Starting
<1>4. c2.init = c.init /\ c2.op = c.op /\ c2.req = c.req /\ c2.align = c.align /\ c.cached = call.cached
      /\ c.op = call.op /\ c.req = call.req
  BY ONLY <1>3, SameCall(call, c, {"init", "tried", "oldtop", "oldtopsize", "dirty"})
     DEF SameCall, CallFields
<1>5. SameCall(call, c2, {"pc", "nb", "cached", "seen", "iters", "p", "init", "tried",
                          "oldtop", "oldtopsize", "dirty"})
  BY ONLY <1>3, SameCall(call, c, {"init", "tried", "oldtop", "oldtopsize", "dirty"}) DEF SameCall
<1>6. Wanted(c2) = Wanted(c)
  BY ONLY <1>4 DEF Wanted
<1>7. \/ c2.pc = "entry" /\ c2.nb = Wanted(c2) /\ c2.cached = FALSE
      \/ c2.pc = "got" /\ c2.p = NIL /\ c2.cached = call.cached
  BY ONLY <1>3, <1>4, <1>6, request2size(n) = Wanted(c)
<1>8. /\ c2.init \in BOOLEAN
      /\ c2.init => heap.tcache = NONE
      /\ c2.init \/ call.op # "free"
      /\ call.op = "realloc" =>
           ~u[call.old].mmapped /\ (c2.init \/ u[call.old].size < request2size(call.req))
  BY ONLY <1>4, c.init \in BOOLEAN, c.init => heap.tcache = NONE, c.init \/ call.op # "free",
     call.op = "realloc" =>
       ~u[call.old].mmapped /\ (c.init \/ u[call.old].size < request2size(call.req))
<1>9. Entering(heap, call, live, u, heap', c2)
  BY ONLY State(heap, call, live, u), call.pc = "start", HeapOK(heap', u, {}, heap.tcache),
     <1>5, <1>7, <1>8 DEF Entering
<1>10. State(heap', c2, live, u)
  BY ONLY <1>9, Entered
<1> QED BY ONLY <1>2, <1>10, live' = live

\* The cache is made: a call for its structure comes first.
LEMMA TcacheInitStep ==
  ASSUME NEW u, State(heap, call, live, u), TcacheInit
  PROVE  \E v : State(heap', call', live', v)
<1> DEFINE c == [call EXCEPT !.init = TRUE, !.tried = TRUE]
<1>0. /\ call.pc = "start" /\ MustInitTcache /\ call' = IntMalloc(c, TcacheStruct)
      /\ heap' = heap /\ live' = live
  BY Zenon DEF TcacheInit
<1>1. /\ HeapOK(heap, u, {}, heap.tcache) /\ DOMAIN call = CallFields
      /\ call.op \in {"realloc", "recopy", "free"} => Handles(heap, u, call.old)
  BY ONLY State(heap, call, live, u), <1>0, StartFacts
<1>2. heap.tcache = NONE /\ (call.op \in {"free", "realloc"} => ~mmapped(call.old))
  BY ONLY <1>0 DEF MustInitTcache
<1>3. /\ SameCall(call, c, {"init", "tried", "oldtop", "oldtopsize", "dirty"})
      /\ c.init = TRUE /\ c.op = call.op
  BY ONLY <1>1 DEF SameCall, CallFields
<1> HIDE DEF c
<1>4. request2size(TcacheStruct) = Wanted(c)
  BY ONLY <1>3 DEF Wanted
<1>5. call.op = "realloc" =>
        ~u[call.old].mmapped /\ (c.init \/ u[call.old].size < request2size(call.req))
  BY ONLY <1>1, <1>2, <1>3 DEF Handles, mmapped
<1>6. HeapOK(heap', u, {}, heap.tcache) /\ c.init \in BOOLEAN
  BY ONLY <1>0, <1>1, <1>3
<1>7. (c.init => heap.tcache = NONE) /\ (c.init \/ call.op # "free")
  BY ONLY <1>2, <1>3
<1> QED
  BY ONLY State(heap, call, live, u), <1>0, <1>3, <1>4, <1>5, <1>6, <1>7, EnterStep

\* A call that needs nothing else enters _int_malloc as it is.
LEMMA PlainEnterStep ==
  ASSUME NEW u, State(heap, call, live, u), call.pc = "start",
         call.op \in {"malloc", "calloc", "recopy", "memalign"}, heap' = heap, live' = live,
         NEW c, SameCall(call, c, {"oldtop", "oldtopsize", "dirty"}),
         NEW n, request2size(n) = Wanted(call), call' = IntMalloc(c, n)
  PROVE  \E v : State(heap', call', live', v)
<1>1. HeapOK(heap, u, {}, heap.tcache) /\ DOMAIN call = CallFields /\ call.init = FALSE
  BY ONLY State(heap, call, live, u), call.pc = "start", StartFacts
<1>2. /\ SameCall(call, c, {"init", "tried", "oldtop", "oldtopsize", "dirty"})
      /\ c.init = FALSE /\ c.op = call.op /\ c.req = call.req /\ c.align = call.align
  BY ONLY <1>1, SameCall(call, c, {"oldtop", "oldtopsize", "dirty"}) DEF SameCall, CallFields
<1>3. Wanted(c) = Wanted(call)
  BY ONLY <1>1, <1>2 DEF Wanted
<1>4. request2size(n) = Wanted(c)
  BY ONLY <1>3, request2size(n) = Wanted(call)
<1>5. /\ c.init \in BOOLEAN /\ HeapOK(heap', u, {}, heap.tcache)
      /\ (c.init => heap.tcache = NONE) /\ (c.init \/ call.op # "free")
      /\ (call.op = "realloc" =>
           ~u[call.old].mmapped /\ (c.init \/ u[call.old].size < request2size(call.req)))
  BY ONLY <1>1, <1>2, heap' = heap, call.op \in {"malloc", "calloc", "recopy", "memalign"}
<1> QED
  BY ONLY State(heap, call, live, u), call.pc = "start", live' = live, <1>2, <1>4, <1>5,
     call' = IntMalloc(c, n), EnterStep

\* malloc without a cached chunk.
LEMMA MallocStep ==
  ASSUME NEW u, State(heap, call, live, u), Malloc
  PROVE  \E v : State(heap', call', live', v)
<1>0. /\ call.pc = "start" /\ call.op \in {"malloc", "recopy"}
      /\ call' = IntMalloc(call, call.req) /\ heap' = heap /\ live' = live
  BY Zenon DEF Malloc, Started
<1>1. DOMAIN call = CallFields /\ call.init = FALSE
  BY ONLY State(heap, call, live, u), <1>0, StartFacts
<1>2. /\ SameCall(call, call, {"oldtop", "oldtopsize", "dirty"})
      /\ call.op \in {"malloc", "calloc", "recopy", "memalign"}
      /\ request2size(call.req) = Wanted(call)
  BY ONLY <1>0, <1>1 DEF SameCall, Wanted
<1> QED BY ONLY State(heap, call, live, u), <1>0, <1>2, PlainEnterStep

\* calloc notes what top was.
LEMMA CallocStep ==
  ASSUME NEW u, State(heap, call, live, u), Calloc
  PROVE  \E v : State(heap', call', live', v)
<1>0. PICK z, d :
        /\ call.pc = "start" /\ call.op \in {"calloc"} /\ heap' = heap /\ live' = live
        /\ call' = IntMalloc([call EXCEPT !.oldtop = heap.top, !.oldtopsize = z, !.dirty = d],
                             call.req)
  BY Zenon DEF Calloc, Started
<1> DEFINE c == [call EXCEPT !.oldtop = heap.top, !.oldtopsize = z, !.dirty = d]
<1>1. DOMAIN call = CallFields /\ call.init = FALSE
  BY ONLY State(heap, call, live, u), <1>0, StartFacts
<1>2. call' = IntMalloc(c, call.req)
  BY ONLY <1>0
<1>3. /\ SameCall(call, c, {"oldtop", "oldtopsize", "dirty"})
      /\ call.op \in {"malloc", "calloc", "recopy", "memalign"}
      /\ request2size(call.req) = Wanted(call)
  BY ONLY <1>0, <1>1 DEF SameCall, Wanted, CallFields
<1> HIDE DEF c
<1> QED BY ONLY State(heap, call, live, u), <1>0, <1>2, <1>3, PlainEnterStep

\* memalign asks for room to move in, or returns NULL.
LEMMA MemalignStep ==
  ASSUME NEW u, State(heap, call, live, u), Memalign
  PROVE  \E v : State(heap', call', live', v)
<1> DEFINE n == request2size(call.req) + call.align + MINSIZE
<1>0. /\ call.pc = "start" /\ call.op \in {"memalign"} /\ heap' = heap /\ live' = live
      /\ call' = IF Acceptable(call.req) THEN IntMalloc(call, n)
                 ELSE [call EXCEPT !.pc = "return", !.p = NIL]
  BY Zenon DEF Memalign, Started
<1>1. HeapOK(heap, u, {}, heap.tcache) /\ DOMAIN call = CallFields /\ call.init = FALSE
  BY ONLY State(heap, call, live, u), <1>0, StartFacts
<1>2. /\ SameCall(call, call, {"oldtop", "oldtopsize", "dirty"})
      /\ call.op \in {"malloc", "calloc", "recopy", "memalign"}
      /\ request2size(n) = Wanted(call)
  BY ONLY <1>0, <1>1 DEF SameCall, Wanted
<1> HIDE DEF n
<1>3. ASSUME Acceptable(call.req) PROVE \E v : State(heap', call', live', v)
  <2>1. call' = IntMalloc(call, n)
    BY ONLY <1>0, <1>3
  <2> QED BY ONLY State(heap, call, live, u), <1>0, <1>2, <2>1, PlainEnterStep
<1>4. ASSUME ~Acceptable(call.req) PROVE \E v : State(heap', call', live', v)
  <2>1. call' = [call EXCEPT !.pc = "return", !.p = NIL]
    BY ONLY <1>0, <1>4
  <2>2. /\ SameCall(call, call', {"pc", "p", "clear", "copied"})
        /\ call'.pc = "return" /\ call'.p = NIL
    BY ONLY <1>1, <2>1 DEF SameCall, CallFields
  <2>3. ~call.init /\ call.op # "free" /\ HeapOK(heap', u, {}, heap.tcache)
    BY ONLY <1>0, <1>1
  <2>4. State(heap', call', live, u)
    BY ONLY State(heap, call, live, u), <1>0, <2>2, <2>3, ReturnsNull
  <2> QED BY ONLY <1>0, <2>4
<1> QED BY ONLY <1>3, <1>4

\* A size less the mask is a request for that size.
LEMMA RequestAgain ==
  ASSUME NEW n \in ChunkSizes
  PROVE  request2size(n - MALLOC_ALIGN_MASK) = n
<1>1. n \in Nat /\ n >= MINSIZE /\ n % MALLOC_ALIGNMENT = 0
  BY DEF ChunkSizes, aligned_OK
<1>2. /\ SIZE_SZ \in Nat /\ SIZE_SZ > 0 /\ SIZE_SZ < MALLOC_ALIGNMENT /\ MINSIZE \in Nat
      /\ MALLOC_ALIGNMENT \in {8, 16}
  <2>1. \/ SIZE_SZ = 4 /\ MALLOC_ALIGNMENT = 8 /\ MINSIZE = 16
        \/ SIZE_SZ = 4 /\ MALLOC_ALIGNMENT = 16 /\ MINSIZE = 16
        \/ SIZE_SZ = 8 /\ MALLOC_ALIGNMENT = 16 /\ MINSIZE = 32
    BY ONLY Builds
  <2> QED BY ONLY <2>1
<1> DEFINE x == n - MALLOC_ALIGN_MASK + SIZE_SZ + MALLOC_ALIGN_MASK
<1>3. MALLOC_ALIGN_MASK \in Int
  BY ONLY <1>2 DEF MALLOC_ALIGN_MASK
<1>4. x = n + SIZE_SZ
  BY ONLY <1>1, <1>2, <1>3
<1> HIDE DEF x
<1>5. ~(x < MINSIZE)
  BY ONLY <1>1, <1>2, <1>4
<1>6. x % MALLOC_ALIGNMENT = SIZE_SZ
  <2>1. CASE MALLOC_ALIGNMENT = 8
    <3>1. n % 8 = 0 /\ SIZE_SZ < 8
      BY ONLY <1>1, <1>2, <2>1
    <3>2. (n + SIZE_SZ) % 8 = SIZE_SZ
      BY ONLY <1>1, <1>2, <3>1
    <3> QED BY ONLY <2>1, <3>2, <1>4
  <2>2. CASE MALLOC_ALIGNMENT = 16
    <3>1. n % 16 = 0 /\ SIZE_SZ < 16
      BY ONLY <1>1, <1>2, <2>2
    <3>2. (n + SIZE_SZ) % 16 = SIZE_SZ
      BY ONLY <1>1, <1>2, <3>1
    <3> QED BY ONLY <2>2, <3>2, <1>4
  <2> QED BY ONLY <1>2, <2>1, <2>2
<1>7. ALIGN_DOWN(x, MALLOC_ALIGNMENT) = n
  <2>1. x - (x % MALLOC_ALIGNMENT) = n
    BY ONLY <1>1, <1>2, <1>4, <1>6
  <2> QED BY ONLY <2>1 DEF ALIGN_DOWN
<1> QED BY <1>5, <1>7 DEF request2size, x

\* What realloc of a chunk of the heap knows.
LEMMA ReallocFacts ==
  ASSUME NEW u, State(heap, call, live, u), ReallocStart(FALSE)
  PROVE  /\ HeapOK(heap, u, {}, heap.tcache) /\ DOMAIN call = CallFields
         /\ call.pc = "start" /\ call.op = "realloc" /\ call.init = FALSE
         /\ old \in DOMAIN u /\ old \in DOMAIN live /\ ~u[old].mmapped
         /\ u[old].size = heap.hdr[old].size /\ oldsize = heap.hdr[old].size /\ oldsize \in Nat
         /\ next = End(heap.hdr, old) /\ onb \in ChunkSizes /\ onb \in Nat
         /\ call.req \in Nat
         /\ old = call.old /\ onb = request2size(call.req)
<1>0. call.pc = "start" /\ call.op = "realloc" /\ mmapped(old) = FALSE
  BY Zenon DEF ReallocStart, Started
<1>1. /\ HeapOK(heap, u, {}, heap.tcache) /\ DOMAIN call = CallFields /\ call.init = FALSE
      /\ Handles(heap, u, call.old) /\ call.old \in DOMAIN live /\ call.req \in Nat
  BY ONLY State(heap, call, live, u), <1>0, StartFacts
<1>2. old = call.old /\ onb = request2size(call.req) /\ oldsize = heap.hdr[old].size
      /\ next = End(heap.hdr, old) /\ mmapped(old) = heap.hdr[old].mmapped
  BY DEF old, onb, oldsize, next, next_chunk, chunksize, End, mmapped
<1>3. onb \in ChunkSizes
  BY ONLY <1>1, <1>2, RequestServed
<1>4. onb \in Nat
  BY ONLY <1>3 DEF ChunkSizes
<1>5. /\ old \in DOMAIN u /\ old \in DOMAIN live /\ ~u[old].mmapped
      /\ u[old].size = heap.hdr[old].size /\ oldsize \in Nat
  BY ONLY <1>0, <1>1, <1>2 DEF Handles
<1> QED BY ONLY <1>0, <1>1, <1>2, <1>3, <1>4, <1>5

\* realloc asks _int_malloc for another chunk.
LEMMA ReallocElsewhereStep ==
  ASSUME NEW u, State(heap, call, live, u), ReallocElsewhere
  PROVE  \E v : State(heap', call', live', v)
<1> DEFINE n == onb - MALLOC_ALIGN_MASK
<1>0. /\ ReallocStart(FALSE) /\ oldsize < onb /\ heap' = ReallocChecked
      /\ call' = IntMalloc(call, n) /\ live' = live
  BY Zenon DEF ReallocElsewhere
<1>1. /\ HeapOK(heap, u, {}, heap.tcache) /\ DOMAIN call = CallFields
      /\ call.pc = "start" /\ call.op = "realloc" /\ call.init = FALSE
      /\ ~u[call.old].mmapped /\ u[call.old].size = oldsize /\ onb \in ChunkSizes
      /\ onb = request2size(call.req)
  BY ONLY State(heap, call, live, u), <1>0, ReallocFacts
<1>2. HeapOK(heap', u, {}, heap.tcache)
  BY ONLY <1>0, <1>1, Required DEF ReallocChecked
<1>3. request2size(n) = onb
  BY ONLY <1>1, RequestAgain
<1> HIDE DEF n
<1>4. Wanted(call) = onb
  BY ONLY <1>1 DEF Wanted
<1>5. SameCall(call, call, {"init", "tried", "oldtop", "oldtopsize", "dirty"})
  BY ONLY <1>1 DEF SameCall
<1>6. call.op = "realloc" =>
        ~u[call.old].mmapped /\ (call.init \/ u[call.old].size < request2size(call.req))
  BY ONLY <1>0, <1>1
<1>7. /\ call.init \in BOOLEAN /\ request2size(n) = Wanted(call)
      /\ (call.init => heap.tcache = NONE) /\ (call.init \/ call.op # "free")
  BY ONLY <1>1, <1>3, <1>4
<1> QED
  BY ONLY State(heap, call, live, u), <1>0, <1>1, <1>2, <1>5, <1>6, <1>7, EnterStep

\* The cache, the padding and the break can change.
LEMMA Adjusts ==
  ASSUME NEW h, NEW u, NEW t, HeapOK(h, u, {}, t),
         NEW h2, Same(h, h2, Loose \cup {"tcache", "top_pad", "brk"}),
         h2.top_pad \in Nat, h2.brk \in h.brk .. HeapEnd
  PROVE  HeapOK(h2, u, {}, h2.tcache)
<1>1. Binned(h.hdr, h.bins, h.heads, h.binmap)
  BY ONLY HeapOK(h, u, {}, t) DEF HeapOK
<1>2. h2.binmap = h.binmap
  BY ONLY Same(h, h2, Loose \cup {"tcache", "top_pad", "brk"}) DEF Same, Fields, Loose
<1>3. h2.binmap \subseteq 2 .. NBINS - 2
  BY ONLY <1>1, <1>2 DEF Binned
<1>4. Same(h, h2, Loose \cup {"binmap", "tcache", "top_pad", "brk"})
  BY ONLY Same(h, h2, Loose \cup {"tcache", "top_pad", "brk"}) DEF Same
<1> QED
  BY ONLY HeapOK(h, u, {}, t), <1>3, <1>4, h2.top_pad \in Nat, h2.brk \in h.brk .. HeapEnd, Adjusted

\* The bounds of the break and of the padding.
LEMMA BreakBounds ==
  ASSUME NEW h, NEW u, NEW F, NEW t, HeapOK(h, u, F, t)
  PROVE  /\ Rec(h) /\ h.top_pad \in Nat /\ h.brk \in h.brk .. HeapEnd /\ h.brk \in Nat
         /\ h.brk \in BrkStart .. HeapEnd /\ HeapEnd \in Nat /\ h.tcache = t
<1>1. Rec(h) /\ h.top_pad \in Nat /\ h.brk \in BrkStart .. HeapEnd /\ h.tcache = t
  BY ONLY HeapOK(h, u, F, t) DEF HeapOK, Bounds
<1>2. BrkStart \in Nat /\ HeapEnd \in Nat
  BY System
<1> QED BY ONLY <1>1, <1>2

\* The cache is there, or there was no space for it.
LEMMA TcacheReadyStep ==
  ASSUME NEW u, State(heap, call, live, u), TcacheReady
  PROVE  \E v : State(heap', call', live', v)
<1>0. /\ call.pc = "got" /\ call.init /\ live' = live
      /\ heap' = IF call.p = NIL THEN heap ELSE [heap EXCEPT !.tcache = call.p]
      /\ call' = [call EXCEPT !.pc = "start", !.init = FALSE]
  BY DEF TcacheReady
<1>1. HeapOK(heap, u, {}, heap.tcache) /\ DOMAIN call = CallFields
  BY ONLY State(heap, call, live, u), StateFacts
<1>2. /\ Rec(heap) /\ heap.top_pad \in Nat /\ heap.brk \in heap.brk .. HeapEnd
  BY ONLY <1>1, BreakBounds
<1>3. Same(heap, heap', {"tcache"}) /\ (heap').tcache = (IF call.p = NIL THEN heap.tcache ELSE call.p)
  BY ONLY <1>0, <1>2 DEF Rec, Same, Fields
<1>4. HeapOK(heap', u, {}, (heap').tcache)
  <2>1. Same(heap, heap', Loose \cup {"tcache", "top_pad", "brk"})
    BY ONLY <1>3 DEF Same
  <2>2. (heap').top_pad \in Nat /\ (heap').brk \in heap.brk .. HeapEnd
    BY ONLY <1>2, <1>3 DEF Same, Fields
  <2> QED BY ONLY <1>1, <2>1, <2>2, Adjusts
<1>5. SameCall(call, call', {"pc", "init"}) /\ call'.pc = "start" /\ call'.init = FALSE
  BY ONLY <1>0, <1>1 DEF SameCall, CallFields
<1>6. State(heap', call', live, u)
  <2>1. call.pc = "got" /\ call.init
    BY ONLY <1>0
  <2>2. (heap').tcache = (IF call.p = NIL THEN heap.tcache ELSE call.p)
    BY ONLY <1>3
  <2> QED BY ONLY State(heap, call, live, u), <2>1, <2>2, <1>4, <1>5, CacheReady, Zenon
<1> QED BY ONLY <1>0, <1>6

\* A request that a cached chunk serves.
LEMMA MallocCachedStep ==
  ASSUME NEW u, State(heap, call, live, u), MallocCached
  PROVE  \E v : State(heap', call', live', v)
<1> DEFINE n == request2size(call.req)
           i == csize2tidx(n)
           p == Head(heap.entries[i])
           u2 == Taking(heap, u, {p})
<1>0. /\ call.pc = "start" /\ call.op \in {"malloc", "recopy"}
      /\ At(heap.entries, i) # << >> /\ heap' = tcache_get(heap, i) /\ Got(p) /\ live' = live
  BY Zenon DEF MallocCached, Started, HasCached, usize2tidx
<1>1. /\ HeapOK(heap, u, {}, heap.tcache) /\ DOMAIN call = CallFields /\ call.init = FALSE
      /\ call.req \in Nat
  BY ONLY State(heap, call, live, u), <1>0, StartFacts
<1>2. n \in ChunkSizes
  BY ONLY <1>1, RequestServed
<1>3. Wanted(call) = n
  BY ONLY <1>0, <1>1 DEF Wanted
<1>a. i = csize2tidx(n) /\ p = Head(heap.entries[i]) /\ u2 = Taking(heap, u, {p})
  OBVIOUS
<1> HIDE DEF u2
<1> HIDE DEF p
<1> HIDE DEF i
<1> HIDE DEF n
<1>4. i \in DOMAIN heap.entries
  BY ONLY <1>0, <1>1, ListFacts, AtList
<1>5. HeapOK(heap', u2, {}, heap.tcache) /\ p \in Listed(heap) /\ csize2tidx(heap.hdr[p].size) = i
  BY ONLY <1>0, <1>1, <1>4, <1>a, Uncaches
<1>6. heap.hdr[p].size \in ChunkSizes /\ p \notin DOMAIN u /\ p \in Nat
      /\ p \in Chunks(heap.hdr, heap.top)
  BY ONLY <1>1, <1>5, ListedSize
<1>7. heap.hdr[p].size = n
  BY ONLY <1>2, <1>5, <1>6, <1>a, CachedChunksFit
<1>8. p # NIL
  <2>1. p > 0
    BY ONLY <1>1, <1>6, ChunkFacts
  <2> QED BY ONLY <2>1, <1>6 DEF NIL
<1>9. Adds(u, u2, p) /\ u2[p] = Plain(n)
  <2>1. Adds(u, u2, p) /\ u2[p] = Plain(heap.hdr[p].size)
    <3>1. p \notin DOMAIN u /\ p \in Nat /\ p # NIL /\ u2 = Taking(heap, u, {p})
      BY ONLY <1>6, <1>8, <1>a
    <3> QED BY ONLY <3>1, AddsTaking
  <2> QED BY ONLY <2>1, <1>7
<1>10. Fits(u2[p], Wanted(call))
  <2>1. n >= n /\ n < n + MINSIZE
    BY ONLY <1>2, Units DEF ChunkSizes
  <2>2. Fits(Plain(n), n)
    BY ONLY <2>1, FitsPlain
  <2> QED BY ONLY <2>2, <1>3, <1>9
<1>11. SameCall(call, call', {"pc", "p"}) /\ call'.pc = "got" /\ call'.p = p
  BY ONLY <1>0, <1>1, GotCall
<1>12. Adds(u, u2, call'.p) /\ Fits(u2[call'.p], Wanted(call))
  BY ONLY <1>9, <1>10, <1>11
<1>13. State(heap', call', live, u2)
  BY ONLY State(heap, call, live, u), <1>0, <1>5, <1>11, <1>12, Gets
<1> QED BY ONLY <1>0, <1>13

\* What somebody has is a chunk: it is aligned, has a size and is not top.
LEMMA HeldChunk ==
  ASSUME NEW h, NEW u, NEW F, NEW t, HeapOK(h, u, F, t), NEW p \in DOMAIN u
  PROVE  /\ p \in DOMAIN h.hdr /\ p \in Nat /\ p > 0 /\ p # NIL /\ aligned_OK(p) /\ p # h.top
         /\ u[p].size = h.hdr[p].size /\ u[p].mmapped = h.hdr[p].mmapped
         /\ u[p].size \in Nat /\ u[p].mmapped \in BOOLEAN /\ u[p].size >= MINSIZE
<1>1. /\ p \in DOMAIN h.hdr /\ p \in Nat
      /\ u[p].size = h.hdr[p].size /\ u[p].mmapped = h.hdr[p].mmapped
      /\ u[p].size \in Nat /\ u[p].mmapped \in BOOLEAN
  BY ONLY HeapOK(h, u, F, t), p \in DOMAIN u, Known
<1>2. p # h.top /\ u[p].size >= MINSIZE
  <2>1. CASE u[p].mmapped
    <3>1. HoldsMapping(h, u, p)
      BY ONLY HeapOK(h, u, F, t), p \in DOMAIN u, <2>1, MappedFacts
    <3> QED BY ONLY <1>1, <3>1 DEF HoldsMapping, MappedAt
  <2>2. CASE ~u[p].mmapped
    <3>1. p \in Chunks(h.hdr, h.top)
      BY ONLY HeapOK(h, u, F, t), p \in DOMAIN u, <2>2, HeldFacts
    <3> QED BY ONLY HeapOK(h, u, F, t), <1>1, <3>1, ChunkFacts
  <2> QED BY ONLY <2>1, <2>2
<1>3. Typed(h.hdr, h.top)
  BY ONLY HeapOK(h, u, F, t) DEF HeapOK, Laid, Shape
<1>4. aligned_OK(p) /\ p > 0
  BY ONLY <1>1, <1>2, <1>3 DEF Typed
<1> QED BY ONLY <1>1, <1>2, <1>4 DEF NIL

\* What a call knows when _int_malloc is done.
LEMMA GotFacts ==
  ASSUME NEW h, NEW c, NEW l, NEW u, State(h, c, l, u), c.pc = "got", ~c.init
  PROVE  /\ HeapOK(h, u, {}, h.tcache) /\ Rec(h) /\ DOMAIN c = CallFields
         /\ c.op # "free" /\ c.req \in Nat
         /\ c.align \in Nat /\ c.align > 0 /\ aligned_OK(c.align)
         /\ (c.op # "memalign" => c.align = MALLOC_ALIGNMENT)
         /\ DOMAIN u = DOMAIN l \cup {q \in {c.p} : q # NIL} \cup {q \in {h.tcache} : q # NONE /\ q # SHUT}
         /\ (c.p # NIL => /\ c.p \in DOMAIN u /\ c.p \notin DOMAIN l /\ c.p # h.tcache
                          /\ Fits(u[c.p], Wanted(c)))
         /\ (c.op \in {"realloc", "recopy"} => c.old \in DOMAIN l /\ c.old \in DOMAIN u)
         /\ (c.op \notin {"realloc", "recopy"} => c.old = NIL)
         /\ h.tcache \notin DOMAIN l
<1>1. /\ HeapOK(h, u, {}, h.tcache) /\ Rec(h) /\ DOMAIN c = CallFields
      /\ DOMAIN u = HeldBy(c, l, h.tcache) /\ CallTyped(c)
      /\ Underway(c, h.tcache, DOMAIN h.entries, h.hdr[h.top].size)
      /\ OldBlock(c, l, u, h.tcache) /\ NewChunk(c, l, u, h.tcache) /\ InUse(c, l, u, h.tcache)
  BY ONLY State(h, c, l, u), StateFacts
<1>2. c.op # "free"
  BY ONLY <1>1, c.pc = "got", ~c.init DEF Underway, Asking
<1>3. DOMAIN u = DOMAIN l \cup {q \in {c.p} : q # NIL} \cup {q \in {h.tcache} : q # NONE /\ q # SHUT}
  BY ONLY <1>1, <1>2, c.pc = "got" DEF HeldBy, Blocks
<1>4. c.p # NIL => /\ c.p \in DOMAIN u /\ c.p \notin DOMAIN l /\ c.p # h.tcache
                   /\ Fits(u[c.p], Wanted(c))
  BY ONLY <1>1, <1>3, c.pc = "got" DEF NewChunk
<1>5. /\ (c.op \in {"realloc", "recopy"} => c.old \in DOMAIN l /\ c.old \in DOMAIN u)
      /\ (c.op \notin {"realloc", "recopy"} => c.old = NIL)
      /\ h.tcache \notin DOMAIN l
  BY ONLY <1>1, <1>2, <1>3 DEF OldBlock, InUse
<1>6. /\ c.req \in Nat /\ c.align \in Nat /\ c.align > 0 /\ aligned_OK(c.align)
      /\ (c.op # "memalign" => c.align = MALLOC_ALIGNMENT)
  BY ONLY <1>1 DEF CallTyped
<1> QED BY ONLY <1>1, <1>2, <1>3, <1>4, <1>5, <1>6

\* A chunk that fits the request serves it.
LEMMA FitServes ==
  ASSUME NEW f, f.size \in Nat, f.mmapped \in BOOLEAN, NEW r \in Nat, Fits(f, request2size(r))
  PROVE  /\ usable(f) \in Int /\ usable(f) >= r
         /\ usable(f) >= request2size(r) - SIZE_SZ
         /\ (~f.mmapped => f.size <= request2size(r) + MINSIZE)
<1> DEFINE n == request2size(r)
           s == f.size
           b == usable(f)
<1>1. n \in ChunkSizes /\ n >= r + SIZE_SZ
  BY RequestServed
<1>2. n \in Nat /\ SIZE_SZ \in Nat /\ CHUNK_HDR_SZ = 2 * SIZE_SZ /\ MINSIZE \in Nat
  BY ONLY <1>1, Units, SizesAssumption DEF ChunkSizes, CHUNK_HDR_SZ
<1>3. IF f.mmapped THEN s >= n + SIZE_SZ /\ b = s - CHUNK_HDR_SZ
      ELSE s >= n /\ s < n + MINSIZE /\ b = s - SIZE_SZ
  BY DEF Fits, usable
<1>4. s \in Nat
  OBVIOUS
<1> HIDE DEF n, s, b
<1>5. b \in Int /\ b >= r /\ b >= n - SIZE_SZ /\ (~f.mmapped => s <= n + MINSIZE)
  BY ONLY <1>1, <1>2, <1>3, <1>4, r \in Nat, f.mmapped \in BOOLEAN
<1> QED BY ONLY <1>5 DEF n, s, b

\* A chunk is aligned to its header.
LEMMA MemAligned ==
  ASSUME NEW p \in Nat, aligned_OK(p)
  PROVE  chunk2mem(p) % MALLOC_ALIGNMENT = 0
<1>1. aligned_OK(MALLOC_ALIGNMENT) /\ CHUNK_HDR_SZ = MALLOC_ALIGNMENT /\ MALLOC_ALIGNMENT \in Nat
  BY Units
<1>2. aligned_OK(p + MALLOC_ALIGNMENT)
  <2>1. p \in Int /\ MALLOC_ALIGNMENT \in Int
    BY ONLY <1>1, p \in Nat
  <2> QED BY ONLY <1>1, <2>1, aligned_OK(p), AlignedSum
<1> QED BY ONLY <1>1, <1>2 DEF chunk2mem, aligned_OK

\* A call returns what _int_malloc got, the old block, if any, is given back.
LEMMA ReturnsNew ==
  ASSUME NEW h, NEW c, NEW l, NEW u, State(h, c, l, u), c.pc = "got", ~c.init,
         c.p # NIL, c.op # "memalign",
         NEW h2, NEW u2, u2 = Without(u, c.old), HeapOK(h2, u2, {}, h.tcache),
         NEW c2, SameCall(c, c2, {"pc", "p", "clear", "copied"}), c2.pc = "return", c2.p = c.p,
         c.op \in {"realloc", "recopy"} =>
           c2.copied \in Min({l[c.old], c.req}) .. (request2size(c.req) - SIZE_SZ)
  PROVE  State(h2, c2, l, u2)
<1> DEFINE p == c.p
           t == h.tcache
<1>1. /\ HeapOK(h, u, {}, h.tcache) /\ DOMAIN c = CallFields
      /\ c.op # "free" /\ c.req \in Nat
      /\ c.align = MALLOC_ALIGNMENT
      /\ DOMAIN u = DOMAIN l \cup {q \in {p} : q # NIL} \cup {q \in {t} : q # NONE /\ q # SHUT}
      /\ p \in DOMAIN u /\ p \notin DOMAIN l /\ p # t
      /\ Fits(u[p], Wanted(c))
      /\ (c.op \in {"realloc", "recopy"} => c.old \in DOMAIN l /\ c.old \in DOMAIN u)
      /\ (c.op \notin {"realloc", "recopy"} => c.old = NIL)
      /\ t \notin DOMAIN l
  <2>1. c.op # "memalign" /\ c.p # NIL
    OBVIOUS
  <2> QED BY ONLY State(h, c, l, u), c.pc = "got", ~c.init, <2>1, GotFacts
<1>2. /\ c2.op = c.op /\ c2.req = c.req /\ c2.align = c.align /\ c2.old = c.old /\ c2.p = p
      /\ DOMAIN c2 = CallFields /\ p # NIL
  BY DEF SameCall, CallFields
<1>3. Wanted(c) = request2size(c.req)
  BY ONLY ~c.init, c.op # "memalign" DEF Wanted
<1>4. /\ p \in Nat /\ aligned_OK(p) /\ u[p].size \in Nat /\ u[p].mmapped \in BOOLEAN
  BY ONLY <1>1, HeldChunk
<1>5. Fits(u[p], request2size(c.req))
  BY ONLY <1>1, <1>3
<1>6. /\ usable(u[p]) \in Int /\ usable(u[p]) >= c.req
      /\ usable(u[p]) >= request2size(c.req) - SIZE_SZ
      /\ (~u[p].mmapped => u[p].size <= request2size(c.req) + MINSIZE)
  BY ONLY <1>1, <1>4, <1>5, FitServes
<1>7. c.old # p
  BY ONLY <1>1, <1>2
<1>8. u2[p] = u[p]
  BY ONLY <1>1, <1>7, u2 = Without(u, c.old) DEF Without
<1>9. NIL \notin DOMAIN u
  BY ONLY <1>1, HeldChunk
<1>10. DOMAIN u2 = HeldBy(c2, l, t)
  <2>1. DOMAIN u2 = DOMAIN u \ {c.old}
    BY ONLY u2 = Without(u, c.old) DEF Without
  <2>2. (t # NONE /\ t # SHUT => t # c.old)
    BY ONLY <1>1, <1>9
  <2>3. HeldBy(c2, l, t) = ((DOMAIN l \ {c.old}) \cup {p}) \cup {q \in {t} : q # NONE /\ q # SHUT}
    BY ONLY <1>1, <1>2, c2.pc = "return" DEF HeldBy, Blocks
  <2> QED BY ONLY <1>1, <1>2, <1>7, <2>1, <2>2, <2>3
<1>11. \A q \in DOMAIN l : (c2.p # NIL /\ q = c.old) \/ u2[q] = u[q]
  BY ONLY <1>1, <1>2, u2 = Without(u, c.old) DEF Without
<1>12. chunk2mem(p) % c.align = 0
  BY ONLY <1>1, <1>4, MemAligned
<1>13. Copies(c2) => c2.copied \in Min({l[c2.old], c2.req}) .. usable(u2[p])
  <2>1. Copies(c2) => c.op \in {"realloc", "recopy"}
    BY ONLY <1>2 DEF Copies
  <2>2. ASSUME c.op \in {"realloc", "recopy"}
        PROVE  c2.copied \in Min({l[c.old], c.req}) .. usable(u[p])
    <3> DEFINE m == Min({l[c.old], c.req})
               n == request2size(c.req) - SIZE_SZ
               x == usable(u[p])
    <3>1. c2.copied \in m .. n
      BY ONLY <2>2, c.op \in {"realloc", "recopy"} =>
           c2.copied \in Min({l[c.old], c.req}) .. (request2size(c.req) - SIZE_SZ)
    <3>2. x \in Int /\ x >= n
      BY ONLY <1>6
    <3>3. request2size(c.req) \in ChunkSizes
      BY ONLY <1>1, RequestServed
    <3>4. n \in Int
      BY ONLY <3>3, SizesAssumption DEF ChunkSizes
    <3> HIDE DEF m, n, x
    <3>5. c2.copied \in m .. x
      BY ONLY <3>1, <3>2, <3>4
    <3> QED BY ONLY <3>5 DEF m, x
  <2> QED BY ONLY <1>2, <1>8, <2>1, <2>2
<1>14. Served(c2, l, u2, t)
  BY ONLY <1>1, <1>2, <1>6, <1>8, <1>12, <1>13 DEF Served
<1>15. c.pc \in {"start", "got"}
  OBVIOUS
<1> QED
  BY ONLY State(h, c, l, u), <1>15, ~c.init, HeapOK(h2, u2, {}, h.tcache),
     SameCall(c, c2, {"pc", "p", "clear", "copied"}), c2.pc = "return", <1>10, <1>11, <1>14, Returns

\* malloc and calloc return what they got.
LEMMA PlainReturn ==
  ASSUME NEW u, State(heap, call, live, u), call.pc = "got", ~call.init,
         call.op \in {"malloc", "calloc"}, live' = live,
         heap' = heap \/ \E c : heap' = Require(heap, c),
         SameCall(call, call', {"pc", "p", "clear", "copied"}),
         call'.pc = "return", call'.p = call.p
  PROVE  \E v : State(heap', call', live', v)
<1>1. /\ HeapOK(heap, u, {}, heap.tcache)
      /\ (call.op \notin {"realloc", "recopy"} => call.old = NIL)
  BY ONLY State(heap, call, live, u), call.pc = "got", ~call.init, GotFacts
<1>a. HeapOK(heap', u, {}, heap.tcache)
  <2>1. ASSUME NEW c PROVE HeapOK(Require(heap, c), u, {}, heap.tcache)
    BY ONLY <1>1, Required
  <2> QED BY ONLY <1>1, <2>1, heap' = heap \/ \E c : heap' = Require(heap, c)
<1>2. CASE call.p = NIL
  <2>1. call.pc = "start" \/ (call.pc = "got" /\ call.p = NIL)
    BY ONLY <1>2, call.pc = "got"
  <2>2. call'.p = NIL /\ call.op # "free" /\ HeapOK(heap', u, {}, heap.tcache)
    BY ONLY <1>a, <1>2, call.op \in {"malloc", "calloc"}, call'.p = call.p
  <2>3. State(heap', call', live, u)
    BY ONLY State(heap, call, live, u), <2>1, ~call.init, <2>2,
       SameCall(call, call', {"pc", "p", "clear", "copied"}), call'.pc = "return", ReturnsNull
  <2> QED BY ONLY <2>3, live' = live
<1>3. CASE call.p # NIL
  <2> DEFINE u2 == Without(u, call.old)
  <2>1. u2 = Without(u, call.old) /\ call.old = NIL
    BY ONLY <1>1, call.op \in {"malloc", "calloc"}
  <2> HIDE DEF u2
  <2>2. NIL \notin DOMAIN u
    BY ONLY <1>1, HeldChunk
  <2>3. DOMAIN u2 = DOMAIN u /\ \A x \in DOMAIN u : u2[x] = u[x]
    BY ONLY <2>1, <2>2 DEF Without
  <2>4. HeapOK(heap', u2, {}, heap.tcache)
    BY ONLY <1>a, <2>3, SameHeld
  <2>5. HeapOK(heap', u2, {}, heap.tcache) /\ call.op # "memalign"
        /\ ~(call.op \in {"realloc", "recopy"})
    BY ONLY <2>4, call.op \in {"malloc", "calloc"}
  <2>6. State(heap', call', live, u2)
    BY ONLY State(heap, call, live, u), call.pc = "got", ~call.init, <1>3, <2>1, <2>5,
       SameCall(call, call', {"pc", "p", "clear", "copied"}), call'.pc = "return",
       call'.p = call.p, ReturnsNew
  <2> QED BY ONLY <2>6, live' = live
<1> QED BY ONLY <1>2, <1>3

\* malloc returns.
LEMMA MallocedStep ==
  ASSUME NEW u, State(heap, call, live, u), Malloced
  PROVE  \E v : State(heap', call', live', v)
<1>0. /\ call.pc = "got" /\ call.op = "malloc" /\ ~call.init /\ Result(call.p)
      /\ heap' = heap /\ live' = live
  BY Zenon DEF Malloced, GotFor
<1>1. DOMAIN call = CallFields
  BY ONLY State(heap, call, live, u), StateFacts
<1>2. SameCall(call, call', {"pc", "p"}) /\ call'.pc = "return" /\ call'.p = call.p
  BY ONLY <1>0, <1>1, ResultCall
<1>3. SameCall(call, call', {"pc", "p", "clear", "copied"})
  BY ONLY <1>2, SameMore
<1>4. call.op \in {"malloc", "calloc"}
  BY ONLY <1>0
<1> QED BY ONLY State(heap, call, live, u), <1>0, <1>2, <1>3, <1>4, PlainReturn

\* calloc clears and returns.
LEMMA CallocedStep ==
  ASSUME NEW u, State(heap, call, live, u), Calloced
  PROVE  \E v : State(heap', call', live', v)
<1>0. PICK z, c : /\ call.pc = "got" /\ call.op = "calloc" /\ ~call.init
                  /\ call' = [call EXCEPT !.pc = "return", !.clear = z]
                  /\ heap' = Require(heap, c) /\ live' = live
  BY Zenon DEF Calloced, GotFor
<1>1. DOMAIN call = CallFields
  BY ONLY State(heap, call, live, u), StateFacts
<1>2. /\ SameCall(call, call', {"pc", "p", "clear", "copied"})
      /\ call'.pc = "return" /\ call'.p = call.p
  BY ONLY <1>0, <1>1 DEF SameCall, CallFields
<1>3. call.op \in {"malloc", "calloc"}
  BY ONLY <1>0
<1> QED BY ONLY State(heap, call, live, u), <1>0, <1>2, <1>3, PlainReturn

\* realloc of c keeps its block or moves it to p.
Resized(c, l, u, u2, p, t) ==
  /\ DOMAIN u2 = ((DOMAIN l \ {c.old}) \cup {p}) \cup {q \in {t} : q # NONE /\ q # SHUT}
  /\ \A q \in DOMAIN l : q # c.old => u2[q] = u[q]
  /\ p # t
  /\ p # c.old => p \notin DOMAIN l /\ c.nb = 0
  /\ usable(u2[p]) >= c.req
  /\ ~u2[p].mmapped => u2[p].size <= request2size(c.req) + MINSIZE

\* realloc returns a block that has its new size.
LEMMA ReturnsResized ==
  ASSUME NEW h, NEW c, NEW l, NEW u, State(h, c, l, u),
         c.pc \in {"start", "got"}, ~c.init, c.op = "realloc",
         NEW h2, NEW u2, HeapOK(h2, u2, {}, h.tcache), NEW p, Resized(c, l, u, u2, p, h.tcache),
         NEW c2, SameCall(c, c2, {"pc", "p"}), c2.pc = "return", c2.p = p
  PROVE  State(h2, c2, l, u2)
<1> DEFINE t == h.tcache
<1>1. CallTyped(c)
  BY ONLY State(h, c, l, u), StateFacts
<1>2. c.align = MALLOC_ALIGNMENT
  BY ONLY <1>1, c.op = "realloc" DEF CallTyped
<1>3. /\ c2.op = "realloc" /\ c2.req = c.req /\ c2.align = c.align /\ c2.old = c.old
      /\ c2.nb = c.nb /\ c2.p = p
  BY DEF SameCall, CallFields
<1>4. p \in DOMAIN u2
  BY ONLY Resized(c, l, u, u2, p, h.tcache) DEF Resized
<1>5. p \in Nat /\ aligned_OK(p) /\ p # NIL
  BY ONLY <1>4, HeapOK(h2, u2, {}, h.tcache), HeldChunk
<1>6. chunk2mem(p) % c.align = 0
  BY ONLY <1>2, <1>5, MemAligned
<1>7. Served(c2, l, u2, t)
  BY ONLY <1>3, <1>5, <1>6, Resized(c, l, u, u2, p, t) DEF Served, Resized, Copies
<1>8. DOMAIN u2 = HeldBy(c2, l, t)
  BY ONLY <1>3, <1>5, c2.pc = "return", Resized(c, l, u, u2, p, t) DEF Resized, HeldBy, Blocks
<1>9. \A q \in DOMAIN l : (c2.p # NIL /\ q = c.old) \/ u2[q] = u[q]
  BY ONLY <1>3, <1>5, Resized(c, l, u, u2, p, t) DEF Resized
<1>10. SameCall(c, c2, {"pc", "p", "clear", "copied"})
  BY ONLY SameCall(c, c2, {"pc", "p"}), SameMore
<1>11. Served(c2, l, u2, h.tcache) /\ DOMAIN u2 = HeldBy(c2, l, h.tcache)
  BY ONLY <1>7, <1>8
<1> QED
  BY ONLY State(h, c, l, u), c.pc \in {"start", "got"}, ~c.init, HeapOK(h2, u2, {}, h.tcache),
     <1>10, c2.pc = "return", <1>9, <1>11, Returns

\* A chunk of the heap that is cut or grown to a request.
LEMMA PlainServes ==
  ASSUME NEW r \in Nat, NEW s \in Nat, s >= request2size(r), NEW v,
         v = IF s - request2size(r) < MINSIZE THEN s ELSE request2size(r)
  PROVE  /\ usable(Plain(v)) >= r /\ Plain(v).mmapped = FALSE
         /\ Plain(v).size <= request2size(r) + MINSIZE
<1> DEFINE n == request2size(r)
<1>1. n \in ChunkSizes
  BY RequestServed
<1>2. n \in Nat /\ MINSIZE \in Nat /\ MINSIZE > 0
  BY ONLY <1>1, Units DEF ChunkSizes
<1> HIDE DEF n
<1>3. v = IF s - n < MINSIZE THEN s ELSE n
  BY DEF n
<1>4. v \in Nat /\ v >= n /\ v < n + MINSIZE /\ s >= n
  BY ONLY <1>2, <1>3, s \in Nat, s >= request2size(r) DEF n
<1>5. Plain(v).size = v /\ Plain(v).mmapped = FALSE
  BY DEF Plain
<1>6. Fits(Plain(v), n)
  BY ONLY <1>4, FitsPlain
<1>7. Plain(v).size \in Nat /\ Plain(v).mmapped \in BOOLEAN
  BY ONLY <1>4, <1>5
<1>8. Fits(Plain(v), request2size(r))
  BY ONLY <1>6 DEF n
<1>9. /\ usable(Plain(v)) >= r
      /\ (~Plain(v).mmapped => Plain(v).size <= request2size(r) + MINSIZE)
  BY ONLY <1>7, <1>8, r \in Nat, FitServes
<1> QED BY ONLY <1>5, <1>9

\* What realloc's block is, and its size against what it was asked for.
LEMMA OldFacts ==
  ASSUME NEW h, NEW c, NEW l, NEW u, State(h, c, l, u), c.pc \in {"start", "got"}, ~c.init,
         c.op \in {"realloc", "recopy"}
  PROVE  /\ c.old \in DOMAIN l /\ c.old \in DOMAIN u /\ c.old # h.tcache /\ h.tcache \notin DOMAIN l
         /\ usable(u[c.old]) >= l[c.old] /\ l[c.old] \in Nat /\ c.req \in Nat
         /\ (c.pc = "start" =>
               DOMAIN u = DOMAIN l \cup {q \in {h.tcache} : q # NONE /\ q # SHUT})
         /\ (c.op = "realloc" /\ c.pc = "got" =>
               ~u[c.old].mmapped /\ u[c.old].size < request2size(c.req))
         /\ (c.op = "realloc" /\ c.pc = "start" /\ u[c.old].mmapped => c.nb = 0)
         /\ (c.op = "recopy" => /\ u[c.old].mmapped
                                /\ u[c.old].size - SIZE_SZ < request2size(c.req))
<1>1. /\ DOMAIN u = HeldBy(c, l, h.tcache) /\ CallTyped(c)
      /\ OldBlock(c, l, u, h.tcache) /\ InUse(c, l, u, h.tcache)
  BY ONLY State(h, c, l, u), StateFacts
<1>2. c.old \in DOMAIN l /\ c.req \in Nat /\ h.tcache \notin DOMAIN l
  BY ONLY <1>1, c.op \in {"realloc", "recopy"} DEF OldBlock, CallTyped, InUse
<1>3. c.pc # "return"
  BY ONLY c.pc \in {"start", "got"}
<1>4. c.old \in DOMAIN u
  BY ONLY <1>1, <1>2, <1>3 DEF HeldBy, Blocks
<1>5. usable(u[c.old]) >= l[c.old] /\ l[c.old] \in Nat
  BY ONLY <1>1, <1>2, <1>3 DEF InUse
<1>6. c.pc = "start" => DOMAIN u = DOMAIN l \cup {q \in {h.tcache} : q # NONE /\ q # SHUT}
  BY ONLY <1>1, c.op \in {"realloc", "recopy"} DEF HeldBy, Blocks
<1>7. /\ (c.op = "realloc" /\ c.pc = "got" =>
               ~u[c.old].mmapped /\ u[c.old].size < request2size(c.req))
      /\ (c.op = "realloc" /\ c.pc = "start" /\ u[c.old].mmapped => c.nb = 0)
      /\ (c.op = "recopy" => /\ u[c.old].mmapped
                             /\ u[c.old].size - SIZE_SZ < request2size(c.req))
  BY ONLY <1>1, <1>3, ~c.init DEF OldBlock, Asking
<1> QED BY ONLY <1>2, <1>4, <1>5, <1>6, <1>7

\* The smaller of two sizes.
LEMMA MinOfTwo ==
  ASSUME NEW a \in Nat, NEW b \in Nat
  PROVE  Min({a, b}) \in Nat /\ Min({a, b}) <= a /\ Min({a, b}) <= b
<1>1. {a, b} \subseteq Nat /\ {a, b} # {}
  OBVIOUS
<1>2. Min({a, b}) \in {a, b} /\ \A y \in {a, b} : Min({a, b}) <= y
  BY ONLY <1>1, MinIs
<1> QED BY ONLY <1>1, <1>2

\* The data of a mapping is copied to a new chunk.
LEMMA RecopiedStep ==
  ASSUME NEW u, State(heap, call, live, u), Recopied
  PROVE  \E v : State(heap', call', live', v)
<1>0. /\ call.pc = "got" /\ call.op = "recopy" /\ ~call.init
      /\ heap' = (IF call.p = NIL THEN heap ELSE munmap_chunk(heap, old))
      /\ call' = [call EXCEPT !.pc = "return", !.copied = oldsize - CHUNK_HDR_SZ]
      /\ live' = live
  BY Zenon DEF Recopied, GotFor
<1>1. /\ HeapOK(heap, u, {}, heap.tcache) /\ DOMAIN call = CallFields
  BY ONLY State(heap, call, live, u), StateFacts
<1>2. /\ SameCall(call, call', {"pc", "p", "clear", "copied"})
      /\ call'.pc = "return" /\ call'.p = call.p /\ call'.copied = oldsize - CHUNK_HDR_SZ
  BY ONLY <1>0, <1>1 DEF SameCall, CallFields
<1>3. call.pc \in {"start", "got"} /\ call.op \in {"realloc", "recopy"} /\ call.op # "free"
      /\ call.op # "memalign"
  BY ONLY <1>0
<1>4. /\ call.old \in DOMAIN u /\ u[call.old].mmapped
      /\ u[call.old].size - SIZE_SZ < request2size(call.req)
      /\ usable(u[call.old]) >= live[call.old] /\ live[call.old] \in Nat /\ call.req \in Nat
  BY ONLY State(heap, call, live, u), <1>0, <1>3, OldFacts
<1>5. CASE call.p = NIL
  <2>1. heap' = heap /\ call'.p = NIL
    BY ONLY <1>0, <1>2, <1>5
  <2>2. HeapOK(heap', u, {}, heap.tcache) /\ (call.pc = "start" \/ (call.pc = "got" /\ call.p = NIL))
    BY ONLY <1>0, <1>1, <1>5, <2>1
  <2>3. State(heap', call', live, u)
    BY ONLY State(heap, call, live, u), <1>0, <1>2, <1>3, <2>1, <2>2, ReturnsNull
  <2> QED BY ONLY <2>3, <1>0
<1>6. CASE call.p # NIL
  <2> DEFINE u2 == Without(u, call.old)
             s == u[call.old].size
             m == Min({live[call.old], call.req})
             n == request2size(call.req)
             d == live[call.old]
             q == call.old
  <2>1. heap' = munmap_chunk(heap, q) /\ u2 = Without(u, q) /\ q \in DOMAIN u /\ u[q].mmapped
    BY ONLY <1>0, <1>4, <1>6 DEF old
  <2>2. HeapOK(heap', u2, {}, heap.tcache)
    <3> HIDE DEF u2
    <3> HIDE DEF q
    <3> QED BY ONLY <1>1, <2>1, Unmapped
  <2>3. s = heap.hdr[call.old].size /\ s \in Nat
    BY ONLY <1>1, <1>4, HeldChunk
  <2>4. call'.copied = s - CHUNK_HDR_SZ
    BY ONLY <1>2, <2>3 DEF oldsize, chunksize, old
  <2>5. m \in Nat /\ m <= d
    BY ONLY <1>4, MinOfTwo
  <2>6. s - CHUNK_HDR_SZ >= d
    BY ONLY <1>4 DEF usable
  <2>7. n \in ChunkSizes
    BY ONLY <1>4, RequestServed
  <2>8. n \in Nat /\ SIZE_SZ \in Nat /\ CHUNK_HDR_SZ = 2 * SIZE_SZ
    BY ONLY <2>7, SizesAssumption DEF ChunkSizes, CHUNK_HDR_SZ
  <2>9. s - SIZE_SZ < n /\ d \in Nat
    BY ONLY <1>4
  <2>10. call'.copied \in m .. (n - SIZE_SZ)
    <3> HIDE DEF s, m, n, d
    <3> QED BY ONLY <2>3, <2>4, <2>5, <2>6, <2>8, <2>9
  <2>11. call.op \in {"realloc", "recopy"} =>
           call'.copied \in Min({live[call.old], call.req}) .. (request2size(call.req) - SIZE_SZ)
    BY ONLY <2>10
  <2>12. u2 = Without(u, call.old)
    OBVIOUS
  <2> HIDE DEF u2
  <2>13. State(heap', call', live, u2)
    BY ONLY State(heap, call, live, u), <1>0, <1>6, <1>3, <2>12, <2>2, <1>2, <2>11, ReturnsNew
  <2> QED BY ONLY <2>13, <1>0
<1> QED BY ONLY <1>5, <1>6

\* realloc of more than the address space.
LEMMA ReallocTooBigStep ==
  ASSUME NEW u, State(heap, call, live, u), ReallocTooBig
  PROVE  \E v : State(heap', call', live', v)
<1>0. /\ call.pc = "start" /\ call.op \in {"realloc"} /\ Result(NIL)
      /\ heap' = heap /\ live' = live
  BY Zenon DEF ReallocTooBig, Started
<1>1. HeapOK(heap, u, {}, heap.tcache) /\ DOMAIN call = CallFields /\ call.init = FALSE
  BY ONLY State(heap, call, live, u), <1>0, StartFacts
<1>2. SameCall(call, call', {"pc", "p"}) /\ call'.pc = "return" /\ call'.p = NIL
  BY ONLY <1>0, <1>1, ResultCall
<1>3. SameCall(call, call', {"pc", "p", "clear", "copied"})
  BY ONLY <1>2, SameMore
<1>4. ~call.init /\ call.op # "free" /\ HeapOK(heap', u, {}, heap.tcache)
  BY ONLY <1>0, <1>1
<1>5. State(heap', call', live, u)
  BY ONLY State(heap, call, live, u), <1>0, <1>2, <1>3, <1>4, ReturnsNull
<1> QED BY ONLY <1>0, <1>5

\* A chunk of the heap that realloc keeps at its place has v bytes now.
LEMMA KeptStep ==
  ASSUME NEW u, State(heap, call, live, u), call.pc \in {"start", "got"}, ~call.init,
         call.op = "realloc",
         NEW s \in Nat, s >= request2size(call.req),
         NEW v, v = IF s - request2size(call.req) < MINSIZE THEN s ELSE request2size(call.req),
         NEW u2, HeapOK(heap', u2, {}, heap.tcache),
         DOMAIN u2 = DOMAIN live \cup {q \in {heap.tcache} : q # NONE /\ q # SHUT},
         \A q \in DOMAIN live : q # call.old => u2[q] = u[q],
         u2[call.old] = Plain(v), Result(call.old), live' = live
  PROVE  \E w : State(heap', call', live', w)
<1> DEFINE p == call.old
<1>1. DOMAIN call = CallFields
  BY ONLY State(heap, call, live, u), StateFacts
<1>2. SameCall(call, call', {"pc", "p"}) /\ call'.pc = "return" /\ call'.p = p
  BY ONLY <1>1, Result(call.old), ResultCall
<1>3. p \in DOMAIN live /\ p # heap.tcache /\ call.req \in Nat
  <2>1. call.op \in {"realloc", "recopy"}
    BY ONLY call.op = "realloc"
  <2> QED
    BY ONLY State(heap, call, live, u), call.pc \in {"start", "got"}, ~call.init, <2>1, OldFacts
<1>4. /\ usable(u2[p]) >= call.req /\ u2[p].mmapped = FALSE
      /\ u2[p].size <= request2size(call.req) + MINSIZE
  <2>1. /\ usable(Plain(v)) >= call.req /\ Plain(v).mmapped = FALSE
        /\ Plain(v).size <= request2size(call.req) + MINSIZE
    BY ONLY <1>3, s \in Nat, s >= request2size(call.req), PlainServes,
      v = IF s - request2size(call.req) < MINSIZE THEN s ELSE request2size(call.req)
  <2> QED BY ONLY <2>1, u2[call.old] = Plain(v)
<1>5. DOMAIN u2 = ((DOMAIN live \ {call.old}) \cup {p})
                    \cup {q \in {heap.tcache} : q # NONE /\ q # SHUT}
  BY ONLY <1>3, DOMAIN u2 = DOMAIN live \cup {q \in {heap.tcache} : q # NONE /\ q # SHUT}
<1>6. Resized(call, live, u, u2, p, heap.tcache)
  BY ONLY <1>3, <1>4, <1>5, \A q \in DOMAIN live : q # call.old => u2[q] = u[q] DEF Resized
<1> HIDE DEF p
<1>7. State(heap', call', live, u2)
  BY ONLY State(heap, call, live, u), call.pc \in {"start", "got"}, ~call.init, call.op = "realloc",
     HeapOK(heap', u2, {}, heap.tcache), <1>2, <1>6, ReturnsResized
<1> QED BY ONLY <1>7, live' = live

\* realloc of a chunk that is large enough gives the rest back.
LEMMA ReallocInPlaceStep ==
  ASSUME NEW u, State(heap, call, live, u), ReallocInPlace
  PROVE  \E v : State(heap', call', live', v)
<1> DEFINE p == call.old
           s == heap.hdr[p].size
           n == request2size(call.req)
           v == IF s - n < MINSIZE THEN s ELSE n
           u2 == With(u, p, Plain(v))
           h1 == ReallocChecked
<1>0. /\ ReallocStart(FALSE) /\ oldsize >= onb /\ heap' = give_back(h1, old, oldsize, onb)
      /\ Result(old) /\ live' = live
  BY Zenon DEF ReallocInPlace
<1>1. /\ HeapOK(heap, u, {}, heap.tcache) /\ Rec(heap)
      /\ call.pc = "start" /\ call.op = "realloc" /\ call.init = FALSE
      /\ old \in DOMAIN u /\ ~u[old].mmapped /\ oldsize = heap.hdr[old].size /\ oldsize \in Nat
      /\ onb \in ChunkSizes /\ onb \in Nat /\ old = p /\ onb = n
  BY ONLY State(heap, call, live, u), <1>0, ReallocFacts, StateFacts
<1>a. /\ p = call.old /\ s = heap.hdr[p].size /\ n = request2size(call.req)
      /\ v = (IF s - n < MINSIZE THEN s ELSE n) /\ u2 = With(u, p, Plain(v)) /\ h1 = ReallocChecked
  OBVIOUS
<1> HIDE DEF h1, u2
<1> HIDE DEF v
<1> HIDE DEF s, n
<1> HIDE DEF p
<1>2. /\ p \in DOMAIN u /\ ~u[p].mmapped /\ s \in Nat /\ n \in ChunkSizes /\ n <= s /\ n \in Nat
      /\ s >= n /\ heap' = give_back(h1, p, s, n) /\ Result(p)
  BY ONLY <1>0, <1>1, <1>a
<1>3. HeapOK(h1, u, {}, heap.tcache) /\ Same(heap, h1, {"abort"})
  BY ONLY <1>1, <1>a, Required DEF ReallocChecked
<1>4. s = h1.hdr[p].size
  BY ONLY <1>3, <1>a DEF Same, Fields
<1>5. HeapOK(heap', u2, {}, heap.tcache)
  BY ONLY <1>2, <1>3, <1>4, <1>a, Shrunk
<1>6. /\ call.pc \in {"start", "got"} /\ ~call.init /\ call.op \in {"realloc", "recopy"}
  BY ONLY <1>1
<1>7. /\ p \in DOMAIN live
      /\ DOMAIN u = DOMAIN live \cup {q \in {heap.tcache} : q # NONE /\ q # SHUT}
  BY ONLY State(heap, call, live, u), <1>1, <1>6, <1>a, OldFacts
<1>8. /\ DOMAIN u2 = DOMAIN live \cup {q \in {heap.tcache} : q # NONE /\ q # SHUT}
      /\ (\A q \in DOMAIN live : q # call.old => u2[q] = u[q])
      /\ u2[call.old] = Plain(v)
  BY ONLY <1>7, <1>a DEF With
<1>9. s >= request2size(call.req) /\ Result(call.old) /\ call.op = "realloc"
      /\ v = IF s - request2size(call.req) < MINSIZE THEN s ELSE request2size(call.req)
  BY ONLY <1>1, <1>2, <1>a
<1> QED
  BY ONLY State(heap, call, live, u), <1>0, <1>2, <1>5, <1>6, <1>8, <1>9, KeptStep

\* realloc into top.
LEMMA ReallocIntoTopStep ==
  ASSUME NEW u, State(heap, call, live, u), ReallocIntoTop
  PROVE  \E w : State(heap', call', live', w)
<1> DEFINE h1 == ReallocChecked
           z == oldsize + chunksize(heap, next)
           a == chunk2mem(old + onb)
           p == old
           n == onb
           u2 == With(u, p, Plain(n))
<1>0. /\ ReallocStart(FALSE) /\ oldsize < onb /\ next = heap.top /\ z >= onb + MINSIZE
      /\ heap' = Touch([set_head(set_head_size(Forget(h1, next), old, onb), old + onb, z - onb)
                          EXCEPT !.top = old + onb], a)
      /\ Result(old) /\ live' = live
  BY Zenon DEF ReallocIntoTop, GrowsIntoTop
<1>1. /\ HeapOK(heap, u, {}, heap.tcache) /\ Rec(heap)
      /\ call.pc = "start" /\ call.op = "realloc" /\ call.init = FALSE
      /\ old \in DOMAIN u /\ ~u[old].mmapped /\ oldsize = heap.hdr[old].size /\ oldsize \in Nat
      /\ onb \in ChunkSizes /\ onb \in Nat /\ old = call.old /\ onb = request2size(call.req)
      /\ next = End(heap.hdr, old)
  BY ONLY State(heap, call, live, u), <1>0, ReallocFacts, StateFacts
<1>a. /\ h1 = ReallocChecked /\ z = oldsize + heap.hdr[next].size
      /\ p = old /\ n = onb /\ u2 = With(u, p, Plain(n))
  BY DEF chunksize
<1> HIDE DEF h1, z, a, u2
<1> HIDE DEF p, n
<1>3. HeapOK(h1, u, {}, heap.tcache) /\ Same(heap, h1, {"abort"})
  BY ONLY <1>1, <1>a, Required DEF ReallocChecked
<1>4. h1.hdr = heap.hdr /\ h1.top = heap.top
  BY ONLY <1>3 DEF Same, Fields
<1>5. /\ p \in DOMAIN u /\ ~u[p].mmapped /\ n \in ChunkSizes
      /\ h1.top = End(h1.hdr, p) /\ h1.hdr[p].size < n
      /\ z = h1.hdr[p].size + h1.hdr[h1.top].size /\ z >= n + MINSIZE
  BY ONLY <1>0, <1>1, <1>4, <1>a
<1>6. heap' = Touch([set_head(set_head_size(Forget(h1, h1.top), p, n), p + n, z - n)
                       EXCEPT !.top = p + n], a)
  BY ONLY <1>0, <1>4, <1>a
<1>7. HeapOK(heap', u2, {}, heap.tcache)
  BY ONLY <1>3, <1>5, <1>6, <1>a, GrownIntoTop
<1>8. /\ call.pc \in {"start", "got"} /\ ~call.init /\ call.op \in {"realloc", "recopy"}
  BY ONLY <1>1
<1>9. /\ call.old \in DOMAIN live
      /\ DOMAIN u = DOMAIN live \cup {q \in {heap.tcache} : q # NONE /\ q # SHUT}
  BY ONLY State(heap, call, live, u), <1>1, <1>8, OldFacts
<1>10. /\ DOMAIN u2 = DOMAIN live \cup {q \in {heap.tcache} : q # NONE /\ q # SHUT}
       /\ (\A q \in DOMAIN live : q # call.old => u2[q] = u[q])
       /\ u2[call.old] = Plain(n)
  BY ONLY <1>1, <1>9, <1>a DEF With
<1>11. /\ n \in Nat /\ n >= request2size(call.req) /\ Result(call.old)
       /\ n = IF n - request2size(call.req) < MINSIZE THEN n ELSE request2size(call.req)
  BY ONLY <1>0, <1>1, <1>a, Units
<1> QED
  BY ONLY State(heap, call, live, u), <1>0, <1>1, <1>7, <1>8, <1>10, <1>11, KeptStep

\* A chunk that realloc keeps takes in the chunk n after it.
LEMMA GrownStep ==
  ASSUME NEW u, State(heap, call, live, u), call.pc \in {"start", "got"}, ~call.init,
         call.op = "realloc",
         NEW h1, NEW F, HeapOK(h1, u, F, heap.tcache), ~u[call.old].mmapped,
         NEW n, n = End(h1.hdr, call.old), n \notin DOMAIN live,
         \/ F = {n}
         \/ F = {} /\ n \in DOMAIN u /\ ~u[n].mmapped,
         NEW s, s = h1.hdr[call.old].size + h1.hdr[n].size, s \in Nat,
         s >= request2size(call.req),
         heap' = give_back(Forget(h1, n), call.old, s, request2size(call.req)),
         DOMAIN u \ {n} = DOMAIN live \cup {q \in {heap.tcache} : q # NONE /\ q # SHUT},
         Result(call.old), live' = live
  PROVE  \E w : State(heap', call', live', w)
<1> DEFINE p == call.old
           k == request2size(call.req)
           v == IF s - k < MINSIZE THEN s ELSE k
           u2 == With(Without(u, n), p, Plain(v))
<1>1. call.op \in {"realloc", "recopy"}
  BY ONLY call.op = "realloc"
<1>2. p \in DOMAIN live /\ p \in DOMAIN u /\ call.req \in Nat
  BY ONLY State(heap, call, live, u), call.pc \in {"start", "got"}, ~call.init, <1>1, OldFacts
<1>3. k \in ChunkSizes
  BY ONLY <1>2, RequestServed
<1>4. k \in Nat
  BY ONLY <1>3 DEF ChunkSizes
<1>a. /\ p = call.old /\ k = request2size(call.req)
      /\ v = (IF s - k < MINSIZE THEN s ELSE k) /\ u2 = With(Without(u, n), p, Plain(v))
  OBVIOUS
<1> HIDE DEF u2
<1> HIDE DEF v
<1> HIDE DEF k
<1> HIDE DEF p
<1>5. /\ ~u[p].mmapped /\ n = End(h1.hdr, p) /\ s = h1.hdr[p].size + h1.hdr[n].size /\ k <= s
      /\ s >= k /\ heap' = give_back(Forget(h1, n), p, s, k)
  <2>1. ~u[p].mmapped /\ n = End(h1.hdr, p)
    BY ONLY ~u[call.old].mmapped, n = End(h1.hdr, call.old), <1>a
  <2>2. s = h1.hdr[p].size + h1.hdr[n].size
    BY ONLY s = h1.hdr[call.old].size + h1.hdr[n].size, <1>a
  <2>3. heap' = give_back(Forget(h1, n), p, s, k)
    BY ONLY heap' = give_back(Forget(h1, n), call.old, s, request2size(call.req)), <1>a
  <2>4. k <= s /\ s >= k
    BY ONLY s \in Nat, s >= request2size(call.req), <1>4, <1>a
  <2> QED BY ONLY <2>1, <2>2, <2>3, <2>4
<1>6. HeapOK(heap', u2, {}, heap.tcache)
  BY ONLY HeapOK(h1, u, F, heap.tcache), <1>2, <1>3, <1>5, <1>a, Grown,
     F = {n} \/ (F = {} /\ n \in DOMAIN u /\ ~u[n].mmapped)
<1>7. /\ DOMAIN u2 = DOMAIN live \cup {q \in {heap.tcache} : q # NONE /\ q # SHUT}
      /\ u2[call.old] = Plain(v)
  BY ONLY <1>2, <1>a, n \notin DOMAIN live,
     DOMAIN u \ {n} = DOMAIN live \cup {q \in {heap.tcache} : q # NONE /\ q # SHUT}
     DEF With, Without
<1>8. \A q \in DOMAIN live : q # call.old => u2[q] = u[q]
  BY ONLY <1>2, <1>a, n \notin DOMAIN live,
     DOMAIN u \ {n} = DOMAIN live \cup {q \in {heap.tcache} : q # NONE /\ q # SHUT}
     DEF With, Without
<1>9. v = IF s - request2size(call.req) < MINSIZE THEN s ELSE request2size(call.req)
  BY ONLY <1>a
<1> QED
  BY ONLY State(heap, call, live, u), call.pc \in {"start", "got"}, ~call.init,
     call.op = "realloc", s \in Nat, s >= request2size(call.req), <1>6, <1>7, <1>8, <1>9,
     Result(call.old), live' = live, KeptStep

\* realloc into the free chunk that follows.
LEMMA ReallocIntoNextStep ==
  ASSUME NEW u, State(heap, call, live, u), ReallocIntoNext
  PROVE  \E w : State(heap', call', live', w)
<1> DEFINE hR == ReallocChecked
           h1 == unlink_chunk(hR, next)
           s == oldsize + chunksize(heap, next)
           n == next
           t == heap.tcache
<1>0. /\ ReallocStart(FALSE) /\ next # heap.top /\ ~inuse(heap, next) /\ s >= onb
      /\ heap' = give_back(Forget(h1, next), old, s, onb)
      /\ Result(old) /\ live' = live
  BY Zenon DEF ReallocIntoNext, GrowsIntoNext
<1>1. /\ HeapOK(heap, u, {}, t) /\ Rec(heap)
      /\ call.pc = "start" /\ call.op = "realloc" /\ call.init = FALSE
      /\ old \in DOMAIN u /\ ~u[old].mmapped /\ oldsize = heap.hdr[old].size /\ oldsize \in Nat
      /\ onb \in ChunkSizes /\ onb \in Nat /\ old = call.old /\ onb = request2size(call.req)
      /\ next = End(heap.hdr, old)
  BY ONLY State(heap, call, live, u), <1>0, ReallocFacts, StateFacts
<1>a. /\ hR = ReallocChecked /\ h1 = unlink_chunk(hR, n) /\ n = next
      /\ s = oldsize + heap.hdr[n].size
  BY DEF chunksize
<1> HIDE DEF s
<1> HIDE DEF h1
<1> HIDE DEF hR
<1> HIDE DEF n
<1>2. HeapOK(hR, u, {}, t) /\ Same(heap, hR, {"abort"})
  BY ONLY <1>1, <1>a, Required DEF ReallocChecked
<1>3. old \in Chunks(heap.hdr, heap.top)
  BY ONLY <1>1, HeldFacts
<1>4. n = End(heap.hdr, old) /\ n # heap.top /\ ~inuse(heap, n)
  BY ONLY <1>0, <1>1, <1>a
<1>5. n \in Members(heap.bins)
  BY ONLY <1>1, <1>3, <1>4, NextFree
<1>6. n \notin DOMAIN u /\ heap.hdr[n].size \in ChunkSizes
  BY ONLY <1>1, <1>5, BinnedChunk
<1>7. heap.hdr[n].size \in Nat
  BY ONLY <1>6 DEF ChunkSizes
<1>8. hR.hdr = heap.hdr /\ hR.bins = heap.bins
  BY ONLY <1>2 DEF Same, Fields
<1>9. n \in Members(hR.bins)
  BY ONLY <1>5, <1>8
<1>10. HeapOK(h1, u, {n}, t) /\ Same(hR, h1, {"bins", "heads", "abort"})
  BY ONLY <1>2, <1>9, <1>a, Unlink
<1>11. h1.hdr = heap.hdr
  BY ONLY <1>8, <1>10 DEF Same, Fields
<1>12. call.pc \in {"start", "got"} /\ ~call.init /\ call.op \in {"realloc", "recopy"}
  BY ONLY <1>1
<1>13. DOMAIN u = DOMAIN live \cup {q \in {t} : q # NONE /\ q # SHUT}
  BY ONLY State(heap, call, live, u), <1>1, <1>12, OldFacts
<1>14. n \notin DOMAIN live /\ DOMAIN u \ {n} = DOMAIN live \cup {q \in {t} : q # NONE /\ q # SHUT}
  BY ONLY <1>6, <1>13
<1>15. /\ s = h1.hdr[call.old].size + h1.hdr[n].size /\ n = End(h1.hdr, call.old)
       /\ ~u[call.old].mmapped
  BY ONLY <1>1, <1>4, <1>11, <1>a
<1>16. s \in Nat /\ s >= request2size(call.req)
  BY ONLY <1>0, <1>1, <1>7, <1>a
<1>17. /\ heap' = give_back(Forget(h1, n), call.old, s, request2size(call.req))
       /\ Result(call.old)
  BY ONLY <1>0, <1>1, <1>a
<1>18. {n} = {n} \/ ({n} = {} /\ n \in DOMAIN u /\ ~u[n].mmapped)
  OBVIOUS
<1> QED
  BY ONLY State(heap, call, live, u), <1>0, <1>1, <1>10, <1>12, <1>14, <1>15, <1>16, <1>17, <1>18,
     GrownStep

\* realloc with a chunk that _int_malloc gave.
LEMMA ReallocedStep ==
  ASSUME NEW u, State(heap, call, live, u), Realloced
  PROVE  \E w : State(heap', call', live', w)
<1> DEFINE p == call.p
           t == heap.tcache
           n == request2size(call.req)
           o == call.old
           s == heap.hdr[o].size
<1>0. /\ call.pc = "got" /\ call.op = "realloc" /\ ~call.init /\ live' = live
      /\ IF call.p = NIL THEN Result(NIL) /\ heap' = heap
         ELSE IF call.p = next
         THEN /\ heap' = give_back(Forget(heap, call.p), old, oldsize + chunksize(heap, call.p), onb)
              /\ Result(old)
         ELSE /\ heap' = int_free(heap, old)
              /\ call' = [call EXCEPT !.pc = "return", !.copied = oldsize - SIZE_SZ]
  BY Zenon DEF Realloced, GotFor
<1>1. /\ HeapOK(heap, u, {}, t) /\ DOMAIN call = CallFields
      /\ DOMAIN u = (DOMAIN live \cup {q \in {p} : q # NIL}) \cup {q \in {t} : q # NONE /\ q # SHUT}
      /\ (p # NIL => p \in DOMAIN u /\ p \notin DOMAIN live /\ p # t /\ Fits(u[p], Wanted(call)))
  <2>1. State(heap, call, live, u) /\ call.pc = "got" /\ ~call.init
    BY ONLY State(heap, call, live, u), <1>0
  <2> QED BY ONLY <2>1, GotFacts, Zenon
<1>2. call.pc \in {"start", "got"} /\ ~call.init /\ call.op \in {"realloc", "recopy"}
  BY ONLY <1>0
<1>3. /\ o \in DOMAIN live /\ o \in DOMAIN u /\ usable(u[o]) >= live[o] /\ live[o] \in Nat
      /\ call.req \in Nat /\ ~u[o].mmapped /\ u[o].size < n
  BY ONLY State(heap, call, live, u), <1>0, <1>2, OldFacts
<1>4. Wanted(call) = n
  BY ONLY <1>0 DEF Wanted
<1>5. u[o].size = s /\ s \in Nat /\ u[o].mmapped \in BOOLEAN
  BY ONLY <1>1, <1>3, HeldChunk
<1>6. n \in ChunkSizes
  BY ONLY <1>3, RequestServed
<1>7. n \in Nat
  BY ONLY <1>6 DEF ChunkSizes
<1>8. old = o /\ oldsize = s /\ onb = n /\ next = End(heap.hdr, o)
  BY DEF old, oldsize, onb, next, next_chunk, chunksize, End
<1>9. CASE p = NIL
  <2>1. Result(NIL) /\ heap' = heap
    BY ONLY <1>0, <1>9
  <2>2. SameCall(call, call', {"pc", "p"}) /\ call'.pc = "return" /\ call'.p = NIL
    BY ONLY <1>1, <2>1, ResultCall
  <2>3. SameCall(call, call', {"pc", "p", "clear", "copied"})
    BY ONLY <2>2, SameMore
  <2>4. /\ call.op # "free" /\ HeapOK(heap', u, {}, heap.tcache)
        /\ (call.pc = "start" \/ (call.pc = "got" /\ call.p = NIL))
    BY ONLY <1>0, <1>1, <1>9, <2>1
  <2>5. State(heap', call', live, u)
    BY ONLY State(heap, call, live, u), <1>0, <2>2, <2>3, <2>4, ReturnsNull
  <2> QED BY ONLY <1>0, <2>5
<1>10. CASE p # NIL /\ p = next
  <2> DEFINE z == s + heap.hdr[p].size
  <2>1. p \in DOMAIN u /\ p \notin DOMAIN live /\ p # t /\ Fits(u[p], n)
    BY ONLY <1>1, <1>4, <1>10
  <2>2. heap' = give_back(Forget(heap, p), o, z, n) /\ Result(o)
    BY ONLY <1>0, <1>8, <1>10 DEF chunksize
  <2>3. p = End(heap.hdr, o)
    BY ONLY <1>8, <1>10
  <2>4. o \in Chunks(heap.hdr, heap.top)
    BY ONLY <1>1, <1>3, HeldFacts
  <2>5. ~heap.hdr[p].mmapped
    BY ONLY <1>1, <2>3, <2>4, NextChunk
  <2>6. u[p].size = heap.hdr[p].size /\ u[p].mmapped = heap.hdr[p].mmapped /\ u[p].size \in Nat
    BY ONLY <1>1, <2>1, HeldChunk
  <2>7. ~u[p].mmapped /\ heap.hdr[p].size \in Nat
    BY ONLY <2>5, <2>6
  <2>8. heap.hdr[p].size >= n
    BY ONLY <2>1, <2>6, <2>7 DEF Fits
  <2>9. z \in Nat /\ z >= n
    BY ONLY <1>5, <1>7, <2>7, <2>8
  <2>10. DOMAIN u \ {p} = DOMAIN live \cup {q \in {t} : q # NONE /\ q # SHUT}
    BY ONLY <1>1, <1>10, <2>1
  <2>11. {} = {p} \/ ({} = {} /\ p \in DOMAIN u /\ ~u[p].mmapped)
    BY ONLY <2>1, <2>7
  <2>a. z = s + heap.hdr[p].size
    OBVIOUS
  <2> HIDE DEF z
  <2> QED
    BY ONLY State(heap, call, live, u), <1>0, <1>1, <1>2, <1>3, <2>1, <2>2, <2>3, <2>a, <2>9, <2>10,
       <2>11, GrownStep
<1>11. CASE p # NIL /\ p # next
  <2> DEFINE u2 == Without(u, o)
             m == Min({live[o], call.req})
             d == live[o]
  <2>1. heap' = int_free(heap, o) /\ call' = [call EXCEPT !.pc = "return", !.copied = s - SIZE_SZ]
    BY ONLY <1>0, <1>8, <1>11
  <2>2. /\ SameCall(call, call', {"pc", "p", "clear", "copied"})
        /\ call'.pc = "return" /\ call'.p = p /\ call'.copied = s - SIZE_SZ
    BY ONLY <1>1, <2>1 DEF SameCall, CallFields
  <2>3. HeapOK(heap', u2, {}, t)
    BY ONLY <1>1, <1>3, <2>1, Freed
  <2>4. m \in Nat /\ m <= d
    BY ONLY <1>3, MinOfTwo
  <2>5. s - SIZE_SZ >= d
    BY ONLY <1>3, <1>5 DEF usable
  <2>6. SIZE_SZ \in Nat /\ d \in Nat /\ s < n
    BY ONLY <1>3, <1>5, SizesAssumption
  <2>7. call'.copied \in m .. (n - SIZE_SZ)
    <3> HIDE DEF s, m, n, d
    <3> QED BY ONLY <1>5, <1>7, <2>2, <2>4, <2>5, <2>6
  <2>8. call.op \in {"realloc", "recopy"} =>
          call'.copied \in Min({live[call.old], call.req}) .. (request2size(call.req) - SIZE_SZ)
    BY ONLY <2>7
  <2>9. u2 = Without(u, call.old) /\ call.p # NIL /\ call.op # "memalign" /\ call'.p = call.p
    BY ONLY <1>0, <1>11, <2>2
  <2> HIDE DEF u2
  <2>10. State(heap', call', live, u2)
    BY ONLY State(heap, call, live, u), <1>0, <2>2, <2>3, <2>8, <2>9, ReturnsNew
  <2> QED BY ONLY <1>0, <2>10
<1> QED BY ONLY <1>9, <1>10, <1>11

\* realloc of a mapping is to be served with a new chunk.
LEMMA Recopies ==
  ASSUME NEW h, NEW c, NEW l, NEW u, State(h, c, l, u), c.pc = "start", c.op = "realloc",
         u[c.old].mmapped, u[c.old].size - SIZE_SZ < request2size(c.req),
         NEW c2, SameCall(c, c2, {"pc", "op"}), c2.pc = "start", c2.op = "recopy"
  PROVE  State(h, c2, l, u)
<1> DEFINE t == h.tcache
<1>1. /\ DOMAIN u = HeldBy(c, l, t) /\ CallTyped(c) /\ HeapOK(h, u, {}, t)
      /\ Underway(c, t, DOMAIN h.entries, h.hdr[h.top].size)
      /\ OldBlock(c, l, u, t) /\ InUse(c, l, u, t)
  BY ONLY State(h, c, l, u), StateFacts
<1>2. /\ DOMAIN c2 = CallFields /\ c2.req = c.req /\ c2.align = c.align /\ c2.old = c.old
      /\ c2.init = c.init /\ c2.cached = c.cached /\ c2.p = c.p /\ c2.nb = c.nb
  BY ONLY SameCall(c, c2, {"pc", "op"}) DEF SameCall, CallFields
<1>3. DOMAIN u = HeldBy(c2, l, t)
  BY ONLY <1>1, <1>2, c.pc = "start", c.op = "realloc", c2.pc = "start", c2.op = "recopy"
     DEF HeldBy, Blocks
<1>4. CallTyped(c2)
  BY ONLY <1>1, <1>2, c.op = "realloc", c2.pc = "start", c2.op = "recopy"
     DEF CallTyped, Asking, Inner
<1>5. Underway(c2, t, DOMAIN h.entries, h.hdr[h.top].size)
  BY ONLY <1>1, <1>2, c.pc = "start", c2.pc = "start" DEF Underway, Asking, Inner
<1>6. OldBlock(c2, l, u, t)
  BY ONLY <1>1, <1>2, c.op = "realloc", c2.op = "recopy", u[c.old].mmapped,
     u[c.old].size - SIZE_SZ < request2size(c.req) DEF OldBlock
<1>7. NewChunk(c2, l, u, t) /\ Served(c2, l, u, t)
  BY ONLY c2.pc = "start" DEF NewChunk, Served
<1>8. InUse(c2, l, u, t)
  BY ONLY <1>1, c.pc = "start" DEF InUse
<1> QED BY ONLY <1>1, <1>3, <1>4, <1>5, <1>6, <1>7, <1>8, Zenon DEF State, CallOK

\* The mapping of a block, moved or resized to the lowest of some holes.
Remaps(h, u, q, r, o, n, hA, b, h2) ==
  /\ q \in DOMAIN u /\ u[q].mmapped
  /\ o = h.hdr[q].prev_size /\ n = ALIGN_UP(request2size(r) + o + SIZE_SZ, Pagesize)
  /\ hA = [h EXCEPT !.mapped = @ \ Pages(q - o, o + h.hdr[q].size)]
  /\ b \in MmapHoles(hA, n) \/ b \in MmapHoles(h, n)
  /\ h2 = [Forget(hA, q) EXCEPT !.hdr = With(@, b + o, Header(n - o, o, TRUE)),
                                !.mapped = @ \union Pages(b + o - o, n)]

\* The size of the new mapping.
LEMMA RemapSize ==
  ASSUME NEW r \in Nat, NEW o \in Nat, NEW n,
         n = ALIGN_UP(request2size(r) + o + SIZE_SZ, Pagesize)
  PROVE  /\ n \in Nat /\ n % Pagesize = 0 /\ n - o >= MINSIZE
         /\ usable(Mapping(n - o, o)) >= r /\ Mapping(n - o, o).mmapped = TRUE
<1> DEFINE k == request2size(r)
           x == k + o + SIZE_SZ
<1>1. k \in ChunkSizes /\ k >= r + SIZE_SZ
  BY RequestServed
<1>2. k \in Nat /\ k >= MINSIZE /\ SIZE_SZ \in Nat /\ CHUNK_HDR_SZ = 2 * SIZE_SZ /\ MINSIZE \in Nat
  BY ONLY <1>1, SizesAssumption, Units DEF ChunkSizes, CHUNK_HDR_SZ
<1>3. n = ALIGN_UP(x, Pagesize)
  OBVIOUS
<1> HIDE DEF k
<1>4. x \in Nat /\ x = k + o + SIZE_SZ
  BY ONLY <1>2, o \in Nat
<1> HIDE DEF x
<1>5. n \in Int /\ n % Pagesize = 0 /\ x <= n
  <2>1. x \in Int
    BY ONLY <1>4
  <2> QED BY ONLY <1>3, <2>1, RoundPage
<1>6. n \in Nat /\ n - o >= MINSIZE /\ n - o - CHUNK_HDR_SZ >= r
  BY ONLY <1>1, <1>2, <1>4, <1>5, o \in Nat, r \in Nat
<1>7. usable(Mapping(n - o, o)) = n - o - CHUNK_HDR_SZ /\ Mapping(n - o, o).mmapped = TRUE
  BY DEF usable, Mapping
<1> QED BY ONLY <1>5, <1>6, <1>7

\* What realloc does to a mapping is right for the mapping.
Remapping(h, u, t, q, r, o, n, hA, b, h2, p, f, u2) ==
  /\ HeapOK(h, u, {}, t) /\ r \in Nat /\ Remaps(h, u, q, r, o, n, hA, b, h2)
  /\ p = b + o /\ f = Mapping(n - o, o) /\ u2 = With(Without(u, q), p, f)

\* mremap: the block has moved or has stayed, with its new size.
LEMMA RemapsHeap ==
  ASSUME NEW h, NEW u, NEW t, NEW q, NEW r, NEW o, NEW n, NEW hA, NEW b, NEW h2, NEW p, NEW f, NEW u2,
         Remapping(h, u, t, q, r, o, n, hA, b, h2, p, f, u2)
  PROVE  /\ HeapOK(h2, u2, {}, t) /\ p \notin DOMAIN Without(u, q) /\ p \in Nat
         /\ usable(f) >= r /\ f.mmapped = TRUE
<1>0. /\ HeapOK(h, u, {}, t) /\ r \in Nat /\ Remaps(h, u, q, r, o, n, hA, b, h2)
      /\ p = b + o /\ f = Mapping(n - o, o) /\ u2 = With(Without(u, q), p, f)
  BY ONLY Remapping(h, u, t, q, r, o, n, hA, b, h2, p, f, u2) DEF Remapping
<1>1. /\ q \in DOMAIN u /\ u[q].mmapped
      /\ o = h.hdr[q].prev_size /\ n = ALIGN_UP(request2size(r) + o + SIZE_SZ, Pagesize)
  BY ONLY <1>0, Zenon DEF Remaps
<1>2. HoldsMapping(h, u, q)
  BY ONLY <1>0, <1>1, MappedFacts
<1>3. o \in Nat
  BY ONLY <1>1, <1>2 DEF HoldsMapping
<1>4. /\ n \in Nat /\ n % Pagesize = 0 /\ n - o >= MINSIZE
      /\ usable(Mapping(n - o, o)) >= r /\ Mapping(n - o, o).mmapped = TRUE
  BY ONLY <1>0, <1>1, <1>3, RemapSize
<1>6. RemapsTo(h, u, q, o, n, hA, b, h2)
  <2>1. /\ q \in DOMAIN u /\ u[q].mmapped /\ o = h.hdr[q].prev_size
        /\ hA = [h EXCEPT !.mapped = @ \ Pages(q - o, o + h.hdr[q].size)]
        /\ b \in MmapHoles(hA, n) \/ b \in MmapHoles(h, n)
        /\ h2 = [Forget(hA, q) EXCEPT !.hdr = With(@, b + o, Header(n - o, o, TRUE)),
                                      !.mapped = @ \union Pages(b + o - o, n)]
    BY ONLY <1>0, Zenon DEF Remaps
  <2> QED BY ONLY <1>4, <2>1, Zenon DEF RemapsTo
<1>7. u2 = With(Without(u, q), b + o, Mapping(n - o, o))
  BY ONLY <1>0
<1>8. /\ HeapOK(h2, u2, {}, t) /\ b + o \notin DOMAIN Without(u, q) /\ b \in Nat /\ o \in Nat
  BY ONLY <1>0, <1>6, <1>7, Remapped
<1>9. b + o \in Nat
  BY ONLY <1>8
<1> QED BY ONLY <1>4, <1>8, <1>9, <1>0

\* realloc moves or resizes a mapping.
LEMMA RemapStep ==
  ASSUME NEW u, State(heap, call, live, u), call.pc = "start", ~call.init, call.op = "realloc",
         NEW o, NEW n, NEW hA, NEW b, Remaps(heap, u, call.old, call.req, o, n, hA, b, heap'),
         Result(b + o), live' = live
  PROVE  \E v : State(heap', call', live', v)
<1> DEFINE q == call.old
           p == b + o
           f == Mapping(n - o, o)
           u2 == With(Without(u, q), p, f)
           t == heap.tcache
<1>1. HeapOK(heap, u, {}, t) /\ DOMAIN call = CallFields
  BY ONLY State(heap, call, live, u), StateFacts
<1>2. call.pc \in {"start", "got"} /\ call.op \in {"realloc", "recopy"}
  BY ONLY call.pc = "start", call.op = "realloc"
<1>3. q \in DOMAIN live /\ q \in DOMAIN u /\ q # t /\ t \notin DOMAIN live /\ call.req \in Nat
      /\ DOMAIN u = DOMAIN live \cup {x \in {t} : x # NONE /\ x # SHUT}
      /\ u[q].mmapped /\ call.nb = 0
  <2>1. u[q].mmapped
    BY ONLY Remaps(heap, u, call.old, call.req, o, n, hA, b, heap') DEF Remaps
  <2>2. /\ q \in DOMAIN live /\ q \in DOMAIN u /\ q # t /\ t \notin DOMAIN live /\ call.req \in Nat
        /\ (u[q].mmapped => call.nb = 0)
    BY ONLY State(heap, call, live, u), <1>2, ~call.init, call.pc = "start", call.op = "realloc",
       OldFacts
  <2>3. DOMAIN u = HeldBy(call, live, t)
    BY ONLY State(heap, call, live, u), StateFacts
  <2>4. DOMAIN u = DOMAIN live \cup {x \in {t} : x # NONE /\ x # SHUT}
    BY ONLY <2>3, call.pc = "start", call.op = "realloc" DEF HeldBy, Blocks
  <2> QED BY ONLY <2>1, <2>2, <2>4
<1>a. q = call.old /\ p = b + o /\ f = Mapping(n - o, o) /\ u2 = With(Without(u, q), p, f)
  OBVIOUS
<1> HIDE DEF u2
<1>4. /\ HeapOK(heap', u2, {}, t) /\ p \notin DOMAIN Without(u, q) /\ p \in Nat
      /\ usable(f) >= call.req /\ f.mmapped = TRUE
  <2>1. call.req \in Nat /\ HeapOK(heap, u, {}, t)
    BY ONLY <1>1, <1>3
  <2>2. p = b + o /\ f = Mapping(n - o, o) /\ u2 = With(Without(u, call.old), p, f)
    BY ONLY <1>a
  <2> HIDE DEF p, f
  <2> QED
    <3>1. Remapping(heap, u, t, call.old, call.req, o, n, hA, b, heap', p, f, u2)
      BY ONLY <2>1, <2>2, Remaps(heap, u, call.old, call.req, o, n, hA, b, heap') DEF Remapping
    <3> QED BY ONLY <3>1, RemapsHeap
<1> HIDE DEF p
<1> HIDE DEF f
<1>5. p # q => p \notin DOMAIN u
  BY ONLY <1>4 DEF Without
<1>6. p # t
  <2>1. t \in DOMAIN u \/ t = NONE \/ t = SHUT
    BY ONLY <1>3
  <2>2. t \in DOMAIN u => t # p
    BY ONLY <1>3, <1>5
  <2>3. p # NONE /\ p # SHUT
    BY ONLY <1>4 DEF NONE, SHUT
  <2> QED BY ONLY <2>1, <2>2, <2>3
<1>7. u2[p] = f
  BY ONLY <1>a DEF With
<1>8. DOMAIN u2 = ((DOMAIN live \ {q}) \cup {p}) \cup {x \in {t} : x # NONE /\ x # SHUT}
  <2>1. DOMAIN u2 = (DOMAIN u \ {q}) \cup {p}
    BY ONLY <1>a DEF With, Without
  <2> QED BY ONLY <2>1, <1>3
<1>9. \A x \in DOMAIN live : x # q => u2[x] = u[x]
  BY ONLY <1>3, <1>5, <1>a DEF With, Without
<1>10. p # q => p \notin DOMAIN live /\ call.nb = 0
  BY ONLY <1>3, <1>5
<1>11. Resized(call, live, u, u2, p, heap.tcache)
  BY ONLY <1>4, <1>6, <1>7, <1>8, <1>9, <1>10, <1>a DEF Resized
<1>12. SameCall(call, call', {"pc", "p"}) /\ call'.pc = "return" /\ call'.p = p
  BY ONLY <1>1, <1>a, Result(b + o), ResultCall
<1>13. HeapOK(heap', u2, {}, heap.tcache)
  BY ONLY <1>4
<1>14. State(heap', call', live, u2)
  BY ONLY State(heap, call, live, u), <1>2, ~call.init, call.op = "realloc", <1>13, <1>11, <1>12,
     ReturnsResized
<1> QED BY ONLY <1>14, live' = live

\* realloc of a mapping.
LEMMA ReallocMappedStep ==
  ASSUME NEW u, State(heap, call, live, u), ReallocMapped
  PROVE  \E v : State(heap', call', live', v)
<1> DEFINE q == call.old
           k == request2size(call.req)
           s == heap.hdr[call.old].size
           o == old_offset
           n == remap_size
           hA == OldUnmapped
           H == remap_holes
<1>0. /\ ReallocStart(TRUE) /\ live' = live
      /\ IF remap_holes = {}
         THEN /\ IF oldsize - SIZE_SZ >= onb THEN Result(old)
                 ELSE call' = [call EXCEPT !.pc = "start", !.op = "recopy"]
              /\ heap' = heap
         ELSE /\ heap' = OldRemapped(Min(remap_holes) + old_offset)
              /\ Result(Min(remap_holes) + old_offset)
  BY Zenon DEF ReallocMapped
<1>a. /\ q = call.old /\ old = q /\ o = heap.hdr[call.old].prev_size /\ old_block = call.old - o
      /\ n = ALIGN_UP(request2size(call.req) + o + SIZE_SZ, Pagesize)
      /\ hA = [heap EXCEPT !.mapped = @ \ Pages(call.old - o, o + heap.hdr[call.old].size)]
      /\ k = request2size(call.req) /\ s = heap.hdr[call.old].size /\ oldsize = s /\ onb = k
  BY DEF old, old_offset, old_block, remap_size, OldUnmapped, oldsize, onb, chunksize
<1>b. H = IF call.old - o \in MmapHoles(hA, n) THEN {call.old - o} ELSE MmapHoles(heap, n)
  BY ONLY <1>a DEF remap_holes
<1> HIDE DEF k, s
<1>1. /\ call.pc = "start" /\ call.op = "realloc" /\ heap.hdr[q].mmapped
  <2>1. call.pc = "start" /\ call.op \in {"realloc"} /\ heap.hdr[q].mmapped = TRUE
    BY ONLY <1>0, <1>a, Zenon DEF ReallocStart, Started, old, mmapped
  <2> QED BY ONLY <2>1
<1>2. /\ HeapOK(heap, u, {}, heap.tcache) /\ DOMAIN call = CallFields /\ call.init = FALSE
      /\ DOMAIN u = HeldBy(call, live, heap.tcache)
  BY ONLY State(heap, call, live, u), <1>1, StartFacts, StateFacts
<1>3. /\ call.pc \in {"start", "got"} /\ ~call.init /\ call.op \in {"realloc", "recopy"}
  BY ONLY <1>1, <1>2
<1>4. /\ q \in DOMAIN live /\ q \in DOMAIN u /\ q # heap.tcache /\ call.req \in Nat
      /\ DOMAIN u = DOMAIN live \cup {x \in {heap.tcache} : x # NONE /\ x # SHUT}
  BY ONLY State(heap, call, live, u), <1>1, <1>3, <1>a, OldFacts
<1>5. u[q].mmapped = heap.hdr[q].mmapped /\ u[q].size = s /\ s \in Nat /\ u[q].mmapped \in BOOLEAN
  <2>1. u[q].size = heap.hdr[q].size /\ u[q].mmapped = heap.hdr[q].mmapped
        /\ u[q].size \in Nat /\ u[q].mmapped \in BOOLEAN
    BY ONLY <1>2, <1>4, Known
  <2> QED BY ONLY <2>1, <1>a
<1>6. u[q].mmapped /\ u[q].mmapped = TRUE
  BY ONLY <1>1, <1>5
<1>7. k \in Nat /\ SIZE_SZ \in Nat /\ CHUNK_HDR_SZ = 2 * SIZE_SZ /\ k >= call.req + SIZE_SZ
  <2>1. k \in ChunkSizes /\ k >= call.req + SIZE_SZ
    BY ONLY <1>4, <1>a, RequestServed
  <2> QED BY ONLY <2>1, SizesAssumption DEF ChunkSizes, CHUNK_HDR_SZ
<1>8. CASE H = {} /\ s - SIZE_SZ >= k
  <2>1. heap' = heap /\ Result(q)
    BY ONLY <1>0, <1>8, <1>a
  <2>2. SameCall(call, call', {"pc", "p"}) /\ call'.pc = "return" /\ call'.p = q
    BY ONLY <1>2, <2>1, ResultCall
  <2>3. usable(u[q]) >= call.req
    <3>1. usable(u[q]) = s - CHUNK_HDR_SZ
      BY ONLY <1>5, <1>6 DEF usable
    <3>2. call.req \in Nat
      BY ONLY <1>4
    <3> QED BY ONLY <1>5, <1>7, <1>8, <3>1, <3>2
  <2>4. Resized(call, live, u, u, q, heap.tcache)
    BY ONLY <1>4, <1>6, <1>a, <2>3 DEF Resized
  <2>5. HeapOK(heap', u, {}, heap.tcache)
    BY ONLY <1>2, <2>1
  <2>6. State(heap', call', live, u)
    BY ONLY State(heap, call, live, u), <1>3, <1>1, <2>2, <2>4, <2>5, ReturnsResized
  <2> QED BY ONLY <1>0, <2>6
<1>9. CASE H = {} /\ ~(s - SIZE_SZ >= k)
  <2>1. heap' = heap /\ call' = [call EXCEPT !.pc = "start", !.op = "recopy"]
    BY ONLY <1>0, <1>9, <1>a
  <2>2. SameCall(call, call', {"pc", "op"}) /\ call'.pc = "start" /\ call'.op = "recopy"
    BY ONLY <1>2, <2>1 DEF SameCall, CallFields
  <2>3. u[call.old].mmapped /\ u[call.old].size - SIZE_SZ < request2size(call.req)
    <3>1. s - SIZE_SZ < k
      BY ONLY <1>5, <1>7, <1>9
    <3> QED BY ONLY <3>1, <1>5, <1>6, <1>a
  <2>4. State(heap, call', live, u)
    BY ONLY State(heap, call, live, u), <1>1, <2>2, <2>3, Recopies
  <2> QED BY ONLY <1>0, <2>1, <2>4
<1>10. CASE H # {}
  <2> DEFINE b == Min(H)
  <2>1. H \subseteq Nat
    <3>1. heap.brk \in BrkStart .. HeapEnd
      BY ONLY <1>2 DEF HeapOK, Bounds
    <3>2. hA.brk = heap.brk
      BY ONLY <1>2, <1>a DEF HeapOK, Rec, Fields
    <3>3. n \in Nat /\ n % Pagesize = 0 /\ n > 0
      <4>1. HoldsMapping(heap, u, q)
        BY ONLY <1>2, <1>4, <1>6, MappedFacts
      <4>2. o \in Nat
        BY ONLY <4>1, <1>a DEF HoldsMapping
      <4>3. n \in Nat /\ n % Pagesize = 0 /\ n - o >= MINSIZE
        BY ONLY <1>4, <1>a, <4>2, RemapSize
      <4>4. MINSIZE \in Nat /\ MINSIZE > 0
        BY SizesAssumption, Units
      <4> QED BY ONLY <4>2, <4>3, <4>4
    <3>4. \A a \in MmapHoles(heap, n) : a \in Nat
      BY ONLY <3>1, <3>3, HoleSpace
    <3>5. \A a \in MmapHoles(hA, n) : a \in Nat
      <4>1. hA.brk \in BrkStart .. HeapEnd
        BY ONLY <3>1, <3>2
      <4> QED BY ONLY <4>1, <3>3, HoleSpace
    <3> QED BY ONLY <3>4, <3>5, <1>b
  <2>2. b \in H
    BY ONLY <2>1, <1>10, MinIs
  <2>3. b \in MmapHoles(hA, n) \/ b \in MmapHoles(heap, n)
    BY ONLY <2>2, <1>b
  <2>4. heap' = OldRemapped(b + o) /\ Result(b + o)
    BY ONLY <1>0, <1>10
  <2> HIDE DEF b
  <2>5. Remaps(heap, u, call.old, call.req, o, n, hA, b, heap')
    <3>1. heap' = [Forget(hA, call.old) EXCEPT !.hdr = With(@, b + o, Header(n - o, o, TRUE)),
                                               !.mapped = @ \cup Pages(b + o - o, n)]
      <4>1. heap' = [Forget(hA, call.old) EXCEPT !.hdr = With(@, b + o, Header(n - o, o, TRUE)),
                                                 !.mapped = @ \cup Pages((b + o) - o, n)]
        BY ONLY <2>4, Zenon DEF OldRemapped, old
      <4>2. HoldsMapping(heap, u, q)
        BY ONLY <1>2, <1>4, <1>6, MappedFacts
      <4>3. o \in Nat /\ b \in Nat
        BY ONLY <4>2, <1>a, <2>1, <2>2 DEF HoldsMapping
      <4>4. (b + o) - o = b + o - o
        <5> HIDE DEF o
        <5> QED BY ONLY <4>3
      <4> QED BY ONLY <4>1, <4>4, Zenon
    <3>2. /\ call.old \in DOMAIN u /\ u[call.old].mmapped /\ o = heap.hdr[call.old].prev_size
          /\ n = ALIGN_UP(request2size(call.req) + o + SIZE_SZ, Pagesize)
          /\ b \in MmapHoles(hA, n) \/ b \in MmapHoles(heap, n)
      BY ONLY <1>4, <1>6, <1>a, <2>3
    <3>3. hA = [heap EXCEPT !.mapped = @ \ Pages(call.old - o, o + heap.hdr[call.old].size)]
      BY ONLY <1>a
    <3> QED BY ONLY <3>1, <3>2, <3>3, Zenon DEF Remaps
  <2>6. live' = live /\ Result(b + o)
    BY ONLY <1>0, <2>4
  <2> QED BY ONLY State(heap, call, live, u), <1>1, <1>3, <2>5, <2>6, RemapStep
<1> QED BY ONLY <1>8, <1>9, <1>10

\* Rounding up to a multiple of an alignment.
LEMMA RoundUp ==
  ASSUME NEW x \in Int, NEW a \in Nat, a > 0, aligned_OK(a), NEW m, m = ALIGN_UP(x, a)
  PROVE  /\ m \in Int /\ m % a = 0 /\ x <= m /\ m < x + a /\ aligned_OK(m)
<1> DEFINE y == x + a - 1
           k == y \div a
           j == a \div MALLOC_ALIGNMENT
           i == j * k
           r == y % a
<1>1. y \in Int /\ y = x + a - 1
  BY ONLY x \in Int, a \in Nat
<1>2. m = y - r
  BY ONLY m = ALIGN_UP(x, a) DEF ALIGN_UP, ALIGN_DOWN
<1> HIDE DEF y
<1>3. k \in Int /\ y = a * k + r /\ 0 <= r /\ r < a /\ r \in Int
  BY ONLY <1>1, a \in Nat, a > 0, Div
<1>4. MALLOC_ALIGNMENT \in Nat /\ MALLOC_ALIGNMENT > 0
  BY Units
<1>5. j \in Int /\ a = MALLOC_ALIGNMENT * j
  <2>1. j \in Int /\ a = MALLOC_ALIGNMENT * j + (a % MALLOC_ALIGNMENT)
    BY ONLY <1>4, a \in Nat, Div
  <2>2. a % MALLOC_ALIGNMENT = 0
    BY ONLY aligned_OK(a) DEF aligned_OK
  <2> HIDE DEF j
  <2> QED BY ONLY <2>1, <2>2, <1>4
<1> HIDE DEF k, j, r
<1>6. a * k \in Int /\ i \in Int
  BY ONLY <1>3, <1>5, a \in Nat
<1>7. m = a * k /\ m \in Int
  <2> DEFINE z == a * k
  <2>1. z \in Int /\ y = z + r
    BY ONLY <1>3, <1>6
  <2> HIDE DEF z
  <2>2. m = z /\ m \in Int
    BY ONLY <1>1, <1>2, <1>3, <2>1
  <2> QED BY ONLY <2>2 DEF z
<1>8. m = MALLOC_ALIGNMENT * i
  BY ONLY <1>3, <1>4, <1>5, <1>7
<1> HIDE DEF i
<1>9. m % a = 0
  BY ONLY <1>3, <1>7, a \in Nat, a > 0, IsMultiple
<1>10. m % MALLOC_ALIGNMENT = 0
  BY ONLY <1>4, <1>6, <1>7, <1>8, IsMultiple
<1>11. x <= m /\ m < x + a
  BY ONLY <1>1, <1>2, <1>3, <1>7, x \in Int, a \in Nat
<1> QED BY ONLY <1>7, <1>9, <1>10, <1>11 DEF aligned_OK

\* The aligned place in a chunk leaves nothing or a chunk before it.
LEMMA MemSpot ==
  ASSUME NEW p \in Nat, aligned_OK(p), NEW a \in Nat, a > 0, aligned_OK(a), a = call.align,
         NEW n, n = mem_spot(p)
  PROVE  /\ n \in Nat /\ p <= n /\ (n # p => p + MINSIZE <= n) /\ n < p + a + MINSIZE
         /\ aligned_OK(n) /\ chunk2mem(n) % a = 0
<1> DEFINE x == chunk2mem(p)
           m == ALIGN_UP(x, a)
           brk == m - CHUNK_HDR_SZ
<1>1. /\ CHUNK_HDR_SZ = MALLOC_ALIGNMENT /\ MINSIZE = 2 * MALLOC_ALIGNMENT /\ MALLOC_ALIGNMENT \in Nat
      /\ MALLOC_ALIGNMENT > 0 /\ aligned_OK(MALLOC_ALIGNMENT)
  BY Units
<1>2. n = IF brk - p \in 1 .. MINSIZE - 1 THEN brk + a ELSE brk
  BY ONLY a = call.align, n = mem_spot(p) DEF mem_spot
<1>3. x = p + MALLOC_ALIGNMENT /\ x \in Int /\ brk = m - MALLOC_ALIGNMENT
  BY ONLY <1>1, p \in Nat DEF chunk2mem
<1>m. m = ALIGN_UP(x, a)
  OBVIOUS
<1> HIDE DEF x, m
<1>4. m \in Int /\ m % a = 0 /\ x <= m /\ m < x + a /\ aligned_OK(m)
  BY ONLY <1>3, <1>m, a \in Nat, a > 0, aligned_OK(a), RoundUp
<1>5. brk \in Int /\ p <= brk /\ brk < p + a
  BY ONLY <1>1, <1>3, <1>4, p \in Nat, a \in Nat
<1>6. aligned_OK(brk)
  BY ONLY <1>1, <1>3, <1>4, AlignedSum
<1>b. brk + MALLOC_ALIGNMENT = m
  BY ONLY <1>1, <1>3, <1>4
<1> HIDE DEF brk
<1>7. chunk2mem(n) = n + MALLOC_ALIGNMENT
  BY ONLY <1>1 DEF chunk2mem
<1>8. CASE brk - p \in 1 .. MINSIZE - 1
  <2>1. n = brk + a /\ p < brk
    BY ONLY <1>2, <1>5, <1>8, p \in Nat
  <2>2. brk \in Int /\ p \in Int /\ aligned_OK(brk) /\ aligned_OK(p)
    BY ONLY <1>5, <1>6, p \in Nat, aligned_OK(p)
  <2>3. p + MALLOC_ALIGNMENT <= brk
    BY ONLY <2>1, <2>2, AlignedGap
  <2>4. MALLOC_ALIGNMENT <= a
    <3>1. 0 \in Int /\ a \in Int /\ 0 < a /\ aligned_OK(0)
      BY Units
    <3>2. 0 + MALLOC_ALIGNMENT <= a
      BY ONLY <3>1, aligned_OK(a), AlignedGap
    <3> QED BY ONLY <3>2, <1>1
  <2>5. n \in Nat /\ p <= n /\ p + MINSIZE <= n /\ n < p + a + MINSIZE
    BY ONLY <2>1, <2>2, <2>3, <2>4, <1>1, <1>5, <1>8, p \in Nat, a \in Nat
  <2>6. a \in Int
    BY ONLY a \in Nat
  <2>7. aligned_OK(n)
    BY ONLY <2>1, <2>2, <2>6, aligned_OK(a), AlignedSum
  <2>8. a % a = 0
    BY ONLY a \in Nat, a > 0
  <2>9. (m + a) % a = 0
    BY ONLY <1>4, <2>6, <2>8, a \in Nat, a > 0, Multiples
  <2>10. n + MALLOC_ALIGNMENT = m + a
    BY ONLY <2>1, <1>b, <1>1, <1>4, <1>5, a \in Nat
  <2> QED BY ONLY <2>5, <2>7, <2>9, <2>10, <1>7
<1>9. CASE brk - p \notin 1 .. MINSIZE - 1
  <2>1. n = brk
    BY ONLY <1>2, <1>9
  <2>2. n \in Nat /\ p <= n /\ (n # p => p + MINSIZE <= n) /\ n < p + a + MINSIZE
    BY ONLY <2>1, <1>1, <1>5, <1>9, p \in Nat, a \in Nat
  <2> QED BY ONLY <2>1, <2>2, <1>4, <1>6, <1>7, <1>b
<1> QED BY ONLY <1>8, <1>9

\* The new chunk n of an aligned request, in place of call.p.
Spotted(h2, u, u2, n) ==
  /\ HeapOK(h2, u2, {}, heap.tcache)
  /\ DOMAIN u2 = (DOMAIN u \ {call.p}) \cup {n} /\ n \notin DOMAIN u \ {call.p} /\ n \in Nat
  /\ \A q \in DOMAIN u : q # call.p => u2[q] = u[q]
  /\ usable(u2[n]) >= call.req /\ chunk2mem(n) % call.align = 0
  /\ ~u2[n].mmapped => u2[n].size <= request2size(call.req) + MINSIZE

\* It is returned.
LEMMA ReturnsSpot ==
  ASSUME NEW u, State(heap, call, live, u), call.pc = "got", ~call.init, call.op = "memalign",
         call.p # NIL, NEW n, n >= call.p, NEW u2, Spotted(heap', u, u2, n), Result(n), live' = live
  PROVE  \E v : State(heap', call', live', v)
<1> DEFINE p == call.p
           t == heap.tcache
           l == live
<1>1. /\ HeapOK(heap, u, {}, t) /\ DOMAIN call = CallFields
      /\ DOMAIN u = (DOMAIN l \cup {q \in {p} : q # NIL}) \cup {q \in {t} : q # NONE /\ q # SHUT}
      /\ p \in DOMAIN u /\ p \notin DOMAIN l /\ p # t /\ call.old = NIL /\ t \notin DOMAIN l
  <2>1. /\ HeapOK(heap, u, {}, t) /\ DOMAIN call = CallFields
        /\ DOMAIN u = (DOMAIN l \cup {q \in {p} : q # NIL}) \cup {q \in {t} : q # NONE /\ q # SHUT}
        /\ (p # NIL => p \in DOMAIN u /\ p \notin DOMAIN l /\ p # t)
        /\ (call.op \notin {"realloc", "recopy"} => call.old = NIL)
        /\ t \notin DOMAIN l
    BY ONLY State(heap, call, live, u), call.pc = "got", ~call.init, GotFacts, Zenon
  <2> QED BY ONLY <2>1, call.op = "memalign", call.p # NIL
<1>2. SameCall(call, call', {"pc", "p"}) /\ call'.pc = "return" /\ call'.p = n
  BY ONLY <1>1, Result(n), ResultCall
<1>3. SameCall(call, call', {"pc", "p", "clear", "copied"})
  BY ONLY <1>2, SameMore
<1>4. /\ HeapOK(heap', u2, {}, t)
      /\ DOMAIN u2 = (DOMAIN u \ {p}) \cup {n} /\ n \notin DOMAIN u \ {p} /\ n \in Nat
      /\ (\A q \in DOMAIN u : q # p => u2[q] = u[q])
      /\ usable(u2[n]) >= call.req /\ chunk2mem(n) % call.align = 0
      /\ (~u2[n].mmapped => u2[n].size <= request2size(call.req) + MINSIZE)
  BY ONLY Spotted(heap', u, u2, n) DEF Spotted
<1>5. NIL \notin DOMAIN l
  <2>1. NIL \notin DOMAIN u
    <3> SUFFICES ASSUME NIL \in DOMAIN u PROVE FALSE
      OBVIOUS
    <3>1. NIL # NIL
      BY ONLY <1>1, NIL \in DOMAIN u, HeldChunk
    <3> QED BY ONLY <3>1
  <2> QED BY ONLY <1>1, <2>1
<1>6. n # NIL
  <2>1. p \in Nat /\ p > 0
    BY ONLY <1>1, HeldChunk
  <2> QED BY ONLY <2>1, <1>4, n >= call.p DEF NIL
<1>7. n # t /\ n \notin DOMAIN l
  <2>1. t \in DOMAIN u \/ t = NONE \/ t = SHUT
    BY ONLY <1>1
  <2>2. n # NONE /\ n # SHUT
    BY ONLY <1>4 DEF NONE, SHUT
  <2> QED BY ONLY <1>1, <1>4, <2>1, <2>2
<1>8. /\ call'.op = "memalign" /\ call'.req = call.req /\ call'.align = call.align /\ call'.old = NIL
  BY ONLY <1>1, <1>3, call.op = "memalign" DEF SameCall, CallFields
<1>9. DOMAIN u2 = HeldBy(call', l, t)
  <2>1. Blocks(call', l) = DOMAIN l \cup {n}
    BY ONLY <1>2, <1>5, <1>6, <1>8 DEF Blocks
  <2> QED BY ONLY <1>1, <1>2, <1>4, <1>8, <2>1, call.p # NIL DEF HeldBy
<1>10. \A q \in DOMAIN l : (call'.p # NIL /\ q = call.old) \/ u2[q] = u[q]
  BY ONLY <1>1, <1>4
<1>11. Served(call', l, u2, t)
  BY ONLY <1>2, <1>4, <1>7, <1>8 DEF Served, Copies
<1>12. call.pc \in {"start", "got"}
  BY ONLY call.pc = "got"
<1>13. State(heap', call', l, u2)
  <2>1. /\ HeapOK(heap', u2, {}, heap.tcache) /\ call'.pc = "return"
        /\ DOMAIN u2 = HeldBy(call', live, heap.tcache)
        /\ (\A q \in DOMAIN live : (call'.p # NIL /\ q = call.old) \/ u2[q] = u[q])
        /\ Served(call', live, u2, heap.tcache)
    BY ONLY <1>2, <1>4, <1>9, <1>10, <1>11
  <2> QED
    BY ONLY State(heap, call, live, u), <1>12, ~call.init, <1>3, <2>1, Returns
<1> QED BY ONLY <1>13, live' = live

\* What an aligned request got has room for the aligned chunk.
LEMMA SpotRoom ==
  ASSUME NEW u, State(heap, call, live, u), call.pc = "got", ~call.init, call.op = "memalign",
         call.p # NIL, NEW n, n = mem_spot(call.p), NEW k, k = request2size(call.req),
         NEW e, e = End(heap.hdr, call.p)
  PROVE  /\ call.p \in DOMAIN u /\ call.p \in Nat /\ call.req \in Nat
         /\ n \in Nat /\ call.p <= n /\ (n # call.p => call.p + MINSIZE <= n)
         /\ aligned_OK(n) /\ chunk2mem(n) % call.align = 0
         /\ k \in ChunkSizes /\ k \in Nat /\ k >= call.req + SIZE_SZ /\ e \in Nat
         /\ n + MINSIZE <= e /\ e - n >= k /\ (u[call.p].mmapped => e - n >= k + SIZE_SZ)
         /\ u[call.p].mmapped = heap.hdr[call.p].mmapped /\ u[call.p].mmapped \in BOOLEAN
         /\ HeapOK(heap, u, {}, heap.tcache)
<1> DEFINE p == call.p
           a == call.align
           s == heap.hdr[p].size
           w == request2size(k + a + MINSIZE)
<1>1. /\ HeapOK(heap, u, {}, heap.tcache) /\ call.req \in Nat
      /\ a \in Nat /\ a > 0 /\ aligned_OK(a) /\ p \in DOMAIN u /\ Fits(u[p], Wanted(call))
  <2>1. /\ HeapOK(heap, u, {}, heap.tcache) /\ call.req \in Nat
        /\ a \in Nat /\ a > 0 /\ aligned_OK(a) /\ (p # NIL => p \in DOMAIN u /\ Fits(u[p], Wanted(call)))
    BY ONLY State(heap, call, live, u), call.pc = "got", ~call.init, GotFacts, Zenon
  <2> QED BY ONLY <2>1, call.p # NIL
<1>2. /\ p \in Nat /\ aligned_OK(p) /\ u[p].size = s /\ u[p].mmapped = heap.hdr[p].mmapped
      /\ s \in Nat /\ u[p].mmapped \in BOOLEAN
  <2>1. /\ p \in Nat /\ aligned_OK(p) /\ u[p].size = s /\ u[p].mmapped = heap.hdr[p].mmapped
        /\ u[p].size \in Nat /\ u[p].mmapped \in BOOLEAN
    BY ONLY <1>1, HeldChunk
  <2> QED BY ONLY <2>1
<1>3. /\ n \in Nat /\ p <= n /\ (n # p => p + MINSIZE <= n) /\ n < p + a + MINSIZE
      /\ aligned_OK(n) /\ chunk2mem(n) % a = 0
  <2>1. n = mem_spot(p) /\ a = call.align
    BY ONLY n = mem_spot(call.p)
  <2> HIDE DEF a, p
  <2> QED BY ONLY <1>1, <1>2, <2>1, MemSpot
<1>4. k \in ChunkSizes /\ k >= call.req + SIZE_SZ
  BY ONLY <1>1, k = request2size(call.req), RequestServed
<1>5. k \in Nat /\ k >= MINSIZE /\ MINSIZE \in Nat /\ SIZE_SZ \in Nat /\ SIZE_SZ > 0
  <2>1. k \in Nat /\ k >= MINSIZE
    BY ONLY <1>4 DEF ChunkSizes
  <2> QED BY <2>1, Units, SizesAssumption
<1>6. w \in Nat /\ w >= k + a + MINSIZE + SIZE_SZ
  <2>1. k + a + MINSIZE \in Nat
    BY ONLY <1>1, <1>5
  <2>2. w \in ChunkSizes /\ w >= (k + a + MINSIZE) + SIZE_SZ
    BY ONLY <2>1, RequestServed
  <2> QED BY ONLY <2>2, <1>1, <1>5 DEF ChunkSizes
<1>7. Wanted(call) = w
  BY ONLY ~call.init, call.op = "memalign", k = request2size(call.req) DEF Wanted
<1>8. e = p + s
  BY ONLY e = End(heap.hdr, call.p) DEF End
<1>9. s >= w /\ (u[p].mmapped => s >= w + SIZE_SZ)
  <2>1. IF u[p].mmapped THEN s >= w + SIZE_SZ ELSE s >= w /\ s < w + MINSIZE
    BY ONLY <1>1, <1>2, <1>7 DEF Fits
  <2> HIDE DEF s, w
  <2> QED BY ONLY <2>1, <1>2, <1>5, <1>6
<1> HIDE DEF s, w
<1> HIDE DEF a
<1>10. /\ e \in Nat /\ n + MINSIZE <= e /\ e - n >= k /\ (u[p].mmapped => e - n >= k + SIZE_SZ)
  <2> HIDE DEF p
  <2>1. e \in Nat /\ e - n >= s - a - MINSIZE
    BY ONLY <1>1, <1>2, <1>3, <1>5, <1>8
  <2>2. e - n >= k /\ (u[p].mmapped => e - n >= k + SIZE_SZ) /\ e - n \in Int
    BY ONLY <1>1, <1>2, <1>3, <1>5, <1>6, <1>8, <1>9, <2>1
  <2> QED BY ONLY <2>1, <2>2, <1>3, <1>5
<1>11. chunk2mem(n) % call.align = 0
  BY ONLY <1>3 DEF a
<1> QED BY ONLY <1>1, <1>2, <1>3, <1>4, <1>5, <1>10, <1>11

\* memalign inside a mapping.
LEMMA SpotMapped ==
  ASSUME NEW u, State(heap, call, live, u), call.pc = "got", ~call.init, call.op = "memalign",
         call.p # NIL, mmapped(call.p), NEW n, n = mem_spot(call.p),
         heap' = [Forget(heap, call.p) EXCEPT
                    !.hdr = With(@, n, Header(next_chunk(heap, call.p) - n,
                                              heap.hdr[call.p].prev_size + n - call.p, TRUE))]
  PROVE  \E u2 : Spotted(heap', u, u2, n)
<1> DEFINE p == call.p
           k == request2size(call.req)
           e == End(heap.hdr, call.p)
           o == heap.hdr[call.p].prev_size + n - call.p
           u2 == With(Without(u, p), n, Mapping(e - n, o))
<1>1. /\ p \in DOMAIN u /\ p \in Nat /\ call.req \in Nat /\ n \in Nat /\ p <= n
      /\ aligned_OK(n) /\ chunk2mem(n) % call.align = 0
      /\ k \in Nat /\ k >= call.req + SIZE_SZ /\ e \in Nat /\ n + MINSIZE <= e
      /\ (u[p].mmapped => e - n >= k + SIZE_SZ) /\ u[p].mmapped = heap.hdr[p].mmapped
      /\ HeapOK(heap, u, {}, heap.tcache)
  <2>1. k = request2size(call.req) /\ e = End(heap.hdr, call.p)
    OBVIOUS
  <2> HIDE DEF k, e
  <2>2. /\ call.p \in DOMAIN u /\ call.p \in Nat /\ call.req \in Nat
        /\ n \in Nat /\ call.p <= n /\ aligned_OK(n) /\ chunk2mem(n) % call.align = 0
        /\ k \in Nat /\ k >= call.req + SIZE_SZ /\ e \in Nat
        /\ n + MINSIZE <= e /\ (u[call.p].mmapped => e - n >= k + SIZE_SZ)
        /\ u[call.p].mmapped = heap.hdr[call.p].mmapped
        /\ HeapOK(heap, u, {}, heap.tcache)
    BY ONLY State(heap, call, live, u), call.pc = "got", ~call.init, call.op = "memalign",
       call.p # NIL, n = mem_spot(call.p), <2>1, SpotRoom
  <2> QED BY ONLY <2>2
<1>2. u[p].mmapped
  BY ONLY <1>1, mmapped(call.p) DEF mmapped
<1>3. next_chunk(heap, call.p) = e
  BY DEF next_chunk, chunksize, End
<1>a. /\ p = call.p /\ k = request2size(call.req) /\ e = End(heap.hdr, p)
      /\ o = heap.hdr[p].prev_size + n - p /\ u2 = With(Without(u, p), n, Mapping(e - n, o))
  OBVIOUS
<1>4. heap' = [Forget(heap, p) EXCEPT !.hdr = With(@, n, Header(e - n, o, TRUE))]
  BY ONLY <1>3, heap' = [Forget(heap, call.p) EXCEPT
                    !.hdr = With(@, n, Header(next_chunk(heap, call.p) - n,
                                              heap.hdr[call.p].prev_size + n - call.p, TRUE))]
<1> HIDE DEF u2
<1> HIDE DEF o
<1> HIDE DEF k, e
<1>5. HeapOK(heap', u2, {}, heap.tcache) /\ n \notin DOMAIN Without(u, p)
  <2> HIDE DEF p
  <2>1. /\ HeapOK(heap, u, {}, heap.tcache) /\ p \in DOMAIN u /\ u[p].mmapped /\ n \in Nat
        /\ e = End(heap.hdr, p) /\ p <= n /\ n + MINSIZE <= e /\ aligned_OK(n)
    BY ONLY <1>1, <1>2, <1>a
  <2>2. o = heap.hdr[p].prev_size + n - p
    BY ONLY <1>a
  <2>3. u2 = With(Without(u, p), n, Mapping(e - n, o))
    BY ONLY <1>a
  <2> QED BY ONLY <2>1, <2>2, <2>3, <1>4, Realigned, Zenon
<1>6. DOMAIN u2 = (DOMAIN u \ {p}) \cup {n} /\ u2[n] = Mapping(e - n, o)
      /\ DOMAIN Without(u, p) = DOMAIN u \ {p}
  BY ONLY <1>a DEF With, Without
<1>7. \A q \in DOMAIN u : q # p => u2[q] = u[q]
  BY ONLY <1>5, <1>a DEF With, Without
<1>8. usable(u2[n]) >= call.req
  <2>1. usable(u2[n]) = e - n - CHUNK_HDR_SZ
    BY ONLY <1>6 DEF usable, Mapping
  <2>2. CHUNK_HDR_SZ = 2 * SIZE_SZ /\ SIZE_SZ \in Nat
    BY SizesAssumption DEF CHUNK_HDR_SZ
  <2>3. e - n >= k + SIZE_SZ
    BY ONLY <1>1, <1>2
  <2> QED BY ONLY <1>1, <2>1, <2>2, <2>3
<1>9. u2[n].mmapped = TRUE
  BY ONLY <1>6 DEF Mapping
<1>10. Spotted(heap', u, u2, n)
  BY ONLY <1>1, <1>5, <1>6, <1>7, <1>8, <1>9 DEF Spotted
<1> QED BY ONLY <1>10

\* memalign inside a chunk of the heap.
LEMMA SpotCut ==
  ASSUME NEW u, State(heap, call, live, u), call.pc = "got", ~call.init, call.op = "memalign",
         call.p # NIL, ~mmapped(call.p), NEW n, n = mem_spot(call.p),
         heap' = free_spare(free_leader(Require(heap,
                    next_chunk(heap, call.p) - n >= request2size(call.req)), call.p, n),
                  n, request2size(call.req))
  PROVE  \E u2 : Spotted(heap', u, u2, n)
<1> DEFINE p == call.p
           k == request2size(call.req)
           e == End(heap.hdr, call.p)
           hA == Require(heap, next_chunk(heap, call.p) - n >= request2size(call.req))
           hB == free_leader(hA, p, n)
           uB == With(Without(u, p), n, Plain(e - n))
           z == hB.hdr[n].size
           v == IF z <= k + MINSIZE THEN z ELSE k
           u2 == With(uB, n, Plain(v))
<1>1. /\ p \in DOMAIN u /\ p \in Nat /\ call.req \in Nat /\ n \in Nat /\ p <= n
      /\ (n # p => p + MINSIZE <= n)
      /\ aligned_OK(n) /\ chunk2mem(n) % call.align = 0
      /\ k \in ChunkSizes /\ k \in Nat /\ k >= call.req + SIZE_SZ /\ e \in Nat /\ n + MINSIZE <= e
      /\ e - n >= k /\ u[p].mmapped = heap.hdr[p].mmapped
      /\ HeapOK(heap, u, {}, heap.tcache)
  <2>1. k = request2size(call.req) /\ e = End(heap.hdr, call.p)
    OBVIOUS
  <2> HIDE DEF k, e
  <2>2. /\ call.p \in DOMAIN u /\ call.p \in Nat /\ call.req \in Nat
        /\ n \in Nat /\ call.p <= n /\ (n # call.p => call.p + MINSIZE <= n)
        /\ aligned_OK(n) /\ chunk2mem(n) % call.align = 0
        /\ k \in ChunkSizes /\ k \in Nat /\ k >= call.req + SIZE_SZ /\ e \in Nat
        /\ n + MINSIZE <= e /\ e - n >= k
        /\ u[call.p].mmapped = heap.hdr[call.p].mmapped
        /\ HeapOK(heap, u, {}, heap.tcache)
    BY ONLY State(heap, call, live, u), call.pc = "got", ~call.init, call.op = "memalign",
       call.p # NIL, n = mem_spot(call.p), <2>1, SpotRoom
  <2> QED BY ONLY <2>2
<1>2. ~u[p].mmapped
  BY ONLY <1>1, ~mmapped(call.p) DEF mmapped
<1>a. /\ p = call.p /\ k = request2size(call.req) /\ e = End(heap.hdr, p)
      /\ hA = Require(heap, next_chunk(heap, call.p) - n >= request2size(call.req))
      /\ hB = free_leader(hA, p, n) /\ uB = With(Without(u, p), n, Plain(e - n))
      /\ z = hB.hdr[n].size /\ v = (IF z <= k + MINSIZE THEN z ELSE k) /\ u2 = With(uB, n, Plain(v))
  OBVIOUS
<1>3. heap' = free_spare(hB, n, k)
  OBVIOUS
<1> HIDE DEF u2
<1> HIDE DEF v
<1> HIDE DEF z
<1> HIDE DEF hB, uB
<1> HIDE DEF hA
<1> HIDE DEF k, e
<1> HIDE DEF p
<1>4. HeapOK(hA, u, {}, heap.tcache) /\ Same(heap, hA, {"abort"})
  BY ONLY <1>1, <1>a, Required
<1>5. hA.hdr = heap.hdr
  BY ONLY <1>4 DEF Same, Fields
<1>6. e = End(hA.hdr, p)
  BY ONLY <1>5, <1>a
<1>7. HeapOK(hB, uB, {}, heap.tcache)
  BY ONLY <1>1, <1>2, <1>4, <1>6, <1>a, Leader
<1>8. DOMAIN uB = (DOMAIN u \ {p}) \cup {n} /\ uB[n] = Plain(e - n)
  BY ONLY <1>a DEF With, Without
<1>9. n \in DOMAIN uB /\ ~uB[n].mmapped /\ uB[n].size = e - n
  BY ONLY <1>8 DEF Plain
<1>10. z = e - n
  BY ONLY <1>7, <1>9, <1>a, HeldChunk
<1>11. HeapOK(heap', u2, {}, heap.tcache)
  <2>1. v = IF hB.hdr[n].size <= k + MINSIZE THEN hB.hdr[n].size ELSE k
    BY ONLY <1>a
  <2>2. u2 = With(uB, n, Plain(v)) /\ k \in ChunkSizes
    BY ONLY <1>a, <1>1
  <2> QED BY ONLY <1>3, <1>7, <1>9, <2>1, <2>2, Spared
<1>12. n \notin DOMAIN u \ {p}
  <2>1. CASE n # p
    <3>1. p < n /\ n < e
      <4>1. MINSIZE \in Nat /\ MINSIZE > 0
        BY Units
      <4> QED BY ONLY <1>1, <2>1, <4>1
    <3>2. p \in Chunks(heap.hdr, heap.top)
      BY ONLY <1>1, <1>2, HeldFacts
    <3>3. n \notin DOMAIN heap.hdr
      BY ONLY <1>1, <1>a, <3>1, <3>2, NoneBetween
    <3>4. \A q \in DOMAIN u : q \in DOMAIN heap.hdr
      BY ONLY <1>1, Known
    <3> QED BY ONLY <3>3, <3>4
  <2> QED BY ONLY <2>1
<1>13. DOMAIN u2 = (DOMAIN u \ {p}) \cup {n} /\ u2[n] = Plain(v)
  BY ONLY <1>8, <1>a DEF With
<1>14. \A q \in DOMAIN u : q # p => u2[q] = u[q]
  BY ONLY <1>12, <1>a DEF With, Without
<1>15. /\ usable(u2[n]) >= call.req /\ (~u2[n].mmapped => u2[n].size <= k + MINSIZE)
  <2>1. usable(u2[n]) = v - SIZE_SZ /\ u2[n].size = v
    BY ONLY <1>13 DEF usable, Plain
  <2>2. SIZE_SZ \in Nat /\ MINSIZE \in Nat
    BY Units, SizesAssumption
  <2>3. z \in Int /\ z >= k /\ k \in Int /\ call.req \in Int /\ k >= call.req + SIZE_SZ
    BY ONLY <1>1, <1>10
  <2>4. v = IF z <= k + MINSIZE THEN z ELSE k
    BY ONLY <1>a
  <2>5. v \in Int /\ v - SIZE_SZ >= call.req /\ v <= k + MINSIZE
    BY ONLY <2>2, <2>3, <2>4
  <2> QED BY ONLY <2>1, <2>5
<1>b. p = call.p /\ k = request2size(call.req)
  BY ONLY <1>a
<1>16. Spotted(heap', u, u2, n)
  BY ONLY <1>1, <1>11, <1>12, <1>13, <1>14, <1>15, <1>b DEF Spotted
<1> QED BY ONLY <1>16

\* memalign, with what _int_malloc got.
LEMMA MemalignedStep ==
  ASSUME NEW u, State(heap, call, live, u), Memaligned
  PROVE  \E v : State(heap', call', live', v)
<1> DEFINE n == mem_spot(call.p)
<1>0. /\ call.pc = "got" /\ call.op = "memalign" /\ ~call.init /\ live' = live
      /\ IF call.p = NIL THEN Result(NIL) /\ heap' = heap
         ELSE \E p \in {mem_spot(call.p)} :
           /\ heap' = IF mmapped(call.p)
                      THEN [Forget(heap, call.p) EXCEPT
                              !.hdr = With(@, p, Header(next_chunk(heap, call.p) - p,
                                                        heap.hdr[call.p].prev_size + p - call.p, TRUE))]
                      ELSE free_spare(free_leader(Require(heap,
                               next_chunk(heap, call.p) - p >= request2size(call.req)), call.p, p),
                             p, request2size(call.req))
           /\ Result(p)
  BY Zenon DEF Memaligned, GotFor
<1>1. CASE call.p = NIL
  <2>1. Result(NIL) /\ heap' = heap
    BY ONLY <1>0, <1>1
  <2>2. HeapOK(heap, u, {}, heap.tcache) /\ DOMAIN call = CallFields
    BY ONLY State(heap, call, live, u), StateFacts
  <2>3. SameCall(call, call', {"pc", "p"}) /\ call'.pc = "return" /\ call'.p = NIL
    BY ONLY <2>1, <2>2, ResultCall
  <2>4. SameCall(call, call', {"pc", "p", "clear", "copied"})
    BY ONLY <2>3, SameMore
  <2>5. /\ call.op # "free" /\ HeapOK(heap', u, {}, heap.tcache)
        /\ (call.pc = "start" \/ (call.pc = "got" /\ call.p = NIL))
    BY ONLY <1>0, <1>1, <2>1, <2>2
  <2>6. State(heap', call', live, u)
    BY ONLY State(heap, call, live, u), <1>0, <2>3, <2>4, <2>5, ReturnsNull
  <2> QED BY ONLY <1>0, <2>6
<1>2. CASE call.p # NIL
  <2>1. Result(n)
    BY ONLY <1>0, <1>2
  <2>2. \E u2 : Spotted(heap', u, u2, n)
    <3>a. n = mem_spot(call.p)
      OBVIOUS
    <3>1. CASE mmapped(call.p)
      <4>1. heap' = [Forget(heap, call.p) EXCEPT
                    !.hdr = With(@, n, Header(next_chunk(heap, call.p) - n,
                                              heap.hdr[call.p].prev_size + n - call.p, TRUE))]
        BY ONLY <1>0, <1>2, <3>1
      <4> HIDE DEF n
      <4> QED BY ONLY State(heap, call, live, u), <1>0, <1>2, <3>1, <3>a, <4>1, SpotMapped
    <3>2. CASE ~mmapped(call.p)
      <4>1. heap' = free_spare(free_leader(Require(heap,
                    next_chunk(heap, call.p) - n >= request2size(call.req)), call.p, n),
                  n, request2size(call.req))
        BY ONLY <1>0, <1>2, <3>2
      <4> HIDE DEF n
      <4> QED BY ONLY State(heap, call, live, u), <1>0, <1>2, <3>2, <3>a, <4>1, SpotCut
    <3> QED BY ONLY <3>1, <3>2
  <2>3. PICK u2 : Spotted(heap', u, u2, n)
    BY ONLY <2>2
  <2>4. n >= call.p
    <3> DEFINE k == request2size(call.req)
               e == End(heap.hdr, call.p)
    <3>1. n = mem_spot(call.p) /\ k = request2size(call.req) /\ e = End(heap.hdr, call.p)
      OBVIOUS
    <3> HIDE DEF n, k, e
    <3>2. n \in Nat /\ call.p <= n /\ call.p \in Nat
      BY ONLY State(heap, call, live, u), <1>0, <1>2, <3>1, SpotRoom
    <3> QED BY ONLY <3>2
  <2>5. call.pc = "got" /\ ~call.init /\ call.op = "memalign" /\ live' = live
    BY ONLY <1>0
  <2> HIDE DEF n
  <2> QED BY ONLY State(heap, call, live, u), <1>2, <2>1, <2>3, <2>4, <2>5, ReturnsSpot
<1> QED BY ONLY <1>1, <1>2

\* free.
LEMMA FreeStep ==
  ASSUME NEW u, State(heap, call, live, u), Free
  PROVE  \E v : State(heap', call', live', v)
<1> DEFINE v == Without(u, call.old)
<1>0. /\ call.pc = "start" /\ call.op \in {"free"} /\ heap' = libc_free(heap, call.old) /\ Result(NIL)
      /\ live' = live
  <2>1. /\ call.pc = "start" /\ call.op \in {"free"} /\ heap' = libc_free(heap, old) /\ Result(NIL)
        /\ live' = live
    BY Zenon DEF Free, Started
  <2> QED BY ONLY <2>1 DEF old
<1>1. HeapOK(heap, u, {}, heap.tcache) /\ DOMAIN call = CallFields
      /\ DOMAIN u = HeldBy(call, live, heap.tcache)
  BY ONLY State(heap, call, live, u), StateFacts
<1>2. SameCall(call, call', {"pc", "p"}) /\ call'.pc = "return" /\ call'.p = NIL
  BY ONLY <1>0, <1>1, ResultCall
<1>3. SameCall(call, call', {"pc", "p", "clear", "copied"})
  BY ONLY <1>2, SameMore
<1>4. call.old \in DOMAIN u /\ call.op = "free"
  BY ONLY <1>0, <1>1 DEF HeldBy
<1>5. HeapOK(heap', Without(u, call.old), {}, heap.tcache)
  BY ONLY <1>0, <1>1, <1>4, LibcFreed
<1>6. State(heap', call', live, Without(u, call.old))
  BY ONLY State(heap, call, live, u), <1>0, <1>2, <1>3, <1>4, <1>5, Frees
<1> QED BY ONLY <1>0, <1>6

\* A call returns.
LEMMA ReturnStep ==
  ASSUME NEW u, State(heap, call, live, u), Return
  PROVE  \E v : State(heap', call', live', v)
<1>0. /\ call.pc = "return" /\ call' = NoCall /\ heap' = heap
      /\ live' = IF call.p = NIL THEN live
                 ELSE With(Restrict(live, DOMAIN live \ {old}), call.p, call.req)
  BY Zenon DEF Return
<1>1. Settles(call, live, live')
  BY ONLY <1>0 DEF Settles, old
<1>2. State(heap, NoCall, live', u)
  BY ONLY State(heap, call, live, u), <1>0, <1>1, Finished
<1> QED BY ONLY <1>0, <1>2

----------------------------------------------------------------------------
(* What a program can call.                                                *)

\* Alignments are powers of two chunks,
LEMMA Powers ==
  ASSUME NEW k \in 0 .. 20
  PROVE  2 ^ k \in Nat
<1>1. /\ 2 ^ 0 \in Nat /\ 2 ^ 1 \in Nat /\ 2 ^ 2 \in Nat /\ 2 ^ 3 \in Nat /\ 2 ^ 4 \in Nat
      /\ 2 ^ 5 \in Nat /\ 2 ^ 6 \in Nat /\ 2 ^ 7 \in Nat /\ 2 ^ 8 \in Nat /\ 2 ^ 9 \in Nat
      /\ 2 ^ 10 \in Nat /\ 2 ^ 11 \in Nat /\ 2 ^ 12 \in Nat /\ 2 ^ 13 \in Nat /\ 2 ^ 14 \in Nat
      /\ 2 ^ 15 \in Nat /\ 2 ^ 16 \in Nat /\ 2 ^ 17 \in Nat /\ 2 ^ 18 \in Nat /\ 2 ^ 19 \in Nat
      /\ 2 ^ 20 \in Nat
  OBVIOUS
<1>2. k = 0 \/ k = 1 \/ k = 2 \/ k = 3 \/ k = 4 \/ k = 5 \/ k = 6 \/ k = 7 \/ k = 8 \/ k = 9
      \/ k = 10 \/ k = 11 \/ k = 12 \/ k = 13 \/ k = 14 \/ k = 15 \/ k = 16 \/ k = 17 \/ k = 18 \/ k = 19 \/ k = 20
  OBVIOUS
<1> QED BY ONLY <1>1, <1>2

\* and there is one that is large enough.
LEMMA AlignmentChosen ==
  ASSUME NEW x \in 0 .. 2 ^ 20 * MALLOC_ALIGNMENT,
         NEW P, P = {2 ^ k * MALLOC_ALIGNMENT : k \in 0 .. 20},
         NEW a, a = Min({b \in P : b >= Max({x, MINSIZE})})
  PROVE  a \in Nat /\ a > 0 /\ aligned_OK(a)
<1> DEFINE T == {b \in P : b >= Max({x, MINSIZE})}
           z == 2 ^ 20 * MALLOC_ALIGNMENT
<1>1. /\ MALLOC_ALIGNMENT \in {8, 16} /\ MINSIZE = 2 * MALLOC_ALIGNMENT /\ MALLOC_ALIGNMENT \in Nat
      /\ MALLOC_ALIGNMENT > 0
  BY Units
<1>2. z \in Nat /\ z >= MINSIZE /\ z \in P
  <2>1. 2 ^ 20 \in Nat /\ 2 ^ 20 >= 2 /\ 20 \in 0 .. 20
    OBVIOUS
  <2> DEFINE w == 2 ^ 20
  <2>2. w \in Nat /\ w >= 2
    BY ONLY <2>1
  <2> HIDE DEF w
  <2>3. w * MALLOC_ALIGNMENT \in Nat /\ w * MALLOC_ALIGNMENT >= MINSIZE
    BY ONLY <1>1, <2>2
  <2>4. z = w * MALLOC_ALIGNMENT
    BY DEF w
  <2>5. z \in P
    BY ONLY <2>1, P = {2 ^ k * MALLOC_ALIGNMENT : k \in 0 .. 20}
  <2> QED BY ONLY <2>3, <2>4, <2>5
<1>3. x \in Nat /\ x <= z
  BY ONLY <1>2, x \in 0 .. z
<1>4. \A b \in P : b \in Nat /\ \E c \in Nat : b = MALLOC_ALIGNMENT * c
  <2> SUFFICES ASSUME NEW b \in P PROVE b \in Nat /\ \E c \in Nat : b = MALLOC_ALIGNMENT * c
    OBVIOUS
  <2>1. PICK k \in 0 .. 20 : b = 2 ^ k * MALLOC_ALIGNMENT
    BY ONLY b \in P, P = {2 ^ k * MALLOC_ALIGNMENT : k \in 0 .. 20}
  <2> DEFINE c == 2 ^ k
  <2>2. c \in Nat /\ b = c * MALLOC_ALIGNMENT
    BY ONLY <2>1, k \in 0 .. 20, Powers
  <2> HIDE DEF c
  <2>3. b \in Nat /\ b = MALLOC_ALIGNMENT * c
    BY ONLY <1>1, <2>2
  <2> QED BY ONLY <2>2, <2>3
<1>5. /\ Max({x, MINSIZE}) \in {x, MINSIZE} /\ Max({x, MINSIZE}) >= MINSIZE
  <2>1. {x, MINSIZE} \subseteq Nat /\ {x, MINSIZE} # {} /\ z \in Nat /\ \A y \in {x, MINSIZE} : y <= z
    <3>1. MINSIZE \in Nat
      BY Units
    <3> QED BY ONLY <1>2, <1>3, <3>1
  <2> DEFINE S == {x, MINSIZE}
  <2>2. MINSIZE \in S
    OBVIOUS
  <2>3. Max(S) \in S /\ \A y \in S : Max(S) >= y
    <3>1. S \subseteq Nat /\ S # {} /\ z \in Nat /\ \A y \in S : y <= z
      BY ONLY <2>1
    <3> HIDE DEF S, z
    <3> QED BY ONLY <3>1, MaxIs
  <2> QED BY ONLY <2>2, <2>3
<1>6. z >= Max({x, MINSIZE})
  BY ONLY <1>2, <1>3, <1>5
<1>7. z \in T /\ T \subseteq Nat
  BY ONLY <1>2, <1>4, <1>6
<1>a. a = Min(T)
  OBVIOUS
<1>b. \A b \in T : b \in P /\ b >= Max({x, MINSIZE})
  OBVIOUS
<1> HIDE DEF z, T
<1>8. a \in T
  BY ONLY <1>7, <1>a, MinIs
<1>9. a \in P /\ a \in Nat /\ a >= MINSIZE
  <2>1. a \in P /\ a \in Nat /\ a >= Max({x, MINSIZE})
    BY ONLY <1>4, <1>8, <1>b
  <2>2. MINSIZE \in Nat
    BY Units
  <2> QED BY ONLY <1>3, <1>5, <2>1, <2>2
<1>10. PICK c \in Nat : a = MALLOC_ALIGNMENT * c
  BY ONLY <1>4, <1>9
<1>11. a % MALLOC_ALIGNMENT = 0
  BY ONLY <1>1, <1>9, <1>10, c \in Nat, IsMultiple
<1> QED BY ONLY <1>1, <1>9, <1>11 DEF aligned_OK

\* The program makes one of its calls, and has the rest of them left.
LEMMA NextCall ==
  ASSUME program \in Seq(SUBSET Requests), NEW op, NEW c, Calls(op, c)
  PROVE  c \in Requests /\ c.op = op /\ call.pc = "idle" /\ program' \in Seq(SUBSET Requests)
<1>1. /\ call.pc = "idle" /\ program # << >> /\ c \in Head(program) /\ c.op = op
      /\ program' = Tail(program)
  BY ONLY Calls(op, c), Zenon DEF Calls
<1>2. Head(program) \in SUBSET Requests /\ Tail(program) \in Seq(SUBSET Requests)
  BY ONLY <1>1, program \in Seq(SUBSET Requests)
<1> QED BY ONLY <1>1, <1>2

\* What the calls have for arguments.
LEMMA Arguments ==
  ASSUME NEW c \in Requests
  PROVE  /\ c.op \in {"malloc", "calloc", "memalign", "realloc"} => c.bytes \in Nat
         /\ c.op = "memalign" => c.alignment \in 0 .. 2 ^ 20 * MALLOC_ALIGNMENT
         /\ c.op = "mallopt" => c.value \in Nat
         /\ c.op = "sbrk" => c.increment \in Nat
<1> DEFINE z == 2 ^ 20 * MALLOC_ALIGNMENT
<1>1. \/ c \in [op : {"malloc", "calloc"}, bytes : Nat]
      \/ c \in [op : {"memalign"}, alignment : 0 .. z, bytes : Nat]
      \/ c \in [op : {"realloc"}, nth : Nat, bytes : Nat]
      \/ c \in [op : {"free"}, nth : Nat]
      \/ c \in [op : {"malloc_trim", "thread_exit"}]
      \/ c \in [op : {"mallopt"}, value : Nat,
            param : {"M_MXFAST", "M_TRIM_THRESHOLD", "M_TOP_PAD", "M_MMAP_THRESHOLD", "M_MMAP_MAX"}]
      \/ c \in [op : {"sbrk"}, increment : Nat]
  BY ONLY c \in Requests, Zenon DEF Requests
<1> HIDE DEF z
<1>2. /\ c.op \in {"malloc", "calloc", "memalign", "realloc"} => c.bytes \in Nat
      /\ c.op = "memalign" => c.alignment \in 0 .. z
      /\ c.op = "mallopt" => c.value \in Nat
      /\ c.op = "sbrk" => c.increment \in Nat
  BY ONLY <1>1
<1> QED BY ONLY <1>2 DEF z

\* What mallopt can be given.
LEMMA MalloptArguments ==
  ASSUME NEW c \in Requests, c.op = "mallopt"
  PROVE  /\ c.value \in Nat
         /\ c.param \in {"M_MXFAST", "M_TRIM_THRESHOLD", "M_TOP_PAD", "M_MMAP_THRESHOLD", "M_MMAP_MAX"}
<1> DEFINE z == 2 ^ 20 * MALLOC_ALIGNMENT
<1>1. \/ c \in [op : {"malloc", "calloc"}, bytes : Nat]
      \/ c \in [op : {"memalign"}, alignment : 0 .. z, bytes : Nat]
      \/ c \in [op : {"realloc"}, nth : Nat, bytes : Nat]
      \/ c \in [op : {"free"}, nth : Nat]
      \/ c \in [op : {"malloc_trim", "thread_exit"}]
      \/ c \in [op : {"mallopt"}, value : Nat,
            param : {"M_MXFAST", "M_TRIM_THRESHOLD", "M_TOP_PAD", "M_MMAP_THRESHOLD", "M_MMAP_MAX"}]
      \/ c \in [op : {"sbrk"}, increment : Nat]
  BY ONLY c \in Requests, Zenon DEF Requests
<1> HIDE DEF z
<1> QED BY ONLY <1>1, c.op = "mallopt"

\* A call begins.
LEMMA CallMallocStep ==
  ASSUME NEW u, State(heap, call, live, u), program \in Seq(SUBSET Requests), CallMalloc
  PROVE  (\E v : State(heap', call', live', v)) /\ program' \in Seq(SUBSET Requests)
<1>1. PICK c \in CallsNext, op \in {"malloc", "calloc"} :
        /\ Calls(op, c) /\ call' = [NoCall EXCEPT !.pc = "start", !.op = op, !.req = c.bytes]
        /\ heap' = heap /\ live' = live
  BY ONLY CallMalloc, Zenon DEF CallMalloc
<1>2. c \in Requests /\ c.op = op /\ call.pc = "idle" /\ program' \in Seq(SUBSET Requests)
  BY ONLY <1>1, program \in Seq(SUBSET Requests), NextCall
<1>3. op \in {"malloc", "calloc"} /\ c.bytes \in Nat
  BY ONLY <1>2, op \in {"malloc", "calloc"}, Arguments
<1>4. /\ DOMAIN call' = CallFields /\ call'.pc = "start" /\ call'.op = op /\ call'.req = c.bytes
      /\ call'.align = MALLOC_ALIGNMENT /\ call'.init = FALSE /\ call'.cached = FALSE
      /\ call'.nb = 0 /\ call'.old = NIL
  BY ONLY <1>1, NoCallFields DEF CallFields
<1>5. MALLOC_ALIGNMENT \in Nat /\ MALLOC_ALIGNMENT > 0 /\ aligned_OK(MALLOC_ALIGNMENT)
  BY Units
<1>6. Begins(call', live, live')
  BY ONLY <1>1, <1>3, <1>4, <1>5 DEF Begins
<1>7. State(heap, call', live', u)
  BY ONLY State(heap, call, live, u), <1>2, <1>6, Started2
<1> QED BY ONLY <1>1, <1>2, <1>7

\* memalign is called,
LEMMA CallMemalignStep ==
  ASSUME NEW u, State(heap, call, live, u), program \in Seq(SUBSET Requests), CallMemalign
  PROVE  (\E v : State(heap', call', live', v)) /\ program' \in Seq(SUBSET Requests)
<1> DEFINE P == {2 ^ k * MALLOC_ALIGNMENT : k \in 0 .. 20}
           a(c) == Min({b \in P : b >= Max({c.alignment, MINSIZE})})
           new(c) == [NoCall EXCEPT !.pc = "start", !.op = "malloc", !.req = c.bytes]
<1>1. PICK c \in CallsNext :
        /\ Calls("memalign", c)
        /\ call' = IF c.alignment <= MALLOC_ALIGNMENT THEN new(c)
                   ELSE [new(c) EXCEPT !.op = "memalign", !.align = a(c)]
        /\ heap' = heap /\ live' = live
  BY ONLY CallMemalign, Zenon DEF CallMemalign
<1>2. c \in Requests /\ c.op = "memalign" /\ call.pc = "idle" /\ program' \in Seq(SUBSET Requests)
  BY ONLY <1>1, program \in Seq(SUBSET Requests), NextCall
<1>3. c.bytes \in Nat /\ c.alignment \in 0 .. 2 ^ 20 * MALLOC_ALIGNMENT
  BY ONLY <1>2, Arguments
<1> DEFINE x == c.alignment
           d == a(c)
<1>4. d \in Nat /\ d > 0 /\ aligned_OK(d)
  <2>1. x \in 0 .. 2 ^ 20 * MALLOC_ALIGNMENT
    BY ONLY <1>3
  <2>2. P = {2 ^ k * MALLOC_ALIGNMENT : k \in 0 .. 20} /\ d = Min({b \in P : b >= Max({x, MINSIZE})})
    OBVIOUS
  <2> HIDE DEF P, d, x
  <2> QED BY ONLY <2>1, <2>2, AlignmentChosen
<1> HIDE DEF d
<1>5. MALLOC_ALIGNMENT \in Nat /\ MALLOC_ALIGNMENT > 0 /\ aligned_OK(MALLOC_ALIGNMENT)
  BY Units
<1>6. \/ call' = [NoCall EXCEPT !.pc = "start", !.op = "malloc", !.req = c.bytes]
      \/ call' = [[NoCall EXCEPT !.pc = "start", !.op = "malloc", !.req = c.bytes]
                    EXCEPT !.op = "memalign", !.align = d]
  BY ONLY <1>1 DEF d
<1> HIDE DEF P, a, new
<1>7. /\ DOMAIN call' = CallFields /\ call'.pc = "start" /\ call'.req = c.bytes
      /\ call'.op \in {"malloc", "memalign"} /\ call'.init = FALSE /\ call'.cached = FALSE
      /\ call'.nb = 0 /\ call'.old = NIL
      /\ call'.align = (IF call'.op = "memalign" THEN d ELSE MALLOC_ALIGNMENT)
  <2>1. CASE call' = [NoCall EXCEPT !.pc = "start", !.op = "malloc", !.req = c.bytes]
    BY ONLY <2>1, NoCallFields DEF CallFields
  <2>2. CASE call' = [[NoCall EXCEPT !.pc = "start", !.op = "malloc", !.req = c.bytes]
                        EXCEPT !.op = "memalign", !.align = d]
    <3> DEFINE b == [NoCall EXCEPT !.pc = "start", !.op = "malloc", !.req = c.bytes]
    <3>1. /\ DOMAIN b = CallFields /\ b.pc = "start" /\ b.req = c.bytes
          /\ b.init = FALSE /\ b.cached = FALSE /\ b.nb = 0 /\ b.old = NIL
      BY ONLY NoCallFields DEF CallFields
    <3>2. call' = [b EXCEPT !.op = "memalign", !.align = d]
      BY ONLY <2>2
    <3> HIDE DEF b
    <3> QED BY ONLY <3>1, <3>2 DEF CallFields
  <2> QED BY ONLY <1>6, <2>1, <2>2, Zenon
<1>8. heap' = heap /\ live' = live
  BY ONLY <1>1
<1>9. Begins(call', live, live')
  BY ONLY <1>3, <1>4, <1>5, <1>7, <1>8 DEF Begins
<1>10. State(heap, call', live', u)
  BY ONLY State(heap, call, live, u), <1>2, <1>9, Started2
<1> QED BY ONLY <1>2, <1>8, <1>10

\* realloc,
LEMMA CallReallocStep ==
  ASSUME NEW u, State(heap, call, live, u), program \in Seq(SUBSET Requests), CallRealloc
  PROVE  (\E v : State(heap', call', live', v)) /\ program' \in Seq(SUBSET Requests)
<1>1. PICK c \in CallsNext :
        /\ Calls("realloc", c)
        /\ \E p \in Block(c.nth) :
             call' = [NoCall EXCEPT !.pc = "start", !.op = "realloc", !.req = c.bytes, !.old = p]
        /\ heap' = heap /\ live' = live
  BY ONLY CallRealloc, Zenon DEF CallRealloc
<1>2. PICK p \in Block(c.nth) :
        call' = [NoCall EXCEPT !.pc = "start", !.op = "realloc", !.req = c.bytes, !.old = p]
  BY ONLY <1>1, Zenon
<1>3. c \in Requests /\ c.op = "realloc" /\ call.pc = "idle" /\ program' \in Seq(SUBSET Requests)
  BY ONLY <1>1, program \in Seq(SUBSET Requests), NextCall
<1>4. c.bytes \in Nat
  BY ONLY <1>3, Arguments
<1>5. p \in DOMAIN live
  BY ONLY p \in Block(c.nth) DEF Block
<1>6. /\ DOMAIN call' = CallFields /\ call'.pc = "start" /\ call'.op = "realloc" /\ call'.req = c.bytes
      /\ call'.align = MALLOC_ALIGNMENT /\ call'.init = FALSE /\ call'.cached = FALSE
      /\ call'.nb = 0 /\ call'.old = p
  BY ONLY <1>2, NoCallFields DEF CallFields
<1>7. MALLOC_ALIGNMENT \in Nat /\ MALLOC_ALIGNMENT > 0 /\ aligned_OK(MALLOC_ALIGNMENT)
  BY Units
<1>8. Begins(call', live, live')
  BY ONLY <1>1, <1>4, <1>5, <1>6, <1>7 DEF Begins
<1>9. State(heap, call', live', u)
  BY ONLY State(heap, call, live, u), <1>3, <1>8, Started2
<1> QED BY ONLY <1>1, <1>3, <1>9

\* and free.
LEMMA CallFreeStep ==
  ASSUME NEW u, State(heap, call, live, u), program \in Seq(SUBSET Requests), CallFree
  PROVE  (\E v : State(heap', call', live', v)) /\ program' \in Seq(SUBSET Requests)
<1>1. PICK c \in CallsNext :
        /\ Calls("free", c)
        /\ \E p \in Block(c.nth) :
             /\ call' = [NoCall EXCEPT !.pc = "start", !.op = "free", !.old = p]
             /\ live' = Restrict(live, DOMAIN live \ {p})
        /\ heap' = heap
  BY ONLY CallFree, Zenon DEF CallFree
<1>2. PICK p \in Block(c.nth) :
        /\ call' = [NoCall EXCEPT !.pc = "start", !.op = "free", !.old = p]
        /\ live' = Restrict(live, DOMAIN live \ {p})
  BY ONLY <1>1, Zenon
<1>3. c \in Requests /\ call.pc = "idle" /\ program' \in Seq(SUBSET Requests)
  BY ONLY <1>1, program \in Seq(SUBSET Requests), NextCall
<1>4. p \in DOMAIN live
  BY ONLY p \in Block(c.nth) DEF Block
<1>5. /\ DOMAIN call' = CallFields /\ call'.pc = "start" /\ call'.op = "free" /\ call'.req = 0
      /\ call'.align = MALLOC_ALIGNMENT /\ call'.init = FALSE /\ call'.cached = FALSE
      /\ call'.nb = 0 /\ call'.old = p
  BY ONLY <1>2, NoCallFields DEF CallFields
<1>6. MALLOC_ALIGNMENT \in Nat /\ MALLOC_ALIGNMENT > 0 /\ aligned_OK(MALLOC_ALIGNMENT)
  BY Units
<1>7. Begins(call', live, live')
  BY ONLY <1>2, <1>4, <1>5, <1>6 DEF Begins
<1>8. State(heap, call', live', u)
  BY ONLY State(heap, call, live, u), <1>3, <1>7, Started2
<1> QED BY ONLY <1>1, <1>3, <1>8

\* Between calls the heap may change, but not who has what.
LEMMA QuietStep ==
  ASSUME NEW u, State(heap, call, live, u), call.pc = "idle",
         NEW h2, HeapOK(h2, u, {}, heap.tcache), heap' = h2, call' = call, live' = live
  PROVE  \E v : State(heap', call', live', v)
<1>1. h2.tcache = heap.tcache
  BY ONLY HeapOK(h2, u, {}, heap.tcache) DEF HeapOK
<1>2. HeapOK(h2, u, {}, h2.tcache)
  BY ONLY <1>1, HeapOK(h2, u, {}, heap.tcache)
<1>3. State(h2, call, live, u)
  BY ONLY State(heap, call, live, u), call.pc = "idle", <1>1, <1>2, Idles
<1> QED BY ONLY <1>3, heap' = h2, call' = call, live' = live

\* malloc_trim, as an equation.
LEMMA MallocTrimIs ==
  ASSUME MallocTrim
  PROVE  /\ \E c \in CallsNext : Calls("malloc_trim", c)
         /\ \E x : heap' = systrim(Require(malloc_consolidate(heap), x), 0)
         /\ call' = call /\ live' = live
<1>1. /\ \E c \in CallsNext : Calls("malloc_trim", c)
      /\ call' = call /\ live' = live
  BY ONLY MallocTrim, Zenon DEF MallocTrim
<1> DEFINE h1 == malloc_consolidate(heap)
           free == UNION {Range(h1.bins[i]) : i \in
                          {j \in DOMAIN h1.bins : j = UNSORTED \/ j >= bin_index(Pagesize)}}
           fit == \A p \in free : LET sz == chunksize(h1, p) IN
                    sz > Pagesize - 1 + 6 * SIZE_SZ => p + sz > ALIGN_UP(p + 6 * SIZE_SZ, Pagesize)
<1>2. heap' = systrim(Require(h1, fit), 0)
  BY ONLY MallocTrim, Zenon DEF MallocTrim
<1> HIDE DEF fit
<1> QED BY ONLY <1>1, <1>2

\* malloc_trim gives pages of top back,
LEMMA MallocTrimStep ==
  ASSUME NEW u, State(heap, call, live, u), program \in Seq(SUBSET Requests), MallocTrim
  PROVE  (\E v : State(heap', call', live', v)) /\ program' \in Seq(SUBSET Requests)
<1>0. /\ \E c \in CallsNext : Calls("malloc_trim", c)
      /\ \E x : heap' = systrim(Require(malloc_consolidate(heap), x), 0)
      /\ call' = call /\ live' = live
  BY ONLY MallocTrim, MallocTrimIs
<1>1. PICK c \in CallsNext : Calls("malloc_trim", c)
  BY ONLY <1>0
<1>2. PICK x : heap' = systrim(Require(malloc_consolidate(heap), x), 0)
  BY ONLY <1>0
<1>3. call.pc = "idle" /\ program' \in Seq(SUBSET Requests)
  BY ONLY <1>1, program \in Seq(SUBSET Requests), NextCall
<1> DEFINE h1 == malloc_consolidate(heap)
           h2 == Require(h1, x)
           h3 == systrim(h2, 0)
<1>a. /\ h1 = malloc_consolidate(heap) /\ h2 = Require(h1, x) /\ h3 = systrim(h2, 0) /\ heap' = h3
  BY ONLY <1>2
<1> HIDE DEF h1, h2, h3
<1>4. HeapOK(heap, u, {}, heap.tcache)
  BY ONLY State(heap, call, live, u), StateFacts
<1>5. HeapOK(h1, u, {}, heap.tcache)
  BY ONLY <1>4, <1>a, Consolidated
<1>6. HeapOK(h2, u, {}, heap.tcache)
  BY ONLY <1>5, <1>a, Required
<1>7. HeapOK(h3, u, {}, heap.tcache)
  <2>1. 0 \in Nat
    OBVIOUS
  <2> QED BY ONLY <1>6, <1>a, <2>1, Systrimmed
<1>8. \E v : State(heap', call', live', v)
  BY ONLY State(heap, call, live, u), <1>0, <1>3, <1>7, <1>a, QuietStep
<1> QED BY ONLY <1>3, <1>8

\* An option is set.
LEMMA OptionSet ==
  ASSUME NEW h, NEW u, NEW t, HeapOK(h, u, {}, t), NEW param, NEW value \in Nat,
         NEW h2, h2 = set_option(h, param, value),
         param \in {"M_MXFAST", "M_TRIM_THRESHOLD", "M_TOP_PAD", "M_MMAP_THRESHOLD", "M_MMAP_MAX"}
  PROVE  HeapOK(h2, u, {}, t)
<1> DEFINE v == max_fast_of(value)
<1>1. /\ Rec(h) /\ h.top_pad \in Nat /\ h.brk \in h.brk .. HeapEnd /\ h.tcache = t
  BY ONLY HeapOK(h, u, {}, t), BreakBounds
<1>2. \/ h2 = [h EXCEPT !.max_fast = v] \/ h2 = h
      \/ h2 = [h EXCEPT !.trim_threshold = value, !.no_dyn_threshold = TRUE]
      \/ h2 = [h EXCEPT !.top_pad = value, !.no_dyn_threshold = TRUE]
      \/ h2 = [h EXCEPT !.mmap_threshold = value, !.no_dyn_threshold = TRUE]
      \/ h2 = [h EXCEPT !.n_mmaps_max = value, !.no_dyn_threshold = TRUE]
  <2>1. CASE param = "M_MXFAST"
    BY <2>1 DEF set_option
  <2>2. CASE param = "M_TRIM_THRESHOLD"
    BY <2>2 DEF set_option
  <2>3. CASE param = "M_TOP_PAD"
    BY <2>3 DEF set_option
  <2>4. CASE param = "M_MMAP_THRESHOLD"
    BY <2>4 DEF set_option
  <2>5. CASE param = "M_MMAP_MAX"
    BY <2>5 DEF set_option
  <2> QED BY <2>1, <2>2, <2>3, <2>4, <2>5
<1> HIDE DEF v
<1>3. Same(h, h2, Loose \cup {"tcache", "top_pad", "brk"}) /\ h2.top_pad \in Nat /\ h2.brk = h.brk
      /\ h2.tcache = t
  <2>1. CASE h2 = [h EXCEPT !.max_fast = v] \/ h2 = h
    BY ONLY <1>1, <2>1 DEF Rec, Same, Fields, Loose
  <2>2. CASE h2 = [h EXCEPT !.trim_threshold = value, !.no_dyn_threshold = TRUE]
    BY ONLY <1>1, <2>2 DEF Rec, Same, Fields, Loose
  <2>3. CASE h2 = [h EXCEPT !.top_pad = value, !.no_dyn_threshold = TRUE]
    BY ONLY <1>1, <2>3, value \in Nat DEF Rec, Same, Fields, Loose
  <2>4. CASE h2 = [h EXCEPT !.mmap_threshold = value, !.no_dyn_threshold = TRUE]
    BY ONLY <1>1, <2>4 DEF Rec, Same, Fields, Loose
  <2>5. CASE h2 = [h EXCEPT !.n_mmaps_max = value, !.no_dyn_threshold = TRUE]
    BY ONLY <1>1, <2>5 DEF Rec, Same, Fields, Loose
  <2> QED BY ONLY <1>2, <2>1, <2>2, <2>3, <2>4, <2>5
<1>4. h2.brk \in h.brk .. HeapEnd
  BY ONLY <1>1, <1>3
<1>5. HeapOK(h2, u, {}, h2.tcache)
  BY ONLY HeapOK(h, u, {}, t), <1>3, <1>4, Adjusts
<1> QED BY ONLY <1>3, <1>5

\* and mallopt sets a tunable.
LEMMA MalloptStep ==
  ASSUME NEW u, State(heap, call, live, u), program \in Seq(SUBSET Requests), Mallopt
  PROVE  (\E v : State(heap', call', live', v)) /\ program' \in Seq(SUBSET Requests)
<1>1. PICK c \in CallsNext :
        /\ Calls("mallopt", c)
        /\ heap' = set_option(malloc_consolidate(heap), c.param, c.value)
        /\ call' = call /\ live' = live
  BY ONLY Mallopt, Zenon DEF Mallopt
<1>2. c \in Requests /\ c.op = "mallopt" /\ call.pc = "idle" /\ program' \in Seq(SUBSET Requests)
  BY ONLY <1>1, program \in Seq(SUBSET Requests), NextCall
<1>3. /\ c.value \in Nat
      /\ c.param \in {"M_MXFAST", "M_TRIM_THRESHOLD", "M_TOP_PAD", "M_MMAP_THRESHOLD", "M_MMAP_MAX"}
  BY ONLY <1>2, MalloptArguments
<1> DEFINE h1 == malloc_consolidate(heap)
           h2 == set_option(h1, c.param, c.value)
<1>a. h1 = malloc_consolidate(heap) /\ h2 = set_option(h1, c.param, c.value) /\ heap' = h2
      /\ call' = call /\ live' = live
  BY ONLY <1>1
<1> HIDE DEF h1, h2
<1>4. HeapOK(heap, u, {}, heap.tcache)
  BY ONLY State(heap, call, live, u), StateFacts
<1>5. HeapOK(h1, u, {}, heap.tcache)
  BY ONLY <1>4, <1>a, Consolidated
<1>6. HeapOK(h2, u, {}, heap.tcache)
  BY ONLY <1>3, <1>5, <1>a, OptionSet
<1>7. \E v : State(heap', call', live', v)
  BY ONLY State(heap, call, live, u), <1>2, <1>6, <1>a, QuietStep
<1> QED BY ONLY <1>2, <1>7

\* The thread exits: its cache is gone.
LEMMA ThreadShutdownStep ==
  ASSUME NEW u, State(heap, call, live, u), program \in Seq(SUBSET Requests), ThreadShutdown
  PROVE  (\E v : State(heap', call', live', v)) /\ program' \in Seq(SUBSET Requests)
<1> DEFINE t == heap.tcache
<1>0. /\ \E c \in CallsNext : Calls("thread_exit", c)
      /\ heap.tcache \notin {NONE, SHUT} /\ heap' = tcache_thread_shutdown(heap)
      /\ call' = call /\ live' = live
  BY ONLY ThreadShutdown, Zenon DEF ThreadShutdown
<1>1. PICK c \in CallsNext : Calls("thread_exit", c)
  BY ONLY <1>0
<1>2. call.pc = "idle" /\ program' \in Seq(SUBSET Requests)
  BY ONLY <1>1, program \in Seq(SUBSET Requests), NextCall
<1>3. HeapOK(heap, u, {}, t) /\ DOMAIN u = HeldBy(call, live, t)
  BY ONLY State(heap, call, live, u), StateFacts
<1>4. t \in DOMAIN u
  BY ONLY <1>0, <1>3 DEF HeldBy
<1> DEFINE h2 == tcache_thread_shutdown(heap)
           u2 == Without(u, heap.tcache)
<1>a. h2 = tcache_thread_shutdown(heap) /\ u2 = Without(u, heap.tcache) /\ heap' = h2
  BY ONLY <1>0
<1> HIDE DEF h2, u2
<1>5. HeapOK(h2, u2, {}, SHUT)
  <2>1. HeapOK(heap, u, {}, t) /\ heap.tcache \in DOMAIN u
    BY ONLY <1>3, <1>4
  <2> HIDE DEF t
  <2> QED BY ONLY <2>1, <1>a, ShutDown
<1>6. h2.tcache = SHUT
  BY ONLY <1>5 DEF HeapOK
<1>7. HeapOK(h2, u2, {}, h2.tcache)
  BY ONLY <1>5, <1>6
<1>8. State(h2, call, live, u2)
  BY ONLY State(heap, call, live, u), <1>2, <1>4, <1>6, <1>7, <1>a, Idles
<1> QED BY ONLY <1>0, <1>2, <1>8, <1>a

\* Somebody else moves the break.
LEMMA ForeignSbrkStep ==
  ASSUME NEW u, State(heap, call, live, u), program \in Seq(SUBSET Requests), ForeignSbrk
  PROVE  (\E v : State(heap', call', live', v)) /\ program' \in Seq(SUBSET Requests)
<1> DEFINE t == heap.tcache
<1>1. PICK c \in CallsNext :
        /\ Calls("sbrk", c)
        /\ heap.brk + c.increment <= HeapEnd
        /\ heap' = [heap EXCEPT !.brk = @ + c.increment]
        /\ call' = call /\ live' = live
  BY ONLY ForeignSbrk, Zenon DEF ForeignSbrk
<1>2. c \in Requests /\ c.op = "sbrk" /\ call.pc = "idle" /\ program' \in Seq(SUBSET Requests)
  BY ONLY <1>1, program \in Seq(SUBSET Requests), NextCall
<1>3. c.increment \in Nat
  BY ONLY <1>2, Arguments
<1>4. HeapOK(heap, u, {}, t)
  BY ONLY State(heap, call, live, u), StateFacts
<1>5. /\ Rec(heap) /\ heap.top_pad \in Nat /\ heap.brk \in Nat /\ HeapEnd \in Nat
  BY ONLY <1>4, BreakBounds
<1> DEFINE h2 == [heap EXCEPT !.brk = @ + c.increment]
<1>a. h2 = [heap EXCEPT !.brk = @ + c.increment] /\ heap' = h2 /\ call' = call /\ live' = live
  BY ONLY <1>1
<1> HIDE DEF h2
<1>6. /\ Same(heap, h2, Loose \cup {"tcache", "top_pad", "brk"}) /\ h2.top_pad = heap.top_pad
      /\ h2.brk = heap.brk + c.increment /\ h2.tcache = t
  BY ONLY <1>5, <1>a DEF Rec, Same, Fields, Loose
<1>7. h2.brk \in heap.brk .. HeapEnd /\ h2.top_pad \in Nat
  BY ONLY <1>1, <1>3, <1>5, <1>6
<1>8. HeapOK(h2, u, {}, h2.tcache)
  BY ONLY <1>4, <1>6, <1>7, Adjusts
<1>9. HeapOK(h2, u, {}, heap.tcache)
  BY ONLY <1>6, <1>8
<1>10. \E v : State(heap', call', live', v)
  BY ONLY State(heap, call, live, u), <1>2, <1>9, <1>a, QuietStep
<1> QED BY ONLY <1>2, <1>10

-----------------------------------------------------------------------------
(* The theorems: the invariant holds at first, every step keeps it, and it *)
(* implies what the runs check.                                            *)

\* Only the calls of the environment take from the program.
LEMMA ProgramStays ==
  ASSUME IntMallocStep \/ CallStep
  PROVE  program' = program
<1>1. CASE IntMallocStep
  <2>1. TakeFast => program' = program BY Zenon DEF TakeFast
  <2>2. TakeSmall => program' = program BY Zenon DEF TakeSmall
  <2>3. EnterUnsorted => program' = program BY Zenon DEF EnterUnsorted
  <2>4. SplitLastRemainder => program' = program BY Zenon DEF SplitLastRemainder
  <2>5. TakeExact => program' = program BY Zenon DEF TakeExact
  <2>6. BinVictim => program' = program BY Zenon DEF BinVictim
  <2>7. UnsortedDone => program' = program BY Zenon DEF UnsortedDone
  <2>8. TakeLarge => program' = program BY Zenon DEF TakeLarge
  <2>9. TakeBinned => program' = program BY Zenon DEF TakeBinned
  <2>10. ScanDone => program' = program BY Zenon DEF ScanDone
  <2>11. UseTop => program' = program BY Zenon DEF UseTop
  <2>12. ConsolidateAndRetry => program' = program BY Zenon DEF ConsolidateAndRetry
  <2>13. AskSystem => program' = program BY Zenon DEF AskSystem
  <2>14. SysMmap => program' = program BY Zenon DEF SysMmap
  <2>15. SysExtend => program' = program BY Zenon DEF SysExtend
  <2>16. SysRestart => program' = program BY Zenon DEF SysRestart
  <2>17. SysNoncontiguous => program' = program BY Zenon DEF SysNoncontiguous
  <2>18. SysFallback => program' = program BY Zenon DEF SysFallback
  <2>19. SysFail => program' = program BY Zenon DEF SysFail
  <2>20. SysFinish => program' = program BY Zenon DEF SysFinish
  <2> QED BY ONLY <1>1, <2>1, <2>2, <2>3, <2>4, <2>5, <2>6, <2>7, <2>8, <2>9, <2>10, <2>11, <2>12,
                  <2>13, <2>14, <2>15, <2>16, <2>17, <2>18, <2>19, <2>20, Zenon DEF IntMallocStep
<1>2. CASE CallStep
  <2>1. TcacheInit => program' = program BY Zenon DEF TcacheInit
  <2>2. TcacheReady => program' = program BY Zenon DEF TcacheReady
  <2>3. MallocCached => program' = program BY Zenon DEF MallocCached
  <2>4. Malloc => program' = program BY Zenon DEF Malloc
  <2>5. Malloced => program' = program BY Zenon DEF Malloced
  <2>6. Calloc => program' = program BY Zenon DEF Calloc
  <2>7. Calloced => program' = program BY Zenon DEF Calloced
  <2>8. Memalign => program' = program BY Zenon DEF Memalign
  <2>9. Memaligned => program' = program BY Zenon DEF Memaligned
  <2>10. ReallocTooBig => program' = program BY Zenon DEF ReallocTooBig
  <2>11. ReallocMapped => program' = program BY Zenon DEF ReallocMapped
  <2>12. ReallocInPlace => program' = program BY Zenon DEF ReallocInPlace
  <2>13. ReallocIntoTop => program' = program BY Zenon DEF ReallocIntoTop
  <2>14. ReallocIntoNext => program' = program BY Zenon DEF ReallocIntoNext
  <2>15. ReallocElsewhere => program' = program BY Zenon DEF ReallocElsewhere
  <2>16. Realloced => program' = program BY Zenon DEF Realloced
  <2>17. Recopied => program' = program BY Zenon DEF Recopied
  <2>18. Free => program' = program BY Zenon DEF Free
  <2>19. Return => program' = program BY Zenon DEF Return
  <2> QED BY ONLY <1>2, <2>1, <2>2, <2>3, <2>4, <2>5, <2>6, <2>7, <2>8, <2>9, <2>10, <2>11, <2>12,
                  <2>13, <2>14, <2>15, <2>16, <2>17, <2>18, <2>19, Zenon DEF CallStep
<1> QED BY ONLY <1>1, <1>2, IntMallocStep \/ CallStep

\* A call that is under way keeps the invariant.
LEMMA CallSteps ==
  ASSUME NEW u, State(heap, call, live, u), CallStep
  PROVE  \E v : State(heap', call', live', v)
<1> DEFINE Kept == \E v : State(heap', call', live', v)
<1>a. Kept <=> \E v : State(heap', call', live', v) OBVIOUS
<1>s. State(heap, call, live, u) OBVIOUS
<1> HIDE DEF Kept
<1>1. TcacheInit => Kept BY ONLY <1>s, <1>a, TcacheInitStep
<1>2. TcacheReady => Kept BY ONLY <1>s, <1>a, TcacheReadyStep
<1>3. MallocCached => Kept BY ONLY <1>s, <1>a, MallocCachedStep
<1>4. Malloc => Kept BY ONLY <1>s, <1>a, MallocStep
<1>5. Malloced => Kept BY ONLY <1>s, <1>a, MallocedStep
<1>6. Calloc => Kept BY ONLY <1>s, <1>a, CallocStep
<1>7. Calloced => Kept BY ONLY <1>s, <1>a, CallocedStep
<1>8. Memalign => Kept BY ONLY <1>s, <1>a, MemalignStep
<1>9. Memaligned => Kept BY ONLY <1>s, <1>a, MemalignedStep
<1>10. ReallocTooBig => Kept BY ONLY <1>s, <1>a, ReallocTooBigStep
<1>11. ReallocMapped => Kept BY ONLY <1>s, <1>a, ReallocMappedStep
<1>12. ReallocInPlace => Kept BY ONLY <1>s, <1>a, ReallocInPlaceStep
<1>13. ReallocIntoTop => Kept BY ONLY <1>s, <1>a, ReallocIntoTopStep
<1>14. ReallocIntoNext => Kept BY ONLY <1>s, <1>a, ReallocIntoNextStep
<1>15. ReallocElsewhere => Kept BY ONLY <1>s, <1>a, ReallocElsewhereStep
<1>16. Realloced => Kept BY ONLY <1>s, <1>a, ReallocedStep
<1>17. Recopied => Kept BY ONLY <1>s, <1>a, RecopiedStep
<1>18. Free => Kept BY ONLY <1>s, <1>a, FreeStep
<1>19. Return => Kept BY ONLY <1>s, <1>a, ReturnStep
<1>20. Kept
  BY ONLY <1>1, <1>2, <1>3, <1>4, <1>5, <1>6, <1>7, <1>8, <1>9, <1>10, <1>11, <1>12, <1>13, <1>14,
          <1>15, <1>16, <1>17, <1>18, <1>19, CallStep, Zenon DEF CallStep
<1> QED BY ONLY <1>20, <1>a

\* What the environment does between calls keeps it.
LEMMA EnvironmentStep ==
  ASSUME NEW u, State(heap, call, live, u), program \in Seq(SUBSET Requests), Environment
  PROVE  (\E v : State(heap', call', live', v)) /\ program' \in Seq(SUBSET Requests)
<1> DEFINE Kept == (\E v : State(heap', call', live', v)) /\ program' \in Seq(SUBSET Requests)
<1>a. Kept = ((\E v : State(heap', call', live', v)) /\ program' \in Seq(SUBSET Requests)) OBVIOUS
<1>s. State(heap, call, live, u) /\ program \in Seq(SUBSET Requests) OBVIOUS
<1> HIDE DEF Kept
<1>1. CallMalloc => Kept BY ONLY <1>s, <1>a, CallMallocStep
<1>2. CallMemalign => Kept BY ONLY <1>s, <1>a, CallMemalignStep
<1>3. CallRealloc => Kept BY ONLY <1>s, <1>a, CallReallocStep
<1>4. CallFree => Kept BY ONLY <1>s, <1>a, CallFreeStep
<1>5. MallocTrim => Kept BY ONLY <1>s, <1>a, MallocTrimStep
<1>6. Mallopt => Kept BY ONLY <1>s, <1>a, MalloptStep
<1>7. ThreadShutdown => Kept BY ONLY <1>s, <1>a, ThreadShutdownStep
<1>8. ForeignSbrk => Kept BY ONLY <1>s, <1>a, ForeignSbrkStep
<1>9. Kept
  BY ONLY <1>1, <1>2, <1>3, <1>4, <1>5, <1>6, <1>7, <1>8, Environment, Zenon DEF Environment
<1> QED BY ONLY <1>9, <1>a

\* Every step keeps the invariant.
LEMMA StepKeepsIInv ==
  ASSUME IInv, [Next]_vars
  PROVE  IInv'
<1>1. PICK u : State(heap, call, live, u)
  BY ONLY IInv, Zenon DEF IInv
<1>2. program \in Seq(SUBSET Requests)
  BY ONLY IInv, Zenon DEF IInv
<1>3. CASE IntMallocStep
  <2>1. \E v : State(heap', call', live', v)
    BY ONLY <1>1, <1>3, IntMallocSteps
  <2>2. program' = program
    BY ONLY <1>3, ProgramStays
  <2> QED BY ONLY <1>2, <2>1, <2>2, Zenon DEF IInv
<1>4. CASE CallStep
  <2>1. \E v : State(heap', call', live', v)
    BY ONLY <1>1, <1>4, CallSteps
  <2>2. program' = program
    BY ONLY <1>4, ProgramStays
  <2> QED BY ONLY <1>2, <2>1, <2>2, Zenon DEF IInv
<1>5. CASE Environment
  <2>1. (\E v : State(heap', call', live', v)) /\ program' \in Seq(SUBSET Requests)
    BY ONLY <1>1, <1>2, <1>5, EnvironmentStep
  <2> QED BY ONLY <2>1, Zenon DEF IInv
<1>6. CASE UNCHANGED vars
  <2>1. heap' = heap /\ call' = call /\ live' = live /\ program' = program
    BY ONLY <1>6 DEF vars
  <2> QED BY ONLY <1>1, <1>2, <2>1, Zenon DEF IInv
<1>7. IntMallocStep \/ CallStep \/ Environment \/ UNCHANGED vars
  BY ONLY [Next]_vars, Zenon DEF Next, Stop
<1> QED BY ONLY <1>3, <1>4, <1>5, <1>6, <1>7

\* Before the first call there is no chunk but the empty top.
LEMMA NoChunkYet ==
  ASSUME NEW hdr, hdr = With(<< >>, NIL, Header(0, 0, FALSE)), NEW W, NEW lo
  PROVE  /\ DOMAIN hdr = {NIL} /\ hdr[NIL] = Hd(0, TRUE, 0, FALSE) /\ hdr[NIL].size = 0
         /\ Chunks(hdr, NIL) = {}
         /\ Shape(hdr, NIL, W, TRUE, lo) \/ lo # 0
         /\ Tagged(hdr, NIL, {})
         /\ ~hdr[NIL].mmapped
<1>1. DOMAIN hdr = {NIL} /\ hdr[NIL] = Header(0, 0, FALSE)
  <2>1. DOMAIN << >> = {} OBVIOUS
  <2> QED BY ONLY <2>1, hdr = With(<< >>, NIL, Header(0, 0, FALSE)) DEF With
<1>2. hdr[NIL] = Hd(0, TRUE, 0, FALSE)
  BY ONLY <1>1 DEF Header, Hd
<1>3. /\ hdr[NIL] \in AnyHeader /\ hdr[NIL].size = 0 /\ hdr[NIL].prev_inuse
      /\ hdr[NIL].prev_size = 0 /\ ~hdr[NIL].mmapped
  <2>1. Hd(0, TRUE, 0, FALSE) \in AnyHeader BY ONLY DEF Hd, AnyHeader
  <2> QED BY ONLY <1>2, <2>1 DEF Hd
<1>4. NIL = 0 BY ONLY DEF NIL
<1>5. Chunks(hdr, NIL) = {}
  BY ONLY <1>1 DEF Chunks
<1>6. aligned_OK(NIL)
  BY ONLY <1>4, SizesAssumption DEF aligned_OK
<1>7. Typed(hdr, NIL)
  <2>1. \A p \in DOMAIN hdr : p = NIL BY ONLY <1>1
  <2>2. 0 \in Nat /\ 0 <= 0 OBVIOUS
  <2>3. NIL \in DOMAIN hdr BY ONLY <1>1
  <2>4. NIL \in Nat /\ hdr[NIL].prev_size <= NIL BY ONLY <1>3, <1>4, <2>2
  <2> QED BY ONLY <2>1, <2>3, <2>4, <1>3, <1>6 DEF Typed
<1>8. Apart(hdr)
  BY ONLY <1>1, <1>4 DEF Apart
<1>9. Joined(hdr, NIL)
  BY ONLY <1>5 DEF Joined
<1>10. Inside(hdr, NIL, W, TRUE, lo) \/ lo # 0
  <2>1. Start(hdr, NIL) = 0 /\ End(hdr, NIL) = 0
    BY ONLY <1>3, <1>4 DEF Start, End
  <2>2. \A p \in DOMAIN hdr : p = NIL BY ONLY <1>1
  <2>3. \A x \in Nat : ~(0 <= x /\ x < 0) OBVIOUS
  <2>4. lo = 0 => lo <= NIL /\ NIL <= NIL BY ONLY <1>4
  <2> QED BY ONLY <2>1, <2>2, <2>3, <2>4 DEF Inside
<1>11. Tagged(hdr, NIL, {})
  BY ONLY <1>1, <1>3, <1>5 DEF Tagged
<1> QED BY ONLY <1>1, <1>2, <1>3, <1>5, <1>7, <1>8, <1>9, <1>10, <1>11 DEF Shape

\* The invariant holds at first.
LEMMA InitIInv ==
  ASSUME Init
  PROVE  IInv
<1>1. /\ heap = [hdr |-> With(<< >>, NIL, Header(0, 0, FALSE)), fast |-> << >>, bins |-> << >>,
             heads |-> {}, binmap |-> {}, top |-> NIL, last_remainder |-> NIL,
             have_fastchunks |-> FALSE, contiguous |-> TRUE,
             system_mem |-> 0, max_system_mem |-> 0,
             tcache |-> NONE, entries |-> << >>,
             max_fast |-> max_fast_of(DEFAULT_MXFAST), top_pad |-> DEFAULT_TOP_PAD,
             trim_threshold |-> DEFAULT_TRIM_THRESHOLD,
             mmap_threshold |-> DEFAULT_MMAP_THRESHOLD,
             n_mmaps |-> 0, n_mmaps_max |-> DEFAULT_MMAP_MAX, no_dyn_threshold |-> FALSE,
             sbrk_base |-> 0, brk |-> BrkStart, mapped |-> {}, touched |-> BrkStart,
             abort |-> FALSE]
      /\ call = NoCall /\ live = << >> /\ program \in Programs
  BY ONLY Init, Zenon DEF Init
<1>2. /\ Rec(heap)
      /\ heap.hdr = With(<< >>, NIL, Header(0, 0, FALSE)) /\ heap.fast = << >>
      /\ heap.bins = << >> /\ heap.heads = {} /\ heap.binmap = {} /\ heap.top = NIL
      /\ heap.contiguous = TRUE /\ heap.system_mem = 0 /\ heap.tcache = NONE
      /\ heap.entries = << >> /\ heap.top_pad = DEFAULT_TOP_PAD /\ heap.sbrk_base = 0
      /\ heap.brk = BrkStart /\ heap.mapped = {}
  BY ONLY <1>1 DEF Rec, Fields
<1>3. program \in Seq(SUBSET Requests)
  BY ONLY <1>1, ProgramsAssumption
<1> DEFINE u == [q \in {} |-> Plain(0)]
<1>4. DOMAIN u = {} OBVIOUS
<1> HIDE DEF u
<1>5. DOMAIN << >> = {} OBVIOUS
<1>6. /\ DOMAIN heap.hdr = {NIL} /\ heap.hdr[NIL].size = 0 /\ ~heap.hdr[NIL].mmapped
      /\ Chunks(heap.hdr, NIL) = {} /\ Tagged(heap.hdr, NIL, {})
      /\ Shape(heap.hdr, NIL, Space(heap.brk, heap.mapped), TRUE, 0)
  BY ONLY <1>2, NoChunkYet
<1>7. Members(heap.bins) = {} /\ Members(heap.fast) = {} /\ Members(heap.entries) = {}
  BY ONLY <1>2, <1>5 DEF Members
<1>8. Laid(heap, {})
  BY ONLY <1>2, <1>6, <1>7 DEF Laid
<1>9. Lists3(heap)
  BY ONLY <1>2, <1>5 DEF Lists3, Proper
<1>10. Owned(heap.hdr, heap.top, Listed(heap), Members(heap.bins) \cup {}, u)
  BY ONLY <1>2, <1>4, <1>6, <1>7 DEF Owned, Listed
<1>11. Indexed(heap.hdr, heap.fast, heap.entries)
  BY ONLY <1>2, <1>5 DEF Indexed
<1>12. Binned(heap.hdr, heap.bins, heap.heads, heap.binmap)
  BY ONLY <1>2, <1>5 DEF Binned
<1>13. Mapped(heap.hdr)
  BY ONLY <1>6 DEF Mapped
<1>14. Bounds(heap)
  <2>0. /\ heap.contiguous = TRUE /\ heap.system_mem = 0 /\ heap.sbrk_base = 0 /\ heap.top = NIL
        /\ heap.brk = BrkStart /\ heap.top_pad = DEFAULT_TOP_PAD
    BY ONLY <1>2, Zenon
  <2>1. /\ BrkStart \in Nat /\ HeapEnd \in Nat /\ BrkStart <= HeapEnd /\ 0 < BrkStart
        /\ DEFAULT_TOP_PAD \in Nat
    BY ONLY SystemAssumption
  <2>2. End(heap.hdr, heap.top) = 0
    <3>1. End(heap.hdr, NIL) = NIL + 0 BY ONLY <1>6 DEF End
    <3> QED BY ONLY <2>0, <3>1 DEF NIL
  <2>3. heap.brk \in BrkStart .. HeapEnd /\ heap.top_pad \in Nat
    BY ONLY <2>0, <2>1
  <2>4. heap.contiguous \in BOOLEAN /\ heap.system_mem \in Int /\ heap.sbrk_base \in Nat
    <3>1. 0 \in Int /\ 0 \in Nat /\ TRUE \in BOOLEAN OBVIOUS
    <3> QED BY ONLY <2>0, <3>1, Zenon
  <2>5. End(heap.hdr, heap.top) <= heap.brk
    BY ONLY <2>0, <2>1, <2>2
  <2> QED BY ONLY <2>0, <2>3, <2>4, <2>5 DEF Bounds
<1>15. HeapOK(heap, u, {}, heap.tcache)
  BY ONLY <1>2, <1>7, <1>8, <1>9, <1>10, <1>11, <1>12, <1>13, <1>14 DEF HeapOK
<1>16. DOMAIN call = CallFields /\ call.pc = "idle" /\ call.op = "none" /\ call.old = NIL
       /\ call.p = NIL /\ call.init = FALSE /\ call.cached = FALSE /\ CallTyped(call)
  BY ONLY <1>1, NoCallFields, NoCallTyped
<1>17. DOMAIN live = {}
  BY ONLY <1>1, <1>5
<1>18. DOMAIN u = HeldBy(call, live, heap.tcache)
  BY ONLY <1>2, <1>4, <1>16, <1>17 DEF HeldBy, Blocks, NONE
<1>19. Underway(call, heap.tcache, DOMAIN heap.entries, heap.hdr[heap.top].size)
  BY ONLY <1>16 DEF Underway, Asking, Inner
<1>20. OldBlock(call, live, u, heap.tcache) /\ NewChunk(call, live, u, heap.tcache)
       /\ Served(call, live, u, heap.tcache)
  BY ONLY <1>16 DEF OldBlock, NewChunk, Served
<1>21. InUse(call, live, u, heap.tcache)
  BY ONLY <1>16, <1>17 DEF InUse
<1>22. State(heap, call, live, u)
  BY ONLY <1>15, <1>16, <1>18, <1>19, <1>20, <1>21, Zenon DEF State, CallOK
<1> QED BY ONLY <1>3, <1>22, Zenon DEF IInv

\* Free chunks, chunks on lists and chunks in somebody's hands are chunks.
LEMMA AllChunks ==
  ASSUME NEW h, NEW u, NEW t, HeapOK(h, u, {}, t)
  PROVE  /\ Members(h.bins) \subseteq Chunks(h.hdr, h.top)
         /\ Members(h.fast) \subseteq Chunks(h.hdr, h.top)
         /\ Members(h.entries) \subseteq Chunks(h.hdr, h.top)
         /\ Chunks(h.hdr, h.top) \subseteq DOMAIN h.hdr /\ DOMAIN u \subseteq DOMAIN h.hdr
<1>1. Owned(h.hdr, h.top, Listed(h), Members(h.bins) \cup {}, u)
  BY ONLY HeapOK(h, u, {}, t), Zenon DEF HeapOK
<1>2. Members(h.bins) \cup {} \subseteq Chunks(h.hdr, h.top) /\ Listed(h) \subseteq Chunks(h.hdr, h.top)
      /\ DOMAIN u \subseteq DOMAIN h.hdr
  BY ONLY <1>1 DEF Owned
<1>3. Chunks(h.hdr, h.top) \subseteq DOMAIN h.hdr
  BY ONLY DEF Chunks
<1> QED BY ONLY <1>2, <1>3 DEF Listed

\* The invariant implies that everything has its type,
LEMMA IInvTypeOK ==
  ASSUME IInv
  PROVE  TypeOK
<1>1. PICK u : State(heap, call, live, u)
  BY ONLY IInv, Zenon DEF IInv
<1>2. /\ HeapOK(heap, u, {}, heap.tcache) /\ DOMAIN u = HeldBy(call, live, heap.tcache)
      /\ InUse(call, live, u, heap.tcache)
  BY ONLY <1>1, StateFacts
<1>3. DOMAIN heap.hdr \subseteq Addresses /\ \A p \in DOMAIN heap.hdr : heap.hdr[p] \in Headers
  BY ONLY <1>2, Addressed
<1>4. /\ Members(heap.bins) \subseteq DOMAIN heap.hdr /\ Members(heap.fast) \subseteq DOMAIN heap.hdr
      /\ Members(heap.entries) \subseteq DOMAIN heap.hdr /\ DOMAIN u \subseteq DOMAIN heap.hdr
  BY ONLY <1>2, AllChunks
<1>5. Proper(heap.bins) /\ Proper(heap.fast) /\ Proper(heap.entries)
  BY ONLY <1>2 DEF HeapOK, Lists3
<1>6. \A s \in Range(heap.bins) \cup Range(heap.fast) \cup Range(heap.entries) :
        s # << >> /\ Range(s) \subseteq DOMAIN heap.hdr
  <2>1. \A i \in DOMAIN heap.bins : heap.bins[i] # << >> /\ Range(heap.bins[i]) \subseteq DOMAIN heap.hdr
    BY ONLY <1>4, <1>5 DEF Proper, Members
  <2>2. \A i \in DOMAIN heap.fast : heap.fast[i] # << >> /\ Range(heap.fast[i]) \subseteq DOMAIN heap.hdr
    BY ONLY <1>4, <1>5 DEF Proper, Members
  <2>3. \A i \in DOMAIN heap.entries :
          heap.entries[i] # << >> /\ Range(heap.entries[i]) \subseteq DOMAIN heap.hdr
    BY ONLY <1>4, <1>5 DEF Proper, Members
  <2>4. ASSUME NEW f, \A i \in DOMAIN f : f[i] # << >> /\ Range(f[i]) \subseteq DOMAIN heap.hdr,
               NEW s \in Range(f)
        PROVE  s # << >> /\ Range(s) \subseteq DOMAIN heap.hdr
    <3>1. PICK i \in DOMAIN f : s = f[i]
      BY ONLY <2>4 DEF Range
    <3> QED BY ONLY <2>4, <3>1
  <2> QED BY ONLY <2>1, <2>2, <2>3, <2>4
<1>7. heap.heads \subseteq DOMAIN heap.hdr /\ heap.binmap \subseteq 2 .. NBINS - 2
  <2>1. Binned(heap.hdr, heap.bins, heap.heads, heap.binmap)
    BY ONLY <1>2 DEF HeapOK
  <2>2. heap.heads \subseteq Members(heap.bins)
    BY ONLY <2>1 DEF Binned, Members
  <2> QED BY ONLY <2>1, <2>2, <1>4 DEF Binned
<1>8. heap.top \in DOMAIN heap.hdr
  BY ONLY <1>2 DEF HeapOK, Laid, Shape, Typed
<1>9. heap.tcache \in {NONE, SHUT} \cup DOMAIN heap.hdr
  <2>1. heap.tcache \notin {NONE, SHUT} => heap.tcache \in HeldBy(call, live, heap.tcache)
    BY ONLY DEF HeldBy
  <2> QED BY ONLY <2>1, <1>2, <1>4
<1>10. heap.brk \in BrkStart .. HeapEnd
  BY ONLY <1>2, BreakBounds
<1>11. \A i \in DOMAIN heap.entries : Len(heap.entries[i]) <= TcacheCount
  BY ONLY <1>2 DEF HeapOK, Indexed
<1>12. DOMAIN live \subseteq Addresses
  BY ONLY <1>2 DEF InUse
<1> QED BY ONLY <1>3, <1>6, <1>7, <1>8, <1>9, <1>10, <1>11, <1>12 DEF TypeOK

\* that every block has room for what was asked,
LEMMA IInvBlocksServe ==
  ASSUME IInv
  PROVE  BlocksServe
<1>1. PICK u : State(heap, call, live, u)
  BY ONLY IInv, Zenon DEF IInv
<1>2. /\ HeapOK(heap, u, {}, heap.tcache) /\ DOMAIN u = HeldBy(call, live, heap.tcache)
      /\ InUse(call, live, u, heap.tcache) /\ Served(call, live, u, heap.tcache)
  BY ONLY <1>1, StateFacts
<1>3. \A q \in DOMAIN u : q \in DOMAIN heap.hdr /\ Face(heap.hdr[q]) = u[q]
  BY ONLY <1>2 DEF HeapOK, Owned
<1>4. \A q \in DOMAIN u : /\ q \in DOMAIN heap.hdr /\ usable(u[q]) = musable(q)
                          /\ u[q].mmapped = mmapped(q) /\ u[q].size = chunksize(heap, q)
  BY ONLY <1>3 DEF Face, usable, musable, mmapped, chunksize
<1>5. CASE Idle
  <2>1. DOMAIN live \subseteq DOMAIN u /\ call.pc # "return"
    BY ONLY <1>2, <1>5 DEF HeldBy, Blocks, Idle
  <2>2. \A q \in DOMAIN live : usable(u[q]) >= live[q]
    BY ONLY <1>2, <2>1 DEF InUse
  <2> QED BY ONLY <1>4, <1>5, <2>1, <2>2 DEF BlocksServe, Idle
<1>6. CASE call.pc = "return" /\ call.p # NIL
  <2>1. call.p \in DOMAIN u
    BY ONLY <1>2, <1>6 DEF HeldBy, Blocks
  <2>2. /\ usable(u[call.p]) >= call.req
        /\ chunk2mem(call.p) % call.align = 0
        /\ ~u[call.p].mmapped => u[call.p].size <= request2size(call.req) + MINSIZE
        /\ Copies(call) => call.copied \in Min({live[call.old], call.req}) .. usable(u[call.p])
    BY ONLY <1>2, <1>6, Zenon DEF Served
  <2>3. /\ usable(u[call.p]) = musable(call.p) /\ u[call.p].mmapped = mmapped(call.p)
        /\ u[call.p].size = chunksize(heap, call.p)
    BY ONLY <1>4, <2>1
  <2>4. /\ musable(call.p) >= call.req
        /\ ~mmapped(call.p) => chunksize(heap, call.p) <= request2size(call.req) + MINSIZE
        /\ Copies(call) => call.copied \in Min({live[call.old], call.req}) .. musable(call.p)
    BY ONLY <2>2, <2>3, Zenon
  <2>5. (call.op = "recopy" \/ (call.op = "realloc" /\ call.p # old /\ call.nb # 0)) =>
            call.copied \in Min({live[old], call.req}) .. musable(call.p)
    BY ONLY <2>4, Zenon DEF Copies, old
  <2>6. ~Idle
    BY ONLY <1>6 DEF Idle
  <2> QED BY ONLY <2>2, <2>4, <2>5, <2>6, Zenon DEF BlocksServe
<1>7. CASE ~Idle /\ ~(call.pc = "return" /\ call.p # NIL)
  BY ONLY <1>7, Zenon DEF BlocksServe
<1> QED BY ONLY <1>5, <1>6, <1>7

\* A list of chunks is no longer than there are chunks.
LEMMA ListLength ==
  ASSUME NEW s, IsList(s), NEW S, IsFiniteSet(S), Range(s) \subseteq S
  PROVE  /\ Cardinality(S) \in Nat /\ Len(s) \in Nat /\ Len(s) <= Cardinality(S)
         /\ DOMAIN s = 1 .. Len(s) /\ Range(s) = {s[n] : n \in 1 .. Len(s)}
<1>1. s \in Seq(Nat) /\ Injective(s)
  BY ONLY IsList(s) DEF IsList
<1>2. DOMAIN s = 1 .. Len(s) /\ Range(s) = {s[n] : n \in 1 .. Len(s)} /\ Len(s) \in Nat
  BY ONLY <1>1, InRange
<1>3. s \in [1 .. Len(s) -> S]
  <2>1. s = [n \in 1 .. Len(s) |-> s[n]]
    BY ONLY <1>1
  <2>2. \A n \in 1 .. Len(s) : s[n] \in S
    BY ONLY <1>2, Range(s) \subseteq S
  <2> QED BY ONLY <2>1, <2>2
<1>4. s \in Injection(1 .. Len(s), S)
  BY ONLY <1>1, <1>2, <1>3 DEF Injection, IsInjective, Injective
<1>5. Cardinality(1 .. Len(s)) <= Cardinality(S)
  BY ONLY <1>4, IsFiniteSet(S), FS_Injection
<1>6. Cardinality(1 .. Len(s)) = Len(s)
  <2>1. 1 \in Int /\ Len(s) \in Int
    BY ONLY <1>2
  <2>2. Cardinality(1 .. Len(s)) = IF 1 > Len(s) THEN 0 ELSE Len(s) - 1 + 1
    BY ONLY <2>1, FS_Interval
  <2> QED BY ONLY <2>2, <1>2
<1>7. Cardinality(S) \in Nat
  BY ONLY IsFiniteSet(S), FS_CardinalityType
<1> QED BY ONLY <1>2, <1>5, <1>6, <1>7

\* The lists of a kind.
LEMMA ListIs ==
  /\ \A i : List(<<"bin", i>>) = heap.bins[i]
  /\ \A i : List(<<"fast", i>>) = heap.fast[i]
  /\ \A i : List(<<"tcache", i>>) = heap.entries[i]
BY DEF List

\* The chunk p is at one place of one list of f.
Once(f, p) ==
  \E i \in DOMAIN f : \E k \in 1 .. Len(f[i]) :
    /\ f[i][k] = p
    /\ \A j \in DOMAIN f : \A m \in 1 .. Len(f[j]) : f[j][m] = p => j = i /\ m = k

\* A member of lists that share none is on one of them, once,
LEMMA Listed1 ==
  ASSUME NEW f, Proper(f), NEW p \in Members(f)
  PROVE  Once(f, p)
<1>1. PICK i \in DOMAIN f : p \in Range(f[i])
  BY ONLY p \in Members(f) DEF Members
<1>2. \A j \in DOMAIN f : /\ Range(f[j]) = {f[j][n] : n \in 1 .. Len(f[j])}
                          /\ Injective(f[j]) /\ Len(f[j]) \in Nat
  <2>1. ASSUME NEW j \in DOMAIN f
        PROVE  /\ Range(f[j]) = {f[j][n] : n \in 1 .. Len(f[j])}
               /\ Injective(f[j]) /\ Len(f[j]) \in Nat
    <3>1. f[j] \in Seq(Nat) /\ Injective(f[j])
      BY ONLY <2>1, Proper(f) DEF Proper, IsList
    <3> QED BY ONLY <3>1, InRange
  <2> QED BY ONLY <2>1
<1>3. PICK k \in 1 .. Len(f[i]) : f[i][k] = p
  BY ONLY <1>1, <1>2
<1>4. ASSUME NEW j \in DOMAIN f, NEW m \in 1 .. Len(f[j]), f[j][m] = p
      PROVE  j = i /\ m = k
  <2>1. p \in Range(f[j])
    BY ONLY <1>2, <1>4
  <2>2. j = i
    BY ONLY <1>1, <1>4, <2>1, Proper(f) DEF Proper
  <2>3. f[i][m] = f[i][k] /\ m \in 1 .. Len(f[i]) /\ Injective(f[i])
    BY ONLY <1>1, <1>2, <1>3, <1>4, <2>2
  <2> QED BY ONLY <2>2, <2>3, <1>3 DEF Injective
<1> QED BY ONLY <1>1, <1>3, <1>4 DEF Once

\* and what is no member is nowhere on them.
LEMMA NotListed ==
  ASSUME NEW f, Proper(f), NEW p, p \notin Members(f)
  PROVE  \A j \in DOMAIN f : \A m \in 1 .. Len(f[j]) : f[j][m] # p
<1>1. SUFFICES ASSUME NEW j \in DOMAIN f, NEW m \in 1 .. Len(f[j]), f[j][m] = p
               PROVE  FALSE
  OBVIOUS
<1>2. f[j] \in Seq(Nat)
  BY ONLY <1>1, Proper(f) DEF Proper, IsList
<1>3. Range(f[j]) = {f[j][n] : n \in 1 .. Len(f[j])}
  BY ONLY <1>2, InRange
<1>4. p \in Range(f[j])
  BY ONLY <1>1, <1>3
<1> QED BY ONLY <1>1, <1>4, p \notin Members(f) DEF Members

\* The places of p that are on lists.
ListPlaces(p) ==
  {w \in Lists \X (1 .. Cardinality(DOMAIN heap.hdr)) :
     w[2] <= Len(List(w[1])) /\ List(w[1])[w[2]] = p}

\* A place on a list is one of a bin, of a fast bin or of the thread cache.
LEMMA ListPlace ==
  ASSUME NEW p, NEW w \in ListPlaces(p), Cardinality(DOMAIN heap.hdr) \in Nat,
         \A i \in DOMAIN heap.bins : Len(heap.bins[i]) \in Nat,
         \A i \in DOMAIN heap.fast : Len(heap.fast[i]) \in Nat,
         \A i \in DOMAIN heap.entries : Len(heap.entries[i]) \in Nat
  PROVE  \/ \E i \in DOMAIN heap.bins : \E k \in 1 .. Len(heap.bins[i]) :
              w = <<<<"bin", i>>, k>> /\ heap.bins[i][k] = p
         \/ \E i \in DOMAIN heap.fast : \E k \in 1 .. Len(heap.fast[i]) :
              w = <<<<"fast", i>>, k>> /\ heap.fast[i][k] = p
         \/ \E i \in DOMAIN heap.entries : \E k \in 1 .. Len(heap.entries[i]) :
              w = <<<<"tcache", i>>, k>> /\ heap.entries[i][k] = p
<1> DEFINE C == Cardinality(DOMAIN heap.hdr)
<1>1. PICK l \in Lists, k \in 1 .. C : w = <<l, k>> /\ k <= Len(List(l)) /\ List(l)[k] = p
  <2>1. w \in Lists \X (1 .. C) /\ w[2] <= Len(List(w[1])) /\ List(w[1])[w[2]] = p
    BY ONLY w \in ListPlaces(p) DEF ListPlaces
  <2> HIDE DEF C
  <2>2. w = <<w[1], w[2]>> /\ w[1] \in Lists /\ w[2] \in 1 .. C
    BY ONLY <2>1
  <2> QED BY ONLY <2>1, <2>2
<1>a. C \in Nat OBVIOUS
<1> HIDE DEF C
<1>2. k \in Nat /\ k >= 1
  BY ONLY <1>1, <1>a
<1>3. CASE \E i \in DOMAIN heap.bins : l = <<"bin", i>>
  <2>1. PICK i \in DOMAIN heap.bins : l = <<"bin", i>>
    BY ONLY <1>3
  <2>2. k <= Len(heap.bins[i]) /\ heap.bins[i][k] = p
    BY ONLY <1>1, <2>1, ListIs
  <2>3. Len(heap.bins[i]) \in Nat
    BY <2>1
  <2>4. k \in 1 .. Len(heap.bins[i])
    BY ONLY <1>2, <2>2, <2>3
  <2> QED BY ONLY <1>1, <2>1, <2>2, <2>4
<1>4. CASE \E i \in DOMAIN heap.fast : l = <<"fast", i>>
  <2>1. PICK i \in DOMAIN heap.fast : l = <<"fast", i>>
    BY ONLY <1>4
  <2>2. k <= Len(heap.fast[i]) /\ heap.fast[i][k] = p
    BY ONLY <1>1, <2>1, ListIs
  <2>3. Len(heap.fast[i]) \in Nat
    BY <2>1
  <2>4. k \in 1 .. Len(heap.fast[i])
    BY ONLY <1>2, <2>2, <2>3
  <2> QED BY ONLY <1>1, <2>1, <2>2, <2>4
<1>5. CASE \E i \in DOMAIN heap.entries : l = <<"tcache", i>>
  <2>1. PICK i \in DOMAIN heap.entries : l = <<"tcache", i>>
    BY ONLY <1>5
  <2>2. k <= Len(heap.entries[i]) /\ heap.entries[i][k] = p
    BY ONLY <1>1, <2>1, ListIs
  <2>3. Len(heap.entries[i]) \in Nat
    BY <2>1
  <2>4. k \in 1 .. Len(heap.entries[i])
    BY ONLY <1>2, <2>2, <2>3
  <2> QED BY ONLY <1>1, <2>1, <2>2, <2>4
<1>6. \/ \E i \in DOMAIN heap.bins : l = <<"bin", i>>
      \/ \E i \in DOMAIN heap.fast : l = <<"fast", i>>
      \/ \E i \in DOMAIN heap.entries : l = <<"tcache", i>>
  BY ONLY <1>1 DEF Lists
<1> QED BY ONLY <1>3, <1>4, <1>5, <1>6

\* On which lists chunks are.
ListsOK ==
  /\ IsFiniteSet(DOMAIN heap.hdr)
  /\ Proper(heap.bins) /\ Proper(heap.fast) /\ Proper(heap.entries)
  /\ Members(heap.bins) \subseteq DOMAIN heap.hdr /\ Members(heap.fast) \subseteq DOMAIN heap.hdr
  /\ Members(heap.entries) \subseteq DOMAIN heap.hdr
  /\ Members(heap.bins) \cap Members(heap.fast) = {}
  /\ Members(heap.bins) \cap Members(heap.entries) = {}
  /\ Members(heap.fast) \cap Members(heap.entries) = {}

\* How long lists of chunks are.
LEMMA ListSizes ==
  ASSUME NEW f, Proper(f), NEW S, IsFiniteSet(S), Members(f) \subseteq S
  PROVE  /\ Cardinality(S) \in Nat
         /\ \A i \in DOMAIN f : Len(f[i]) \in Nat /\ Len(f[i]) <= Cardinality(S)
<1>1. Cardinality(S) \in Nat
  BY ONLY IsFiniteSet(S), FS_CardinalityType
<1>2. ASSUME NEW i \in DOMAIN f
      PROVE  Len(f[i]) \in Nat /\ Len(f[i]) <= Cardinality(S)
  <2>1. IsList(f[i])
    BY ONLY <1>2, Proper(f) DEF Proper
  <2>2. Range(f[i]) \subseteq S
    BY ONLY <1>2, Members(f) \subseteq S DEF Members
  <2> QED BY ONLY <2>1, <2>2, IsFiniteSet(S), ListLength
<1> QED BY ONLY <1>1, <1>2

\* A chunk that is on a list has one place there,
LEMMA OneListPlace ==
  ASSUME ListsOK, NEW p \in Members(heap.bins) \cup Members(heap.fast) \cup Members(heap.entries)
  PROVE  \E w : ListPlaces(p) = {w}
<1> DEFINE C == Cardinality(DOMAIN heap.hdr)
<1>1. /\ C \in Nat
      /\ \A i \in DOMAIN heap.bins : Len(heap.bins[i]) \in Nat /\ Len(heap.bins[i]) <= C
      /\ \A i \in DOMAIN heap.fast : Len(heap.fast[i]) \in Nat /\ Len(heap.fast[i]) <= C
      /\ \A i \in DOMAIN heap.entries : Len(heap.entries[i]) \in Nat /\ Len(heap.entries[i]) <= C
  BY ONLY ListsOK, ListSizes DEF ListsOK
<1>2. \A w \in ListPlaces(p) :
         \/ \E i \in DOMAIN heap.bins : \E k \in 1 .. Len(heap.bins[i]) :
              w = <<<<"bin", i>>, k>> /\ heap.bins[i][k] = p
         \/ \E i \in DOMAIN heap.fast : \E k \in 1 .. Len(heap.fast[i]) :
              w = <<<<"fast", i>>, k>> /\ heap.fast[i][k] = p
         \/ \E i \in DOMAIN heap.entries : \E k \in 1 .. Len(heap.entries[i]) :
              w = <<<<"tcache", i>>, k>> /\ heap.entries[i][k] = p
  BY ONLY <1>1, ListPlace
<1>3. ASSUME NEW l \in Lists, NEW k \in Nat, k >= 1, k <= Len(List(l)), k <= C, List(l)[k] = p
      PROVE  <<l, k>> \in ListPlaces(p)
  <2>1. k \in 1 .. C
    BY ONLY <1>1, <1>3
  <2> HIDE DEF C
  <2>2. <<l, k>> \in Lists \X (1 .. C) /\ <<l, k>>[1] = l /\ <<l, k>>[2] = k
    BY ONLY <1>3, <2>1
  <2> USE DEF C
  <2> QED BY ONLY <1>3, <2>2 DEF ListPlaces
<1> HIDE DEF C
<1>4. CASE p \in Members(heap.bins)
  <2>1. Once(heap.bins, p)
    BY ONLY <1>4, ListsOK, Listed1 DEF ListsOK
  <2>a. PICK i \in DOMAIN heap.bins : \E k \in 1 .. Len(heap.bins[i]) :
          /\ heap.bins[i][k] = p
          /\ \A j \in DOMAIN heap.bins : \A m \in 1 .. Len(heap.bins[j]) :
               heap.bins[j][m] = p => j = i /\ m = k
    BY ONLY <2>1 DEF Once
  <2>2. PICK k \in 1 .. Len(heap.bins[i]) :
          /\ heap.bins[i][k] = p
          /\ \A j \in DOMAIN heap.bins : \A m \in 1 .. Len(heap.bins[j]) :
               heap.bins[j][m] = p => j = i /\ m = k
    BY ONLY <2>a
  <2>3. /\ \A j \in DOMAIN heap.fast : \A m \in 1 .. Len(heap.fast[j]) : heap.fast[j][m] # p
        /\ \A j \in DOMAIN heap.entries : \A m \in 1 .. Len(heap.entries[j]) : heap.entries[j][m] # p
    BY ONLY <1>4, ListsOK, NotListed DEF ListsOK
  <2>4. <<"bin", i>> \in Lists /\ List(<<"bin", i>>) = heap.bins[i]
    BY ONLY <2>a, ListIs DEF Lists
  <2>5. <<<<"bin", i>>, k>> \in ListPlaces(p)
    BY ONLY <1>1, <1>3, <2>a, <2>2, <2>4
  <2>6. \A w \in ListPlaces(p) : w = <<<<"bin", i>>, k>>
    BY ONLY <1>2, <2>a, <2>2, <2>3, Zenon
  <2> QED BY ONLY <2>5, <2>6
<1>5. CASE p \in Members(heap.fast)
  <2>1. Once(heap.fast, p)
    BY ONLY <1>5, ListsOK, Listed1 DEF ListsOK
  <2>a. PICK i \in DOMAIN heap.fast : \E k \in 1 .. Len(heap.fast[i]) :
          /\ heap.fast[i][k] = p
          /\ \A j \in DOMAIN heap.fast : \A m \in 1 .. Len(heap.fast[j]) :
               heap.fast[j][m] = p => j = i /\ m = k
    BY ONLY <2>1 DEF Once
  <2>2. PICK k \in 1 .. Len(heap.fast[i]) :
          /\ heap.fast[i][k] = p
          /\ \A j \in DOMAIN heap.fast : \A m \in 1 .. Len(heap.fast[j]) :
               heap.fast[j][m] = p => j = i /\ m = k
    BY ONLY <2>a
  <2>3. /\ \A j \in DOMAIN heap.bins : \A m \in 1 .. Len(heap.bins[j]) : heap.bins[j][m] # p
        /\ \A j \in DOMAIN heap.entries : \A m \in 1 .. Len(heap.entries[j]) : heap.entries[j][m] # p
    BY ONLY <1>5, ListsOK, NotListed DEF ListsOK
  <2>4. <<"fast", i>> \in Lists /\ List(<<"fast", i>>) = heap.fast[i]
    BY ONLY <2>a, ListIs DEF Lists
  <2>5. <<<<"fast", i>>, k>> \in ListPlaces(p)
    BY ONLY <1>1, <1>3, <2>a, <2>2, <2>4
  <2>6. \A w \in ListPlaces(p) : w = <<<<"fast", i>>, k>>
    BY ONLY <1>2, <2>a, <2>2, <2>3, Zenon
  <2> QED BY ONLY <2>5, <2>6
<1>6. CASE p \in Members(heap.entries)
  <2>1. Once(heap.entries, p)
    BY ONLY <1>6, ListsOK, Listed1 DEF ListsOK
  <2>a. PICK i \in DOMAIN heap.entries : \E k \in 1 .. Len(heap.entries[i]) :
          /\ heap.entries[i][k] = p
          /\ \A j \in DOMAIN heap.entries : \A m \in 1 .. Len(heap.entries[j]) :
               heap.entries[j][m] = p => j = i /\ m = k
    BY ONLY <2>1 DEF Once
  <2>2. PICK k \in 1 .. Len(heap.entries[i]) :
          /\ heap.entries[i][k] = p
          /\ \A j \in DOMAIN heap.entries : \A m \in 1 .. Len(heap.entries[j]) :
               heap.entries[j][m] = p => j = i /\ m = k
    BY ONLY <2>a
  <2>3. /\ \A j \in DOMAIN heap.bins : \A m \in 1 .. Len(heap.bins[j]) : heap.bins[j][m] # p
        /\ \A j \in DOMAIN heap.fast : \A m \in 1 .. Len(heap.fast[j]) : heap.fast[j][m] # p
    BY ONLY <1>6, ListsOK, NotListed DEF ListsOK
  <2>4. <<"tcache", i>> \in Lists /\ List(<<"tcache", i>>) = heap.entries[i]
    BY ONLY <2>a, ListIs DEF Lists
  <2>5. <<<<"tcache", i>>, k>> \in ListPlaces(p)
    BY ONLY <1>1, <1>3, <2>a, <2>2, <2>4
  <2>b. \A w \in ListPlaces(p) : \E j \in DOMAIN heap.entries : \E m \in 1 .. Len(heap.entries[j]) :
          w = <<<<"tcache", j>>, m>> /\ heap.entries[j][m] = p
    BY ONLY <1>2, <2>3, Zenon
  <2>6. \A w \in ListPlaces(p) : w = <<<<"tcache", i>>, k>>
    BY ONLY <2>a, <2>2, <2>b, Zenon
  <2> QED BY ONLY <2>5, <2>6
<1>7. p \in Members(heap.bins) \/ p \in Members(heap.fast) \/ p \in Members(heap.entries)
  OBVIOUS
<1> QED BY ONLY <1>4, <1>5, <1>6, <1>7

\* and one that is on none has no place.
LEMMA NoListPlace ==
  ASSUME ListsOK,
         NEW p, p \notin Members(heap.bins) \cup Members(heap.fast) \cup Members(heap.entries)
  PROVE  ListPlaces(p) = {}
<1>1. /\ Cardinality(DOMAIN heap.hdr) \in Nat
      /\ \A i \in DOMAIN heap.bins : Len(heap.bins[i]) \in Nat
      /\ \A i \in DOMAIN heap.fast : Len(heap.fast[i]) \in Nat
      /\ \A i \in DOMAIN heap.entries : Len(heap.entries[i]) \in Nat
  BY ONLY ListsOK, ListSizes DEF ListsOK
<1>2. p \notin Members(heap.bins) /\ p \notin Members(heap.fast) /\ p \notin Members(heap.entries)
  OBVIOUS
<1>3. /\ \A j \in DOMAIN heap.bins : \A m \in 1 .. Len(heap.bins[j]) : heap.bins[j][m] # p
      /\ \A j \in DOMAIN heap.fast : \A m \in 1 .. Len(heap.fast[j]) : heap.fast[j][m] # p
      /\ \A j \in DOMAIN heap.entries : \A m \in 1 .. Len(heap.entries[j]) : heap.entries[j][m] # p
  BY ONLY <1>2, ListsOK, NotListed DEF ListsOK
<1>4. \A w \in ListPlaces(p) : FALSE
  BY ONLY <1>1, <1>3, ListPlace
<1> QED BY ONLY <1>4

\* P are the places of something: those of at most one of its five kinds.
OnePart(A, S, T, F, L, P) ==
  /\ P = {w \in {"live"} : A} \cup {w \in {"struct"} : S} \cup {w \in {"top"} : T}
            \cup {w \in {"fencepost"} : F} \cup L
  /\ \/ A /\ ~S /\ ~T /\ ~F /\ L = {}
     \/ S /\ ~A /\ ~T /\ ~F /\ L = {}
     \/ T /\ ~A /\ ~S /\ ~F /\ L = {}
     \/ F /\ ~A /\ ~S /\ ~T /\ L = {}
     \/ ~A /\ ~S /\ ~T /\ ~F /\ \E w : L = {w}

\* One part has one place, the others have none.
LEMMA Count ==
  ASSUME NEW A, NEW S, NEW T, NEW F,
         NEW L, NEW P, OnePart(A, S, T, F, L, P)
  PROVE  Cardinality(P) = 1
<1>0. /\ P = {w \in {"live"} : A} \cup {w \in {"struct"} : S} \cup {w \in {"top"} : T}
              \cup {w \in {"fencepost"} : F} \cup L
      /\ \/ A /\ ~S /\ ~T /\ ~F /\ L = {}
         \/ S /\ ~A /\ ~T /\ ~F /\ L = {}
         \/ T /\ ~A /\ ~S /\ ~F /\ L = {}
         \/ F /\ ~A /\ ~S /\ ~T /\ L = {}
         \/ ~A /\ ~S /\ ~T /\ ~F /\ \E w : L = {w}
  BY DEF OnePart
<1>1. CASE A /\ ~S /\ ~T /\ ~F /\ L = {}
  <2>1. P = {"live"} BY <1>0, <1>1
  <2> QED BY ONLY <2>1, FS_Singleton
<1>2. CASE S /\ ~A /\ ~T /\ ~F /\ L = {}
  <2>1. P = {"struct"} BY <1>0, <1>2
  <2> QED BY ONLY <2>1, FS_Singleton
<1>3. CASE T /\ ~A /\ ~S /\ ~F /\ L = {}
  <2>1. P = {"top"} BY <1>0, <1>3
  <2> QED BY ONLY <2>1, FS_Singleton
<1>4. CASE F /\ ~A /\ ~S /\ ~T /\ L = {}
  <2>1. P = {"fencepost"} BY <1>0, <1>4
  <2> QED BY ONLY <2>1, FS_Singleton
<1>5. CASE ~A /\ ~S /\ ~T /\ ~F /\ \E w : L = {w}
  <2>1. PICK w : L = {w} BY <1>0, <1>5
  <2>2. P = {w} BY <1>0, <1>5, <2>1
  <2> QED BY ONLY <2>2, FS_Singleton
<1> QED BY <1>0, <1>1, <1>2, <1>3, <1>4, <1>5

\* A chunk that is neither free nor top nor on a list is in use or the tcache.
LEMMA OwnerOf ==
  ASSUME NEW u, State(heap, call, live, u), Idle, NEW p \in DOMAIN heap.hdr
  PROVE  LET A == p \in DOMAIN live
             S == p = heap.tcache
             T == p = heap.top
             F == ~mmapped(p) /\ p # NIL /\ chunksize(heap, p) < MINSIZE
             L == p \in Members(heap.bins) \cup Members(heap.fast) \cup Members(heap.entries)
         IN \/ A /\ ~S /\ ~T /\ ~F /\ ~L
            \/ S /\ ~A /\ ~T /\ ~F /\ ~L
            \/ T /\ ~A /\ ~S /\ ~F /\ ~L
            \/ F /\ ~A /\ ~S /\ ~T /\ ~L
            \/ ~A /\ ~S /\ ~T /\ ~F /\ L
<1> DEFINE A == p \in DOMAIN live
           S == p = heap.tcache
           T == p = heap.top
           F == ~mmapped(p) /\ p # NIL /\ chunksize(heap, p) < MINSIZE
           L == p \in Members(heap.bins) \cup Members(heap.fast) \cup Members(heap.entries)
           Z == Chunks(heap.hdr, heap.top)
<1>1. /\ HeapOK(heap, u, {}, heap.tcache) /\ DOMAIN u = HeldBy(call, live, heap.tcache)
      /\ InUse(call, live, u, heap.tcache)
  BY ONLY State(heap, call, live, u), StateFacts
<1>2. /\ p \in Nat /\ heap.hdr[p].size \in Nat /\ heap.hdr[p].mmapped \in BOOLEAN
  BY ONLY <1>1, p \in DOMAIN heap.hdr, HeaderFacts
<1>3. Owned(heap.hdr, heap.top, Listed(heap), Members(heap.bins) \cup {}, u)
  BY ONLY <1>1, Zenon DEF HeapOK
<1>4. ~(A /\ S) /\ ~(heap.tcache \in DOMAIN live)
  BY ONLY <1>1 DEF InUse
<1>5. p \in DOMAIN u <=> A \/ S
  <2>1. call.pc = "idle"
    BY ONLY Idle DEF Idle
  <2>2. call.op = "none"
    <3>1. CallTyped(call) BY ONLY State(heap, call, live, u), StateFacts
    <3> QED BY ONLY <2>1, <3>1 DEF CallTyped
  <2>3. p # NONE /\ p # SHUT
    BY ONLY <1>2 DEF NONE, SHUT
  <2> QED BY ONLY <1>1, <2>1, <2>2, <2>3 DEF HeldBy, Blocks
<1>6. /\ L \/ (p \in DOMAIN u /\ ~u[p].mmapped) <=> p \in Z
      /\ ~(L /\ p \in DOMAIN u)
      /\ heap.hdr[p].mmapped => p \in DOMAIN u
      /\ p \in DOMAIN u => u[p].mmapped = heap.hdr[p].mmapped
  <2>1. p \in DOMAIN u => Face(heap.hdr[p]) = u[p]
    BY ONLY <1>3 DEF Owned
  <2>2. p \in DOMAIN u => u[p].mmapped = heap.hdr[p].mmapped
    BY ONLY <2>1 DEF Face
  <2>3. heap.hdr[p].mmapped => p \in DOMAIN u
    BY ONLY <1>3, p \in DOMAIN heap.hdr DEF Owned
  <2>4. L <=> p \in Members(heap.bins) \cup {} \/ p \in Listed(heap)
    BY ONLY DEF Listed
  <2> HIDE DEF L
  <2> QED BY ONLY <1>3, <2>2, <2>3, <2>4 DEF Owned
<1>7. p \in Z <=> ~heap.hdr[p].mmapped /\ ~T /\ heap.hdr[p].size >= MINSIZE
  BY ONLY p \in DOMAIN heap.hdr DEF Chunks
<1>8. F <=> ~heap.hdr[p].mmapped /\ p # NIL /\ heap.hdr[p].size < MINSIZE
  BY ONLY DEF mmapped, chunksize
<1>9. T => ~heap.hdr[p].mmapped /\ (p = NIL \/ heap.hdr[p].size >= MINSIZE)
  BY ONLY <1>1, TopFacts
<1>10. p = NIL => T
  <2>1. Typed(heap.hdr, heap.top)
    BY ONLY <1>1 DEF HeapOK, Laid, Shape
  <2>2. ~T => p > 0
    BY ONLY <2>1, p \in DOMAIN heap.hdr DEF Typed
  <2> QED BY ONLY <2>2 DEF NIL
<1>11. heap.hdr[p].size >= MINSIZE <=> ~(heap.hdr[p].size < MINSIZE)
  <2>1. MINSIZE \in Nat BY Units
  <2> QED BY ONLY <1>2, <2>1
<1>12. p \in DOMAIN u /\ ~heap.hdr[p].mmapped => heap.hdr[p].size >= MINSIZE /\ ~T
  BY ONLY <1>6, <1>7
<1> HIDE DEF A, S, T, F, L, Z
<1>17. \/ A /\ ~S /\ ~T /\ ~F /\ ~L
       \/ S /\ ~A /\ ~T /\ ~F /\ ~L
       \/ T /\ ~A /\ ~S /\ ~F /\ ~L
       \/ F /\ ~A /\ ~S /\ ~T /\ ~L
       \/ ~A /\ ~S /\ ~T /\ ~F /\ L
  <2>1. CASE T
    BY ONLY <1>4, <1>5, <1>6, <1>7, <1>8, <1>9, <1>11, <1>12, <2>1, Zenon
  <2>2. CASE ~T /\ heap.hdr[p].mmapped
    BY ONLY <1>4, <1>5, <1>6, <1>7, <1>8, <2>2, Zenon
  <2>3. CASE ~T /\ ~heap.hdr[p].mmapped /\ heap.hdr[p].size < MINSIZE
    BY ONLY <1>4, <1>5, <1>6, <1>7, <1>8, <1>10, <1>11, <1>12, <2>3, Zenon
  <2>4. CASE ~T /\ ~heap.hdr[p].mmapped /\ heap.hdr[p].size >= MINSIZE
    BY ONLY <1>4, <1>5, <1>6, <1>7, <1>8, <1>11, <2>4, Zenon
  <2> QED BY ONLY <1>11, <2>1, <2>2, <2>3, <2>4, Zenon
<1> QED BY ONLY <1>17 DEF A, S, T, F, L

\* and that every chunk has one owner.
LEMMA IInvOneOwner ==
  ASSUME IInv
  PROVE  OneOwner
<1>1. PICK u : State(heap, call, live, u)
  BY ONLY IInv, Zenon DEF IInv
<1>2. SUFFICES ASSUME Idle, NEW p \in DOMAIN heap.hdr
      PROVE  /\ Cardinality(Places(p)) = 1
             /\ \A q \in DOMAIN heap.hdr : p < q => next_chunk(heap, p) <= q
             /\ mmapped(p) \/ p = heap.top \/ chunksize(heap, p) < MINSIZE
                  \/ next_chunk(heap, p) \in DOMAIN heap.hdr
  BY Zenon DEF OneOwner
<1>3. HeapOK(heap, u, {}, heap.tcache)
  BY ONLY <1>1, StateFacts
<1>4. Shape(heap.hdr, heap.top, Space(heap.brk, heap.mapped), heap.contiguous, heap.sbrk_base)
  BY ONLY <1>3 DEF HeapOK, Laid
<1>5. \A q \in DOMAIN heap.hdr : p < q => next_chunk(heap, p) <= q
  <2>1. SUFFICES ASSUME NEW q \in DOMAIN heap.hdr, p < q PROVE next_chunk(heap, p) <= q
    OBVIOUS
  <2>2. End(heap.hdr, p) <= Start(heap.hdr, q)
    BY ONLY <1>2, <1>4, <2>1 DEF Shape, Apart
  <2>3. q \in Nat /\ heap.hdr[q].prev_size \in Nat /\ p \in Nat /\ heap.hdr[p].size \in Nat
    BY ONLY <1>2, <1>3, <2>1, HeaderFacts
  <2>4. Start(heap.hdr, q) \in Int /\ Start(heap.hdr, q) <= q
    BY ONLY <2>3 DEF Start
  <2>5. next_chunk(heap, p) = End(heap.hdr, p) /\ End(heap.hdr, p) \in Int
    BY ONLY <2>3 DEF next_chunk, chunksize, End
  <2> QED BY ONLY <2>2, <2>3, <2>4, <2>5
<1>6. mmapped(p) \/ p = heap.top \/ chunksize(heap, p) < MINSIZE \/ next_chunk(heap, p) \in DOMAIN heap.hdr
  <2>1. SUFFICES ASSUME ~mmapped(p), p # heap.top, ~(chunksize(heap, p) < MINSIZE)
                 PROVE  next_chunk(heap, p) \in DOMAIN heap.hdr
    OBVIOUS
  <2>2. heap.hdr[p].size \in Nat /\ MINSIZE \in Nat
    BY <1>2, <1>3, HeaderFacts, Units
  <2>3. p \in Chunks(heap.hdr, heap.top)
    BY ONLY <1>2, <2>1, <2>2 DEF Chunks, mmapped, chunksize
  <2>4. End(heap.hdr, p) \in DOMAIN heap.hdr
    BY ONLY <1>4, <2>3 DEF Shape, Joined
  <2> QED BY ONLY <2>4 DEF next_chunk, chunksize, End
<1>7. ListsOK
  <2>1. Proper(heap.bins) /\ Proper(heap.fast) /\ Proper(heap.entries)
    BY ONLY <1>3 DEF HeapOK, Lists3
  <2>2. /\ Members(heap.bins) \subseteq DOMAIN heap.hdr /\ Members(heap.fast) \subseteq DOMAIN heap.hdr
        /\ Members(heap.entries) \subseteq DOMAIN heap.hdr
    BY ONLY <1>3, AllChunks
  <2>3. /\ Members(heap.fast) \cap Members(heap.entries) = {}
        /\ (Members(heap.bins) \cup {}) \cap Listed(heap) = {}
    BY ONLY <1>3 DEF HeapOK, Owned
  <2>4. /\ Members(heap.bins) \cap Members(heap.fast) = {}
        /\ Members(heap.bins) \cap Members(heap.entries) = {}
    BY ONLY <2>3 DEF Listed
  <2>5. IsFiniteSet(DOMAIN heap.hdr)
    <3>1. DOMAIN heap.hdr \subseteq Addresses
      BY ONLY <1>3, Addressed
    <3>2. IsFiniteSet(Addresses)
      <4>1. {HeapEnd, MmapEnd} \subseteq Nat /\ HeapEnd <= MmapStart /\ MmapStart <= MmapEnd /\ MmapStart \in Nat
        BY System
      <4>2. \A y \in {HeapEnd, MmapEnd} : y <= MmapEnd
        BY ONLY <4>1
      <4>3. Max({HeapEnd, MmapEnd}) \in Nat
        <5> DEFINE M == {HeapEnd, MmapEnd}
        <5>1. M \subseteq Nat /\ M # {} /\ MmapEnd \in Nat /\ \A y \in M : y <= MmapEnd
          BY ONLY <4>1, <4>2
        <5> HIDE DEF M
        <5>2. Max(M) \in M
          BY ONLY <5>1, MaxIs
        <5>3. Max(M) \in Nat
          BY ONLY <5>1, <5>2
        <5> QED BY ONLY <5>3 DEF M
      <4>4. 0 \in Int /\ Max({HeapEnd, MmapEnd}) \in Int
        BY ONLY <4>3
      <4>5. IsFiniteSet(0 .. Max({HeapEnd, MmapEnd}))
        BY ONLY <4>4, FS_Interval
      <4> QED BY ONLY <4>5 DEF Addresses
    <3> QED BY ONLY <3>1, <3>2, FS_Subset
  <2> QED BY ONLY <2>1, <2>2, <2>3, <2>4, <2>5, Zenon DEF ListsOK
<1>8. Cardinality(Places(p)) = 1
  <2> DEFINE A == p \in DOMAIN live
             S == p = heap.tcache
             T == p = heap.top
             F == ~mmapped(p) /\ p # NIL /\ chunksize(heap, p) < MINSIZE
             L == p \in Members(heap.bins) \cup Members(heap.fast) \cup Members(heap.entries)
             W == ListPlaces(p)
             P == Places(p)
  <2>1. \/ A /\ ~S /\ ~T /\ ~F /\ ~L
        \/ S /\ ~A /\ ~T /\ ~F /\ ~L
        \/ T /\ ~A /\ ~S /\ ~F /\ ~L
        \/ F /\ ~A /\ ~S /\ ~T /\ ~L
        \/ ~A /\ ~S /\ ~T /\ ~F /\ L
    BY ONLY <1>1, <1>2, OwnerOf
  <2>2. P = {w \in {"live"} : A} \cup {w \in {"struct"} : S} \cup {w \in {"top"} : T}
              \cup {w \in {"fencepost"} : F} \cup W
    BY ONLY DEF Places, ListPlaces
  <2>3. L => \E w : W = {w}
    BY ONLY <1>7, OneListPlace
  <2>4. ~L => W = {}
    BY ONLY <1>7, NoListPlace
  <2> HIDE DEF A, S, T, F, L, W, P
  <2>5. \/ A /\ ~S /\ ~T /\ ~F /\ W = {}
        \/ S /\ ~A /\ ~T /\ ~F /\ W = {}
        \/ T /\ ~A /\ ~S /\ ~F /\ W = {}
        \/ F /\ ~A /\ ~S /\ ~T /\ W = {}
        \/ ~A /\ ~S /\ ~T /\ ~F /\ \E w : W = {w}
    BY ONLY <2>1, <2>3, <2>4, Zenon
  <2>6. OnePart(A, S, T, F, W, P)
    BY ONLY <2>2, <2>5, Zenon DEF OnePart
  <2>7. Cardinality(P) = 1
    BY ONLY <2>6, Count, Zenon
  <2> QED BY ONLY <2>7 DEF P
<1> QED BY ONLY <1>5, <1>6, <1>8

\* The invariant of the arena and of the calls, which is inductive.
THEOREM Invariant == Spec => []IInv
<1>1. Init => IInv
  BY ONLY InitIInv
<1>2. IInv /\ [Next]_vars => IInv'
  BY ONLY StepKeepsIInv
<1> QED BY <1>1, <1>2, PTL DEF Spec

\* Every header, list and break has its type, in every state.
THEOREM TypeCorrect == Spec => []TypeOK
<1>1. IInv => TypeOK
  BY ONLY IInvTypeOK
<1> QED BY <1>1, Invariant, PTL

\* Between calls every chunk is in one place, and no two chunks overlap.
THEOREM OneOwnerHolds == Spec => []OneOwner
<1>1. IInv => OneOwner
  BY ONLY IInvOneOwner
<1> QED BY <1>1, Invariant, PTL

\* Every block has room for what was asked, and what a call returns is
\* aligned, not too large, and has the old data.
THEOREM BlocksServeHolds == Spec => []BlocksServe
<1>1. IInv => BlocksServe
  BY ONLY IInvBlocksServe
<1> QED BY <1>1, Invariant, PTL

=============================================================================
