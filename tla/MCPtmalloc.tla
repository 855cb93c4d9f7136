----------------------------- MODULE MCPtmalloc -----------------------------
(***************************************************************************)
(* Programs of a few calls with the sizes and thresholds of a 64-bit       *)
(* build, and small limits for the cache and for the unsorted chunks.      *)
(***************************************************************************)
EXTENDS Ptmalloc

m(n) == [op |-> "malloc", bytes |-> n]
z(n) == [op |-> "calloc", bytes |-> n]
a(al, n) == [op |-> "memalign", alignment |-> al, bytes |-> n]
r(k, n) == [op |-> "realloc", nth |-> k, bytes |-> n]
f(k) == [op |-> "free", nth |-> k]
trim == [op |-> "malloc_trim"]
opt(param, value) == [op |-> "mallopt", param |-> param, value |-> value]
exit == [op |-> "thread_exit"]
sbrk(n) == [op |-> "sbrk", increment |-> n]

Several(s, n) == FlattenSeq([i \in 1 .. n |-> s])

\* Small and large chunks in any order.
Mixed ==
  LET any == {m(24), m(1000), z(1100), a(100, 24), r(0, 24), r(0, 1100), f(0), trim}
  IN <<any, any, any, any, any, any>>

\* Neighbours of a fast size, freed in any order, merged and used again.
FastChunks ==
  Several(<<{m(24)}>>, 5) \o Several(<<{f(0)}>>, 4)
    \o <<{m(24), trim, z(1100)}, {m(24), z(24), m(56), opt("M_MXFAST", 0)}, {m(24), z(24), z(56), exit}>>

\* Five of eight neighbours freed and merged: what the cache takes and returns.
MergedChunks ==
  Several(<<{m(24)}>>, 8) \o <<{f(8)}, {f(0)}, {f(0)}, {f(1)}, {f(1)}, {trim, z(2000)}, {m(56), z(24)}, {m(24), z(56)}>>

\* Small requests when top is almost used up and there are fast chunks.
SmallTop ==
  Several(<<{m(24)}>>, 4) \o <<{m(6900), m(7352)}, {f(0)}, {f(0)}, {f(0), z(24)}, {m(500), z(24)}, {r(0, 500), m(300)}>>

\* Chunks of one large bin, of two sizes and more.
LargeChunks ==
  <<{m(1080)}, {m(24)}, {m(1120)}, {m(24)}, {m(1080)}, {m(24)}>>
    \o <<{f(1), f(3)}, {f(1), f(2), f(3)}, {f(0)}, {m(3000)}, {m(1080), m(1064)}, {m(1100), z(900)}>>

\* Small chunks that no fast bin takes.
SmallChunks ==
  Several(<<{m(200)}, {m(24)}>>, 4)
    \o <<{f(1)}, {f(2)}, {f(3)}, {f(4)}, {m(3000), m(1000)}, {m(200), z(200)}, {m(200), z(200), z(100)}, {m(100)}>>

\* Small pieces cut off one free chunk.
Remainders ==
  <<{m(3000), a(1000, 1000)}, {m(24)}, {f(1)}, {m(4000), m(100)}, {m(100), z(300)}, {m(100), z(900)}, {f(0)}, {r(0, 400), m(200)}>>

\* Large blocks next to top.
TopChunks ==
  <<{m(70000), m(100000)}, {m(24), m(70000)}, {f(0), r(0, 90000)}, {f(0), trim},
    {z(5000), z(130000), sbrk(4096)}, {z(5000), z(130000)}>>

\* Another user of sbrk.
Foreign ==
  <<{m(24), m(4000)}, {sbrk(4096)}, {m(5000), z(100), r(0, 9000)}, {f(1)}, {m(24), sbrk(8192)}, {r(0, 12000), m(12000)}>>

\* Memory from mmap, within the limit and as a replacement for sbrk.
Mapped ==
  <<{m(1000000)}, {z(140000), a(4096, 140000)}, {r(0, 200000), r(0, 100), r(0, 150000)}, {f(0), m(1073741825)},
    {r(0, 150000), f(0), r(0, 1073741825), m(140000)}>>
NoContiguous ==
  <<{m(24)}, {opt("M_MMAP_MAX", 0)}, {m(1000000)}, {m(100000)}, {z(100000), m(1000000), trim}, {f(0)}, {f(0), m(40000)}>>

\* A large free top, another user of sbrk, and a request just below the threshold
\* for mmap.
FreeTop ==
  <<{m(24)}, {m(70000), m(60000)}, {f(0)}, {sbrk(4096), m(24)}, {m(127000), m(4000)}, {m(127000), f(0)}>>
FreeTopPrograms == {FreeTop}

\* Top is left with MINSIZE bytes and trimmed; the blocks below it are filled, freed
\* and trimmed away before calloc asks for more than is left.
TrimmedTop == <<{m(24)}, {m(7440), m(7400)}, {trim}, {m(4000)}, {f(0)}, {f(0)}, {trim}, {z(20000)}>>
CallocPrograms == {TrimmedTop}

MCPrograms ==
  {Mixed, FastChunks, MergedChunks, SmallTop, LargeChunks, SmallChunks, Remainders, TopChunks, Foreign, Mapped, NoContiguous}
=============================================================================
