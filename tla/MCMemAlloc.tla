---- MODULE MCMemAlloc ----
(* A heap of at most six pages of four bytes: small enough that blocks of
   the minimal capacity, remainders that are one byte too small to split off,
   merges across regions and a full address space all occur. *)
EXTENDS MemAlloc

MCInitialSizes == {5}

\* Below the minimum; one byte more than fits the smallest region next to its
\* header; a size that wraps around in grow_heap.
MCQueries == {1, 8, 61}

\* The page after the first region, and one further up.
MCForeign == {16, 20}
====
