--------------------------- MODULE FastBinsProofs ---------------------------
(***************************************************************************)
(* For any number of threads, chunks and fast bins, whatever sizes the     *)
(* chunks have and however often mallopt changes what is fast, no chunk is *)
(* lost, doubled or out of its list, and no check fails.                   *)
(*                                                                         *)
(* ChunksAccounted is not inductive.  A push keeps a list a list because   *)
(* fd of the pushed chunk is what the exchange compares with (PushOK); a   *)
(* pop because fd of the first chunk can not have changed since it was     *)
(* read (PopOK), since only the holder of the mutex takes chunks (MutexOK);*)
(* and the test of system_mem, repeated under the mutex, can not fail      *)
(* because systrim leaves top below it again before it unlocks (SystemOK). *)
(***************************************************************************)
EXTENDS FastBins, TLAPS

Labels ==
  {"idle", "lock", "free", "exit", "gone", "check", "relock", "recheck", "abort", "mark", "read",
   "link", "push", "merge", "head", "fd", "pop", "bins", "exchange", "chunk", "trim", "settop",
   "set", "unlock"}
Ops == {"none", "malloc", "trim", "mallopt", "free", "exit"}

Links == Chunks \union {NIL}

TypeOK ==
  /\ fastbins \in [Bins -> Links]
  /\ fd \in [Chunks -> Links \union {JUNK}]
  /\ have_fastchunks \in BOOLEAN
  /\ max_fast \in 0 .. NFASTBINS
  /\ mutex \in Threads \union {NIL}
  /\ system_mem \in Int /\ top_size \in Int
  /\ arena \subseteq Chunks
  /\ tcache \in [Threads -> SUBSET Chunks]
  /\ user \subseteq Chunks
  /\ pc \in [Threads -> Labels]
  /\ op \in [Threads -> Ops]
  /\ nb \in [Threads -> Bins]
  /\ idx \in [Threads -> Bins]
  /\ p \in [Threads -> Links]
  /\ old \in [Threads -> Links]
  /\ next \in [Threads -> Links]
  /\ where \in [Chunks -> Places]
  /\ rank \in [Chunks -> Nat]

Locked ==
  {"recheck", "merge", "head", "fd", "pop", "bins", "exchange", "chunk", "trim", "settop", "set",
   "unlock"}
Freeing == {"free", "check", "relock", "recheck", "mark", "read", "link", "push", "merge"}
Pushing == {"check", "relock", "recheck", "mark", "read", "link", "push"}
Empty == {"idle", "exit", "gone", "bins", "exchange", "chunk", "trim", "settop", "set"}
ForFree(t) == op[t] \in {"free", "exit"}

MutexOK == \A t \in Threads : mutex = t <=> pc[t] \in Locked

SystemOK ==
  /\ top_size >= 1
  /\ \A t \in Threads : At(t, "settop") => system_mem > 1
  /\ (\A t \in Threads : ~At(t, "settop")) => top_size < system_mem

ControlOK(t) ==
  /\ pc[t] \in Freeing => ForFree(t)
  /\ pc[t] \in {"exit", "gone"} => op[t] = "exit"
  /\ At(t, "lock") => op[t] # "none"
  /\ pc[t] \in {"head", "fd", "pop", "bins"} => op[t] = "malloc"
  /\ pc[t] \in {"exchange", "chunk"} => op[t] \in {"malloc", "trim", "mallopt"}
  /\ pc[t] \in Freeing \/ (At(t, "lock") /\ ForFree(t)) => p[t] # NIL
  /\ pc[t] \in Empty \/ (At(t, "lock") /\ ~ForFree(t)) => p[t] = NIL
  /\ pc[t] \in Pushing => nb[t] = fastbin_index[p[t]]

PushOK(t) ==
  /\ pc[t] \in {"link", "push"} => old[t] # p[t]
  /\ pc[t] = "push" => fd[p[t]] = old[t]

PopOK(t) ==
  /\ pc[t] \in {"fd", "pop"} => old[t] # NIL /\ where[old[t]] = "fast" /\ fastbin_index[old[t]] = nb[t]
  /\ pc[t] = "pop" => next[t] = fd[old[t]]

OwnersOK ==
  /\ \A c \in Chunks : c \in user <=> where[c] = "user"
  /\ \A c \in Chunks : c \in arena <=> where[c] = "arena"
  /\ \A c \in Chunks : where[c] = "tcache" <=> \E t \in Threads : c \in tcache[t]
  /\ \A c \in Chunks : where[c] = "hand" <=> \E t \in Threads : p[t] = c
  /\ \A t, u \in Threads : t # u => \A c \in tcache[t] : c \notin tcache[u]
  /\ \A t, u \in Threads : t # u /\ p[t] = p[u] => p[t] = NIL

IInv ==
  /\ TypeOK
  /\ MutexOK
  /\ SystemOK
  /\ \A t \in Threads : ControlOK(t) /\ PushOK(t) /\ PopOK(t)
  /\ OwnersOK
  /\ FastbinsLinked
  /\ NoFalseAbort

-----------------------------------------------------------------------------
\* The bins are numbered from 0, and every chunk has one.
LEMMA BinFacts == 0 \in Bins /\ NIL \notin Chunks /\ fastbin_index \in [Chunks -> Bins]
BY FastAssumption DEF Bins

\* A chunk in a fast bin points into the same bin.
LEMMA FastNext ==
  ASSUME IInv, NEW c \in Chunks, where[c] = "fast"
  PROVE  fd[c] \in InBin(fastbin_index[c]) \union {NIL}
<1>1. fastbin_index[c] \in Bins BY FastAssumption DEF Bins
<1>2. Chain(fastbins[fastbin_index[c]], InBin(fastbin_index[c])) BY <1>1 DEF IInv, FastbinsLinked
<1>3. c \in InBin(fastbin_index[c]) BY DEF InBin
<1> QED BY <1>2, <1>3 DEF Chain

\* The list that is being consolidated is of chunks in no bin.
LEMMA DetachedNext ==
  ASSUME IInv, NEW t \in Threads, At(t, "chunk"), old[t] # NIL
  PROVE  /\ old[t] \in Chunks /\ where[old[t]] = "detached"
         /\ fd[old[t]] \in In("detached") \union {NIL}
<1>1. Chain(old[t], In("detached")) BY DEF IInv, FastbinsLinked
<1> QED BY <1>1 DEF Chain, In

\* A thread on its way through _int_free holds its chunk.
LEMMA FreeingHas ==
  ASSUME IInv, NEW t \in Threads, pc[t] \in Freeing
  PROVE  p[t] \in Chunks /\ where[p[t]] = "hand"
<1> QED BY DEF IInv, ControlOK, TypeOK, Links, OwnersOK

\* A chunk comes into the hand of a thread that had none.
LEMMA IntoHand ==
  ASSUME IInv, NEW t \in Threads, NEW c \in Chunks, p[t] = NIL, where[c] # "hand",
         p' = [p EXCEPT ![t] = c], where' = [where EXCEPT ![c] = "hand"]
  PROVE  /\ \A d \in Chunks : where'[d] = "hand" <=> \E u \in Threads : p'[u] = d
         /\ \A u, v \in Threads : u # v /\ p'[u] = p'[v] => p'[u] = NIL
<1> USE BinFacts DEF IInv, TypeOK, OwnersOK, Links
<1>1. \A u \in Threads : p[u] # c OBVIOUS
<1>2. ASSUME NEW d \in Chunks PROVE where'[d] = "hand" <=> \E u \in Threads : p'[u] = d
  <2>1. CASE d = c BY <2>1
  <2>2. CASE d # c
    <3>1. where'[d] = where[d] BY <2>2
    <3>2. \A u \in Threads : p'[u] = d <=> p[u] = d BY <2>2
    <3> QED BY <3>1, <3>2
  <2> QED BY <2>1, <2>2
<1>3. \A u, v \in Threads : u # v /\ p'[u] = p'[v] => p'[u] = NIL BY <1>1
<1> QED BY <1>2, <1>3

\* A chunk leaves the hand of a thread.
LEMMA OutOfHand ==
  ASSUME IInv, NEW t \in Threads, p[t] \in Chunks, NEW place, place # "hand",
         p' = [p EXCEPT ![t] = NIL], where' = [where EXCEPT ![p[t]] = place]
  PROVE  /\ \A d \in Chunks : where'[d] = "hand" <=> \E u \in Threads : p'[u] = d
         /\ \A u, v \in Threads : u # v /\ p'[u] = p'[v] => p'[u] = NIL
<1> USE BinFacts DEF IInv, TypeOK, OwnersOK, Links
<1>1. ASSUME NEW d \in Chunks PROVE where'[d] = "hand" <=> \E u \in Threads : p'[u] = d
  <2>1. CASE d = p[t]
    <3>1. \A u \in Threads : p'[u] # d BY <2>1
    <3> QED BY <2>1, <3>1
  <2>2. CASE d # p[t]
    <3>1. where'[d] = where[d] BY <2>2
    <3>2. \A u \in Threads : p'[u] = d <=> p[u] = d BY <2>2
    <3> QED BY <3>1, <3>2
  <2> QED BY <2>1, <2>2
<1>2. \A u, v \in Threads : u # v /\ p'[u] = p'[v] => p'[u] = NIL OBVIOUS
<1> QED BY <1>1, <1>2

\* What is first in a bin belongs there.
LEMMA HeadIsFast ==
  ASSUME IInv, NEW i \in Bins, fastbins[i] # NIL
  PROVE  fastbins[i] \in Chunks /\ where[fastbins[i]] = "fast" /\ fastbin_index[fastbins[i]] = i
<1>1. Chain(fastbins[i], InBin(i)) BY DEF IInv, FastbinsLinked
<1> QED BY <1>1 DEF Chain, InBin

\* A list stays one while nothing of it changes.
LEMMA ChainSame ==
  ASSUME NEW first, NEW S, Chain(first, S),
         \A c \in S : fd'[c] = fd[c] /\ rank'[c] = rank[c]
  PROVE  Chain(first, S)'
BY DEF Chain

\* The rest of a list is one.
LEMMA ChainTail ==
  ASSUME TypeOK, NEW first \in Chunks, NEW S \in SUBSET Chunks, Chain(first, S),
         NEW second, second = fd[first],
         \A c \in S \ {first} : fd'[c] = fd[c] /\ rank'[c] = rank[c]
  PROVE  Chain(second, S \ {first})'
<1> DEFINE R == S \ {first}
<1>1. first \in S BY BinFacts DEF Chain
<1>2. \A c \in S : rank[c] \in Nat BY DEF TypeOK
<1>3. \A c \in R : rank[c] < rank[first] BY <1>1, <1>2 DEF Chain
<1>4. \A c \in R : rank[c] # 0 => fd[c] \in R /\ rank[fd[c]] = rank[c] - 1
  BY <1>1, <1>2, <1>3 DEF Chain
<1>5. \A c \in R : (rank[c] = 0 => fd[c] = NIL) /\ \A d \in R \ {c} : rank[d] # rank[c] BY DEF Chain
<1>6. /\ second = NIL => R = {}
      /\ second # NIL => second \in R
      /\ \A c \in R : rank[c] <= rank[second]
  <2>1. CASE rank[first] = 0
    <3>1. R = {} BY <1>2, <1>3, <2>1
    <3>2. second = NIL BY <1>1, <2>1 DEF Chain
    <3> QED BY <3>1, <3>2
  <2>2. CASE rank[first] # 0
    <3>1. second \in S /\ rank[second] = rank[first] - 1 BY <1>1, <2>2 DEF Chain
    <3>2. second \in R BY <1>1, <1>2, <3>1
    <3>3. second # NIL BY <3>1, BinFacts
    <3> QED BY <1>1, <1>2, <1>3, <3>1, <3>2, <3>3
  <2> QED BY <2>1, <2>2
<1>7. \A c \in R : fd'[c] = fd[c] /\ rank'[c] = rank[c] OBVIOUS
<1> HIDE DEF R
<1>8. Chain(second, R)' BY <1>4, <1>5, <1>6, <1>7 DEF Chain
<1> QED BY <1>8 DEF R

\* A chunk in front of a list makes it one longer.
LEMMA ChainPush ==
  ASSUME TypeOK, NEW first \in Links, NEW S \in SUBSET Chunks, Chain(first, S), NEW c \in Chunks, c \notin S,
         fd' = fd, fd[c] = first,
         rank' = [rank EXCEPT ![c] = IF first = NIL THEN 0 ELSE rank[first] + 1]
  PROVE  Chain(c, S \union {c})'
<1> USE BinFacts
<1>1. \A d \in S : rank'[d] = rank[d] /\ rank[d] \in Nat BY DEF TypeOK
<1>2. CASE first = NIL
  <2>1. S = {} BY <1>2 DEF Chain
  <2>2. rank'[c] = 0 BY <1>2 DEF TypeOK
  <2> QED BY <1>2, <2>1, <2>2 DEF Chain
<1>3. CASE first # NIL
  <2>1. first \in S BY <1>3 DEF Chain
  <2>2. rank'[c] = rank[first] + 1 /\ rank[first] \in Nat BY <1>3, <2>1 DEF TypeOK
  <2>3. \A d \in S : rank[d] <= rank[first] BY DEF Chain
  <2>4. \A d \in S \union {c} : rank'[d] <= rank'[c] BY <1>1, <2>2, <2>3
  <2>5. \A d \in S : rank'[d] < rank'[c] BY <1>1, <2>2, <2>3
  <2>6. fd'[c] \in S /\ rank'[fd'[c]] = rank'[c] - 1 /\ rank'[c] # 0 BY <1>1, <2>1, <2>2
  <2>7. \A d \in S : /\ rank'[d] = 0 => fd'[d] = NIL
                     /\ rank'[d] # 0 => fd'[d] \in S /\ rank'[fd'[d]] = rank'[d] - 1
                     /\ \A e \in S \ {d} : rank'[e] # rank'[d]
    BY <1>1 DEF Chain
  <2>8. \A d \in S \union {c} : \A e \in (S \union {c}) \ {d} : rank'[e] # rank'[d]
    BY <1>1, <2>2, <2>5, <2>7
  <2> QED BY <2>4, <2>6, <2>7, <2>8 DEF Chain
<1> QED BY <1>2, <1>3

\* Nothing happens to the chunks in the lists.
LEMMA ListsSame ==
  ASSUME IInv, UNCHANGED fastbins,
         \A c \in Chunks : where[c] \in {"fast", "detached"} =>
                             where'[c] = where[c] /\ fd'[c] = fd[c] /\ rank'[c] = rank[c],
         \A c \in Chunks : where'[c] \in {"fast", "detached"} => where'[c] = where[c],
         \A t \in Threads : At(t, "chunk")' <=> At(t, "chunk"),
         \A t \in Threads : At(t, "chunk") => old'[t] = old[t]
  PROVE  FastbinsLinked'
<1>1. \A i \in Bins : InBin(i)' = InBin(i) BY DEF InBin
<1>2. In("detached")' = In("detached") BY DEF In
<1>3. ASSUME NEW i \in Bins PROVE Chain(fastbins[i], InBin(i))'
  <2>1. Chain(fastbins[i], InBin(i)) BY DEF IInv, FastbinsLinked
  <2>2. \A c \in InBin(i) : fd'[c] = fd[c] /\ rank'[c] = rank[c] BY DEF InBin
  <2>3. \A first, S : first = fastbins[i] /\ S = InBin(i) => Chain(first, S)' BY <2>1, <2>2, ChainSame
  <2> QED BY <1>1, <2>3 DEF Chain
<1>4. ASSUME NEW t \in Threads, At(t, "chunk")' PROVE Chain(old[t], In("detached"))'
  <2>1. Chain(old[t], In("detached")) BY <1>4 DEF IInv, FastbinsLinked
  <2>2. \A c \in In("detached") : fd'[c] = fd[c] /\ rank'[c] = rank[c] BY DEF In
  <2>3. old'[t] = old[t] BY <1>4
  <2> QED BY <1>2, <2>1, <2>2, <2>3 DEF Chain
<1> QED BY <1>2, <1>3, <1>4 DEF IInv, FastbinsLinked

\* What a thread has read from a bin stays true while others leave the lists alone.
LEMMA PopKept ==
  ASSUME IInv, NEW t \in Threads,
         \A u \in Threads \ {t} : pc'[u] = pc[u] /\ old'[u] = old[u] /\ next'[u] = next[u] /\ nb'[u] = nb[u],
         pc'[t] \notin {"fd", "pop"},
         \A c \in Chunks : where[c] = "fast" => where'[c] = "fast" /\ fd'[c] = fd[c]
  PROVE  (\A u \in Threads : PopOK(u))'
<1>1. ASSUME NEW u \in Threads \ {t}, pc[u] \in {"fd", "pop"} PROVE PopOK(u)'
  <2>1. old[u] \in Chunks /\ where[old[u]] = "fast" BY <1>1 DEF IInv, TypeOK, PopOK, Links
  <2> QED BY <1>1, <2>1 DEF IInv, PopOK
<1>2. ASSUME NEW u \in Threads \ {t}, pc[u] \notin {"fd", "pop"} PROVE PopOK(u)'
  BY <1>2 DEF PopOK
<1>3. PopOK(t)' BY DEF PopOK
<1> QED BY <1>1, <1>2, <1>3

-----------------------------------------------------------------------------
\* A thread has the mutex exactly between Lock or Relock and its release.
LEMMA MutexStep == IInv /\ [Next]_vars => MutexOK'
<1> SUFFICES ASSUME IInv, [Next]_vars PROVE MutexOK' OBVIOUS
<1> USE FastAssumption DEF IInv, TypeOK, MutexOK, Locked, Labels, At, Goto, Move, Begin, Return, Room, Exhausted, Consolidated, shared, system, owners, control
<1>1. CASE UNCHANGED vars BY <1>1 DEF vars
<1>2. CASE Stop BY <1>2 DEF Stop, vars
<1>3. ASSUME NEW t \in Threads, Call(t) \/ Step(t) PROVE MutexOK'
  <2>1. CASE MallocCached(t) BY <2>1 DEF MallocCached
  <2>2. CASE Malloc(t) BY <2>2 DEF Malloc
  <2>3. CASE MallocTrim(t) BY <2>3 DEF MallocTrim
  <2>4. CASE Mallopt(t) BY <2>4 DEF Mallopt
  <2>5. CASE FreeCached(t) BY <2>5 DEF FreeCached
  <2>6. CASE Free(t) BY <2>6 DEF Free
  <2>7. CASE ThreadShutdown(t) BY <2>7 DEF ThreadShutdown
  <2>8. CASE FreeNext(t) BY <2>8 DEF FreeNext
  <2>9. CASE Exit(t) BY <2>9 DEF Exit
  <2>10. CASE IsFast(t) BY <2>10 DEF IsFast
  <2>11. CASE CheckNext(t) BY <2>11 DEF CheckNext
  <2>12. CASE Relock(t) BY <2>12 DEF Relock
  <2>13. CASE Recheck(t) BY <2>13 DEF Recheck
  <2>14. CASE Mark(t) BY <2>14 DEF Mark
  <2>15. CASE ReadHead(t) BY <2>15 DEF ReadHead
  <2>16. CASE Link(t) BY <2>16 DEF Link
  <2>17. CASE Push(t) BY <2>17 DEF Push
  <2>18. CASE PushAgain(t) BY <2>18 DEF PushAgain
  <2>19. CASE Merge(t) BY <2>19 DEF Merge
  <2>20. CASE Lock(t) BY <2>20 DEF Lock
  <2>21. CASE Head(t) BY <2>21 DEF Head
  <2>22. CASE ReadFd(t) BY <2>22 DEF ReadFd
  <2>23. CASE Pop(t) BY <2>23 DEF Pop
  <2>24. CASE PopAgain(t) BY <2>24 DEF PopAgain
  <2>25. CASE TakeBinned(t) BY <2>25 DEF TakeBinned
  <2>26. CASE ConsolidateAndRetry(t) BY <2>26 DEF ConsolidateAndRetry
  <2>27. CASE Fail(t) BY <2>27 DEF Fail
  <2>28. CASE Exchange(t) BY <2>28 DEF Exchange
  <2>29. CASE MergeNext(t) BY <2>29 DEF MergeNext
  <2>30. CASE NextBin(t) BY <2>30 DEF NextBin, ControlOK
  <2>31. CASE LowerSystemMem(t) BY <2>31 DEF LowerSystemMem
  <2>32. CASE SetTop(t) BY <2>32 DEF SetTop
  <2>33. CASE set_max_fast(t) BY <2>33 DEF set_max_fast
  <2>34. CASE Unlock(t) BY <2>34 DEF Unlock
  <2> QED BY <1>3, <2>1, <2>2, <2>3, <2>4, <2>5, <2>6, <2>7, <2>8, <2>9, <2>10, <2>11, <2>12, <2>13, <2>14, <2>15, <2>16, <2>17, <2>18, <2>19, <2>20, <2>21, <2>22, <2>23, <2>24, <2>25, <2>26, <2>27, <2>28, <2>29, <2>30, <2>31, <2>32, <2>33, <2>34 DEF Call, Step
<1> QED BY <1>1, <1>2, <1>3 DEF Next

\* top is smaller than system_mem, except between the two stores of systrim.
LEMMA SystemStep == IInv /\ [Next]_vars => SystemOK'
<1> SUFFICES ASSUME IInv, [Next]_vars PROVE SystemOK' OBVIOUS
<1> USE FastAssumption DEF IInv, TypeOK, MutexOK, SystemOK, Locked, Labels, At, Goto, Move, Begin, Return, Room, Exhausted, Consolidated, shared, system, owners, control
<1>1. CASE UNCHANGED vars BY <1>1 DEF vars
<1>2. CASE Stop BY <1>2 DEF Stop, vars
<1>3. ASSUME NEW t \in Threads, Call(t) \/ Step(t) PROVE SystemOK'
  <2>1. CASE MallocCached(t) BY <2>1 DEF MallocCached
  <2>2. CASE Malloc(t) BY <2>2 DEF Malloc
  <2>3. CASE MallocTrim(t) BY <2>3 DEF MallocTrim
  <2>4. CASE Mallopt(t) BY <2>4 DEF Mallopt
  <2>5. CASE FreeCached(t) BY <2>5 DEF FreeCached
  <2>6. CASE Free(t) BY <2>6 DEF Free
  <2>7. CASE ThreadShutdown(t) BY <2>7 DEF ThreadShutdown
  <2>8. CASE FreeNext(t) BY <2>8 DEF FreeNext
  <2>9. CASE Exit(t) BY <2>9 DEF Exit
  <2>10. CASE IsFast(t) BY <2>10 DEF IsFast
  <2>11. CASE CheckNext(t) BY <2>11 DEF CheckNext
  <2>12. CASE Relock(t) BY <2>12 DEF Relock
  <2>13. CASE Recheck(t) BY <2>13 DEF Recheck
  <2>14. CASE Mark(t) BY <2>14 DEF Mark
  <2>15. CASE ReadHead(t) BY <2>15 DEF ReadHead
  <2>16. CASE Link(t) BY <2>16 DEF Link
  <2>17. CASE Push(t) BY <2>17 DEF Push
  <2>18. CASE PushAgain(t) BY <2>18 DEF PushAgain
  <2>19. CASE Merge(t) BY <2>19 DEF Merge
  <2>20. CASE Lock(t) BY <2>20 DEF Lock
  <2>21. CASE Head(t) BY <2>21 DEF Head
  <2>22. CASE ReadFd(t) BY <2>22 DEF ReadFd
  <2>23. CASE Pop(t) BY <2>23 DEF Pop
  <2>24. CASE PopAgain(t) BY <2>24 DEF PopAgain
  <2>25. CASE TakeBinned(t) BY <2>25 DEF TakeBinned
  <2>26. CASE ConsolidateAndRetry(t) BY <2>26 DEF ConsolidateAndRetry
  <2>27. CASE Fail(t) BY <2>27 DEF Fail
  <2>28. CASE Exchange(t) BY <2>28 DEF Exchange
  <2>29. CASE MergeNext(t) BY <2>29 DEF MergeNext
  <2>30. CASE NextBin(t) BY <2>30 DEF NextBin
  <2>31. CASE LowerSystemMem(t) BY <2>31 DEF LowerSystemMem
  <2>32. CASE SetTop(t) BY <2>32 DEF SetTop
  <2>33. CASE set_max_fast(t) BY <2>33 DEF set_max_fast
  <2>34. CASE Unlock(t) BY <2>34 DEF Unlock
  <2> QED BY <1>3, <2>1, <2>2, <2>3, <2>4, <2>5, <2>6, <2>7, <2>8, <2>9, <2>10, <2>11, <2>12, <2>13, <2>14, <2>15, <2>16, <2>17, <2>18, <2>19, <2>20, <2>21, <2>22, <2>23, <2>24, <2>25, <2>26, <2>27, <2>28, <2>29, <2>30, <2>31, <2>32, <2>33, <2>34 DEF Call, Step
<1> QED BY <1>1, <1>2, <1>3 DEF Next

\* What a thread needs the mutex for, and whether it holds a chunk, follow from
\* where it is.
LEMMA ControlStep == IInv /\ [Next]_vars => (\A u \in Threads : ControlOK(u))'
<1> SUFFICES ASSUME IInv, [Next]_vars PROVE (\A u \in Threads : ControlOK(u))' OBVIOUS
<1> USE FastAssumption DEF IInv, TypeOK, ControlOK, Freeing, Pushing, Empty, ForFree, Bins, Links, Labels, Ops, At, Goto, Move, Begin, Return, Room, Exhausted, Consolidated, shared, system, owners, control
<1>1. CASE UNCHANGED vars BY <1>1 DEF vars
<1>2. CASE Stop BY <1>2 DEF Stop, vars
<1>3. ASSUME NEW t \in Threads, Call(t) \/ Step(t) PROVE (\A u \in Threads : ControlOK(u))'
  <2>1. CASE MallocCached(t) BY <2>1 DEF MallocCached
  <2>2. CASE Malloc(t) BY <2>2 DEF Malloc
  <2>3. CASE MallocTrim(t) BY <2>3 DEF MallocTrim
  <2>4. CASE Mallopt(t) BY <2>4 DEF Mallopt
  <2>5. CASE FreeCached(t) BY <2>5 DEF FreeCached
  <2>6. CASE Free(t) BY <2>6 DEF Free
  <2>7. CASE ThreadShutdown(t) BY <2>7 DEF ThreadShutdown
  <2>8. CASE FreeNext(t) BY <2>8 DEF FreeNext
  <2>9. CASE Exit(t) BY <2>9 DEF Exit
  <2>10. CASE IsFast(t) BY <2>10 DEF IsFast
  <2>11. CASE CheckNext(t) BY <2>11 DEF CheckNext
  <2>12. CASE Relock(t) BY <2>12 DEF Relock
  <2>13. CASE Recheck(t) BY <2>13 DEF Recheck
  <2>14. CASE Mark(t) BY <2>14 DEF Mark
  <2>15. CASE ReadHead(t) BY <2>15 DEF ReadHead
  <2>16. CASE Link(t) BY <2>16 DEF Link
  <2>17. CASE Push(t) BY <2>17 DEF Push
  <2>18. CASE PushAgain(t) BY <2>18 DEF PushAgain
  <2>19. CASE Merge(t) BY <2>19 DEF Merge
  <2>20. CASE Lock(t) BY <2>20 DEF Lock
  <2>21. CASE Head(t) BY <2>21 DEF Head
  <2>22. CASE ReadFd(t) BY <2>22 DEF ReadFd
  <2>23. CASE Pop(t) BY <2>23 DEF Pop
  <2>24. CASE PopAgain(t) BY <2>24 DEF PopAgain
  <2>25. CASE TakeBinned(t) BY <2>25 DEF TakeBinned
  <2>26. CASE ConsolidateAndRetry(t) BY <2>26 DEF ConsolidateAndRetry
  <2>27. CASE Fail(t) BY <2>27 DEF Fail
  <2>28. CASE Exchange(t) BY <2>28 DEF Exchange
  <2>29. CASE MergeNext(t) BY <2>29 DEF MergeNext
  <2>30. CASE NextBin(t) BY <2>30 DEF NextBin
  <2>31. CASE LowerSystemMem(t) BY <2>31 DEF LowerSystemMem
  <2>32. CASE SetTop(t) BY <2>32 DEF SetTop
  <2>33. CASE set_max_fast(t) BY <2>33 DEF set_max_fast
  <2>34. CASE Unlock(t) BY <2>34 DEF Unlock
  <2> QED BY <1>3, <2>1, <2>2, <2>3, <2>4, <2>5, <2>6, <2>7, <2>8, <2>9, <2>10, <2>11, <2>12, <2>13, <2>14, <2>15, <2>16, <2>17, <2>18, <2>19, <2>20, <2>21, <2>22, <2>23, <2>24, <2>25, <2>26, <2>27, <2>28, <2>29, <2>30, <2>31, <2>32, <2>33, <2>34 DEF Call, Step
<1> QED BY <1>1, <1>2, <1>3 DEF Next

\* Every step keeps the types.
LEMMA TypeStep == IInv /\ [Next]_vars => TypeOK'
<1> SUFFICES ASSUME IInv, [Next]_vars PROVE TypeOK' OBVIOUS
<1> USE FastAssumption DEF IInv, TypeOK, Labels, Ops, Links, Places, At, Goto, Move, Begin, Return, Room, Exhausted, Consolidated, shared, system, owners, control
<1>1. CASE UNCHANGED vars BY <1>1 DEF vars
<1>2. CASE Stop BY <1>2 DEF Stop, vars
<1>3. ASSUME NEW t \in Threads, Call(t) \/ Step(t) PROVE TypeOK'
  <2>1. CASE MallocCached(t) BY <2>1, BinFacts DEF MallocCached
  <2>2. CASE Malloc(t) BY <2>2, BinFacts DEF Malloc
  <2>3. CASE MallocTrim(t) BY <2>3, BinFacts DEF MallocTrim
  <2>4. CASE Mallopt(t) BY <2>4, BinFacts DEF Mallopt
  <2>5. CASE FreeCached(t) BY <2>5, BinFacts DEF FreeCached
  <2>6. CASE Free(t) BY <2>6, BinFacts DEF Free
  <2>7. CASE ThreadShutdown(t) BY <2>7, BinFacts DEF ThreadShutdown
  <2>8. CASE FreeNext(t) BY <2>8, BinFacts DEF FreeNext
  <2>9. CASE Exit(t) BY <2>9, BinFacts DEF Exit
  <2>10. CASE IsFast(t)
    <3>1. p[t] \in Chunks /\ where[p[t]] = "hand" BY <2>10, FreeingHas DEF IsFast, Freeing
    <3> QED BY <2>10, <3>1, BinFacts DEF IsFast
  <2>11. CASE CheckNext(t) BY <2>11, BinFacts DEF CheckNext
  <2>12. CASE Relock(t) BY <2>12, BinFacts DEF Relock
  <2>13. CASE Recheck(t) BY <2>13, BinFacts DEF Recheck
  <2>14. CASE Mark(t) BY <2>14, BinFacts DEF Mark
  <2>15. CASE ReadHead(t) BY <2>15, BinFacts DEF ReadHead
  <2>16. CASE Link(t) BY <2>16, BinFacts DEF Link
  <2>17. CASE Push(t)
    <3>1. p[t] \in Chunks /\ where[p[t]] = "hand" BY <2>17, FreeingHas DEF Push, Freeing
    <3> QED BY <2>17, <3>1, BinFacts DEF Push
  <2>18. CASE PushAgain(t) BY <2>18, BinFacts DEF PushAgain
  <2>19. CASE Merge(t)
    <3>1. p[t] \in Chunks /\ where[p[t]] = "hand" BY <2>19, FreeingHas DEF Merge, Freeing
    <3> QED BY <2>19, <3>1, BinFacts DEF Merge
  <2>20. CASE Lock(t)
    <3>1. CASE op[t] \in {"trim", "mallopt"}
      <4>1. pc' = [pc EXCEPT ![t] = "exchange"] /\ idx' = [idx EXCEPT ![t] = 0] /\ have_fastchunks' = FALSE /\ mutex' = t BY <2>20, <3>1 DEF Lock
      <4> QED BY <2>20, <4>1, BinFacts DEF Lock
    <3>2. CASE op[t] \notin {"trim", "mallopt"} BY <2>20, <3>2, BinFacts DEF Lock
    <3> QED BY <3>1, <3>2
  <2>21. CASE Head(t) BY <2>21, BinFacts DEF Head
  <2>22. CASE ReadFd(t)
    <3>1. old[t] \in Chunks /\ where[old[t]] = "fast" BY <2>22 DEF ReadFd, PopOK, Links
    <3>2. fd[old[t]] \in Links BY <3>1, FastNext DEF InBin, Links
    <3> QED BY <2>22, <3>2 DEF ReadFd
  <2>23. CASE Pop(t)
    <3>1. old[t] \in Chunks /\ where[old[t]] = "fast" BY <2>23 DEF Pop, PopOK, Links
    <3> QED BY <2>23, <3>1, BinFacts DEF Pop
  <2>24. CASE PopAgain(t) BY <2>24, BinFacts DEF PopAgain
  <2>25. CASE TakeBinned(t) BY <2>25, BinFacts DEF TakeBinned
  <2>26. CASE ConsolidateAndRetry(t) BY <2>26, BinFacts DEF ConsolidateAndRetry
  <2>27. CASE Fail(t) BY <2>27, BinFacts DEF Fail
  <2>28. CASE Exchange(t) BY <2>28, BinFacts DEF Exchange
  <2>29. CASE MergeNext(t)
    <3>1. old[t] \in Chunks /\ where[old[t]] = "detached" /\ fd[old[t]] \in Links
      BY <2>29, DetachedNext DEF MergeNext, In, Links
    <3> QED BY <2>29, <3>1 DEF MergeNext
  <2>30. CASE NextBin(t)
    <3>1. Consolidated(t) \in Labels BY <2>30 DEF NextBin, ControlOK
    <3> QED BY <2>30, <3>1, BinFacts DEF NextBin
  <2>31. CASE LowerSystemMem(t) BY <2>31, BinFacts DEF LowerSystemMem
  <2>32. CASE SetTop(t) BY <2>32, BinFacts DEF SetTop
  <2>33. CASE set_max_fast(t) BY <2>33, BinFacts DEF set_max_fast
  <2>34. CASE Unlock(t) BY <2>34, BinFacts DEF Unlock
  <2> QED BY <1>3, <2>1, <2>2, <2>3, <2>4, <2>5, <2>6, <2>7, <2>8, <2>9, <2>10, <2>11, <2>12, <2>13, <2>14, <2>15, <2>16, <2>17, <2>18, <2>19, <2>20, <2>21, <2>22, <2>23, <2>24, <2>25, <2>26, <2>27, <2>28, <2>29, <2>30, <2>31, <2>32, <2>33, <2>34 DEF Call, Step
<1> QED BY <1>1, <1>2, <1>3 DEF Next

\* A chunk that leaves one place goes to one other.
LEMMA OwnersStep == IInv /\ [Next]_vars => OwnersOK'
<1> SUFFICES ASSUME IInv, [Next]_vars PROVE OwnersOK' OBVIOUS
<1> USE DEF At, Goto, Move, Begin, Return, Room, Exhausted, Consolidated, shared, system, owners, control
<1>1. CASE UNCHANGED vars BY <1>1 DEF vars, IInv, TypeOK, OwnersOK
<1>2. CASE Stop BY <1>2 DEF Stop, vars, IInv, TypeOK, OwnersOK
<1>3. ASSUME NEW t \in Threads, Call(t) \/ Step(t) PROVE OwnersOK'
  <2>1. CASE MallocCached(t) BY <2>1 DEF MallocCached, IInv, TypeOK, OwnersOK
  <2>2. CASE Malloc(t) BY <2>2 DEF Malloc, IInv, TypeOK, OwnersOK
  <2>3. CASE MallocTrim(t) BY <2>3 DEF MallocTrim, IInv, TypeOK, OwnersOK
  <2>4. CASE Mallopt(t) BY <2>4 DEF Mallopt, IInv, TypeOK, OwnersOK
  <2>5. CASE FreeCached(t) BY <2>5 DEF FreeCached, IInv, TypeOK, OwnersOK
  <2>6. CASE Free(t)
    <3>1. PICK c \in Chunks : /\ p' = [p EXCEPT ![t] = c] /\ where' = [where EXCEPT ![c] = "hand"]
                              /\ c \in user /\ user' = user \ {c}
      BY <2>6 DEF Free, IInv, TypeOK
    <3>2. p[t] = NIL BY <2>6 DEF Free, IInv, ControlOK, Empty
    <3>3. where[c] = "user" BY <3>1 DEF IInv, OwnersOK
    <3>4. /\ \A d \in Chunks : where'[d] = "hand" <=> \E u \in Threads : p'[u] = d
          /\ \A u, v \in Threads : u # v /\ p'[u] = p'[v] => p'[u] = NIL
      BY <3>1, <3>2, <3>3, IntoHand
    <3>5. UNCHANGED <<arena, tcache>> BY <2>6 DEF Free
    <3> QED BY <3>1, <3>3, <3>4, <3>5 DEF IInv, TypeOK, OwnersOK
  <2>7. CASE ThreadShutdown(t) BY <2>7 DEF ThreadShutdown, IInv, TypeOK, OwnersOK
  <2>8. CASE FreeNext(t)
    <3>1. PICK c \in Chunks : /\ p' = [p EXCEPT ![t] = c] /\ where' = [where EXCEPT ![c] = "hand"]
                              /\ c \in tcache[t] /\ \A u \in Threads : tcache'[u] = IF u = t THEN tcache[t] \ {c} ELSE tcache[u]
      BY <2>8 DEF FreeNext, IInv, TypeOK
    <3>2. p[t] = NIL BY <2>8 DEF FreeNext, IInv, ControlOK, Empty
    <3>3. where[c] = "tcache" BY <3>1 DEF IInv, OwnersOK
    <3>4. /\ \A d \in Chunks : where'[d] = "hand" <=> \E u \in Threads : p'[u] = d
          /\ \A u, v \in Threads : u # v /\ p'[u] = p'[v] => p'[u] = NIL
      BY <3>1, <3>2, <3>3, IntoHand
    <3>5. UNCHANGED <<arena, user>> BY <2>8 DEF FreeNext
    <3> QED BY <3>1, <3>3, <3>4, <3>5 DEF IInv, TypeOK, OwnersOK
  <2>9. CASE Exit(t) BY <2>9 DEF Exit, IInv, TypeOK, OwnersOK
  <2>10. CASE IsFast(t) BY <2>10 DEF IsFast, IInv, TypeOK, OwnersOK
  <2>11. CASE CheckNext(t) BY <2>11 DEF CheckNext, IInv, TypeOK, OwnersOK
  <2>12. CASE Relock(t) BY <2>12 DEF Relock, IInv, TypeOK, OwnersOK
  <2>13. CASE Recheck(t) BY <2>13 DEF Recheck, IInv, TypeOK, OwnersOK
  <2>14. CASE Mark(t) BY <2>14 DEF Mark, IInv, TypeOK, OwnersOK
  <2>15. CASE ReadHead(t) BY <2>15 DEF ReadHead, IInv, TypeOK, OwnersOK
  <2>16. CASE Link(t) BY <2>16 DEF Link, IInv, TypeOK, OwnersOK
  <2>17. CASE Push(t)
    <3>1. p[t] \in Chunks /\ where[p[t]] = "hand" BY <2>17, FreeingHas DEF Push, Freeing
    <3>2. /\ p' = [p EXCEPT ![t] = NIL] /\ where' = [where EXCEPT ![p[t]] = "fast"]
          /\ UNCHANGED <<user, arena, tcache>>
      BY <2>17, <3>1, BinFacts DEF Push
    <3>3. /\ \A d \in Chunks : where'[d] = "hand" <=> \E u \in Threads : p'[u] = d
          /\ \A u, v \in Threads : u # v /\ p'[u] = p'[v] => p'[u] = NIL
      BY <3>1, <3>2, OutOfHand
    <3> QED BY <3>1, <3>2, <3>3 DEF IInv, TypeOK, OwnersOK
  <2>18. CASE PushAgain(t) BY <2>18 DEF PushAgain, IInv, TypeOK, OwnersOK
  <2>19. CASE Merge(t)
    <3>1. p[t] \in Chunks /\ where[p[t]] = "hand" BY <2>19, FreeingHas DEF Merge, Freeing
    <3>2. /\ p' = [p EXCEPT ![t] = NIL] /\ where' = [where EXCEPT ![p[t]] = "arena"]
          /\ arena' = arena \union {p[t]} /\ UNCHANGED <<user, tcache>>
      BY <2>19, <3>1, BinFacts DEF Merge
    <3>3. /\ \A d \in Chunks : where'[d] = "hand" <=> \E u \in Threads : p'[u] = d
          /\ \A u, v \in Threads : u # v /\ p'[u] = p'[v] => p'[u] = NIL
      BY <3>1, <3>2, OutOfHand
    <3> QED BY <3>1, <3>2, <3>3 DEF IInv, TypeOK, OwnersOK
  <2>20. CASE Lock(t) BY <2>20 DEF Lock, IInv, TypeOK, OwnersOK
  <2>21. CASE Head(t) BY <2>21 DEF Head, IInv, TypeOK, OwnersOK
  <2>22. CASE ReadFd(t) BY <2>22 DEF ReadFd, IInv, TypeOK, OwnersOK
  <2>23. CASE Pop(t)
    <3>1. old[t] \in Chunks /\ where[old[t]] = "fast" BY <2>23 DEF Pop, IInv, TypeOK, PopOK, Links
    <3>2. CASE p[t] = NIL
      <4>1. p' = [p EXCEPT ![t] = old[t]] /\ where' = [where EXCEPT ![old[t]] = "hand"]
        BY <2>23, <3>2 DEF Pop
      <4>2. /\ \A d \in Chunks : where'[d] = "hand" <=> \E u \in Threads : p'[u] = d
            /\ \A u, v \in Threads : u # v /\ p'[u] = p'[v] => p'[u] = NIL
        BY <3>1, <3>2, <4>1, IntoHand
      <4>3. UNCHANGED <<user, arena, tcache>> BY <2>23, <3>2 DEF Pop
      <4> QED BY <3>1, <4>1, <4>2, <4>3 DEF IInv, TypeOK, OwnersOK
    <3>3. CASE p[t] # NIL
      <4>1. /\ \A u \in Threads : tcache'[u] = IF u = t THEN tcache[t] \union {old[t]} ELSE tcache[u]
            /\ where' = [where EXCEPT ![old[t]] = "tcache"]
        BY <2>23, <3>3 DEF Pop, IInv, TypeOK
      <4>2. UNCHANGED <<user, arena, p>> BY <2>23, <3>3 DEF Pop
      <4>3. \A u \in Threads : old[t] \notin tcache[u] BY <3>1 DEF IInv, OwnersOK
      <4>4. ASSUME NEW d \in Chunks PROVE where'[d] = "tcache" <=> \E u \in Threads : d \in tcache'[u]
        <5>1. CASE d = old[t] BY <4>1, <5>1 DEF IInv, TypeOK
        <5>2. CASE d # old[t]
          <6>1. where'[d] = where[d] BY <4>1, <5>2 DEF IInv, TypeOK
          <6>2. \A u \in Threads : d \in tcache'[u] <=> d \in tcache[u] BY <4>1, <5>2
          <6> QED BY <6>1, <6>2 DEF IInv, OwnersOK
        <5> QED BY <5>1, <5>2
      <4>5. \A u, v \in Threads : u # v => \A c \in tcache'[u] : c \notin tcache'[v]
        BY <4>1, <4>3 DEF IInv, OwnersOK
      <4>6. \A d \in Chunks : d # old[t] => where'[d] = where[d] BY <4>1 DEF IInv, TypeOK
      <4> QED BY <3>1, <4>1, <4>2, <4>4, <4>5, <4>6 DEF IInv, TypeOK, OwnersOK
    <3> QED BY <3>2, <3>3
  <2>24. CASE PopAgain(t) BY <2>24 DEF PopAgain, IInv, TypeOK, OwnersOK
  <2>25. CASE TakeBinned(t)
    <3>1. PICK c \in Chunks : /\ p' = [p EXCEPT ![t] = c] /\ where' = [where EXCEPT ![c] = "hand"]
                              /\ c \in arena /\ arena' = arena \ {c}
      BY <2>25 DEF TakeBinned, IInv, TypeOK
    <3>2. p[t] = NIL BY <2>25 DEF TakeBinned, IInv, ControlOK, Empty
    <3>3. where[c] = "arena" BY <3>1 DEF IInv, OwnersOK
    <3>4. /\ \A d \in Chunks : where'[d] = "hand" <=> \E u \in Threads : p'[u] = d
          /\ \A u, v \in Threads : u # v /\ p'[u] = p'[v] => p'[u] = NIL
      BY <3>1, <3>2, <3>3, IntoHand
    <3>5. UNCHANGED <<tcache, user>> BY <2>25 DEF TakeBinned
    <3> QED BY <3>1, <3>3, <3>4, <3>5 DEF IInv, TypeOK, OwnersOK
  <2>26. CASE ConsolidateAndRetry(t) BY <2>26 DEF ConsolidateAndRetry, IInv, TypeOK, OwnersOK
  <2>27. CASE Fail(t) BY <2>27 DEF Fail, IInv, TypeOK, OwnersOK
  <2>28. CASE Exchange(t) BY <2>28 DEF Exchange, IInv, TypeOK, OwnersOK
  <2>29. CASE MergeNext(t)
    <3>1. old[t] \in Chunks /\ where[old[t]] = "detached" /\ fd[old[t]] \in Links
      BY <2>29, DetachedNext DEF MergeNext, In, Links
    <3> QED BY <2>29, <3>1 DEF MergeNext, IInv, TypeOK, OwnersOK
  <2>30. CASE NextBin(t) BY <2>30 DEF NextBin, IInv, TypeOK, OwnersOK
  <2>31. CASE LowerSystemMem(t) BY <2>31 DEF LowerSystemMem, IInv, TypeOK, OwnersOK
  <2>32. CASE SetTop(t) BY <2>32 DEF SetTop, IInv, TypeOK, OwnersOK
  <2>33. CASE set_max_fast(t) BY <2>33 DEF set_max_fast, IInv, TypeOK, OwnersOK
  <2>34. CASE Unlock(t)
    <3>1. CASE p[t] = NIL
      <4>1. UNCHANGED <<user, arena, tcache, where, p>> BY <2>34, <3>1 DEF Unlock, IInv, TypeOK
      <4> QED BY <4>1 DEF IInv, OwnersOK
    <3>2. CASE p[t] # NIL
      <4>1. p[t] \in Chunks /\ where[p[t]] = "hand" BY <3>2 DEF IInv, TypeOK, Links, OwnersOK
      <4>2. /\ p' = [p EXCEPT ![t] = NIL] /\ where' = [where EXCEPT ![p[t]] = "user"]
            /\ user' = user \union {p[t]} /\ UNCHANGED <<arena, tcache>>
        BY <2>34, <3>2 DEF Unlock
      <4>3. /\ \A d \in Chunks : where'[d] = "hand" <=> \E u \in Threads : p'[u] = d
            /\ \A u, v \in Threads : u # v /\ p'[u] = p'[v] => p'[u] = NIL
        BY <4>1, <4>2, OutOfHand
      <4> QED BY <4>1, <4>2, <4>3 DEF IInv, TypeOK, OwnersOK
    <3> QED BY <3>1, <3>2
  <2> QED BY <1>3, <2>1, <2>2, <2>3, <2>4, <2>5, <2>6, <2>7, <2>8, <2>9, <2>10, <2>11, <2>12, <2>13, <2>14, <2>15, <2>16, <2>17, <2>18, <2>19, <2>20, <2>21, <2>22, <2>23, <2>24, <2>25, <2>26, <2>27, <2>28, <2>29, <2>30, <2>31, <2>32, <2>33, <2>34 DEF Call, Step
<1> QED BY <1>1, <1>2, <1>3 DEF Next

\* A thread about to push has linked its chunk to what it will compare with.
LEMMA PushStep == IInv /\ [Next]_vars => (\A u \in Threads : PushOK(u))'
<1> SUFFICES ASSUME IInv, [Next]_vars PROVE (\A u \in Threads : PushOK(u))' OBVIOUS
<1> USE DEF At, Goto, Move, Begin, Return, Room, Exhausted, Consolidated, shared, system, owners, control
<1>1. CASE UNCHANGED vars BY <1>1 DEF vars, IInv, TypeOK, PushOK
<1>2. CASE Stop BY <1>2 DEF Stop, vars, IInv, TypeOK, PushOK
<1>3. ASSUME NEW t \in Threads, Call(t) \/ Step(t) PROVE (\A u \in Threads : PushOK(u))'
  <2>1. CASE MallocCached(t) BY <2>1 DEF MallocCached, IInv, TypeOK, PushOK
  <2>2. CASE Malloc(t) BY <2>2 DEF Malloc, IInv, TypeOK, PushOK
  <2>3. CASE MallocTrim(t) BY <2>3 DEF MallocTrim, IInv, TypeOK, PushOK
  <2>4. CASE Mallopt(t) BY <2>4 DEF Mallopt, IInv, TypeOK, PushOK
  <2>5. CASE FreeCached(t) BY <2>5 DEF FreeCached, IInv, TypeOK, PushOK
  <2>6. CASE Free(t) BY <2>6 DEF Free, IInv, TypeOK, PushOK
  <2>7. CASE ThreadShutdown(t) BY <2>7 DEF ThreadShutdown, IInv, TypeOK, PushOK
  <2>8. CASE FreeNext(t) BY <2>8 DEF FreeNext, IInv, TypeOK, PushOK
  <2>9. CASE Exit(t) BY <2>9 DEF Exit, IInv, TypeOK, PushOK
  <2>10. CASE IsFast(t) BY <2>10 DEF IsFast, IInv, TypeOK, PushOK
  <2>11. CASE CheckNext(t) BY <2>11 DEF CheckNext, IInv, TypeOK, PushOK
  <2>12. CASE Relock(t) BY <2>12 DEF Relock, IInv, TypeOK, PushOK
  <2>13. CASE Recheck(t) BY <2>13 DEF Recheck, IInv, TypeOK, PushOK
  <2>14. CASE Mark(t) BY <2>14 DEF Mark, IInv, TypeOK, PushOK
  <2>15. CASE ReadHead(t)
    <3>1. p[t] \in Chunks /\ where[p[t]] = "hand" BY <2>15, FreeingHas DEF ReadHead, Freeing
    <3>2. fastbins[nb[t]] # p[t]
      <4>1. nb[t] \in Bins BY DEF IInv, TypeOK
      <4>2. CASE fastbins[nb[t]] = NIL BY <3>1, <4>2, BinFacts
      <4>3. CASE fastbins[nb[t]] # NIL BY <3>1, <4>1, <4>3, HeadIsFast
      <4> QED BY <4>2, <4>3
    <3>3. /\ old' = [old EXCEPT ![t] = fastbins[nb[t]]] /\ pc' = [pc EXCEPT ![t] = "link"]
          /\ UNCHANGED <<p, fd>>
      BY <2>15 DEF ReadHead
    <3> QED BY <3>2, <3>3 DEF PushOK, IInv, TypeOK
  <2>16. CASE Link(t)
    <3>1. /\ fd' = [fd EXCEPT ![p[t]] = old[t]] /\ UNCHANGED <<p, old>>
          /\ pc[t] = "link" /\ \A u \in Threads \ {t} : pc'[u] = pc[u]
      BY <2>16 DEF Link
    <3>2. old[t] # p[t] BY <3>1 DEF IInv, PushOK
    <3>3. p[t] \in Chunks BY <3>1, FreeingHas DEF Freeing
    <3>4. fd'[p[t]] = old[t] BY <3>1, <3>3 DEF IInv, TypeOK
    <3>5. ASSUME NEW u \in Threads \ {t} PROVE PushOK(u)'
      <4>1. CASE pc[u] = "push"
        <5>1. p[u] \in Chunks BY <4>1, FreeingHas DEF Freeing
        <5>2. p[u] # p[t] BY <3>3, BinFacts DEF IInv, OwnersOK
        <5>3. fd'[p[u]] = fd[p[u]] BY <3>1, <5>1, <5>2 DEF IInv, TypeOK
        <5> QED BY <3>1, <5>3 DEF IInv, PushOK
      <4>2. CASE pc[u] # "push" BY <3>1, <4>2 DEF IInv, PushOK
      <4> QED BY <4>1, <4>2
    <3>6. PushOK(t)' BY <3>1, <3>2, <3>4 DEF PushOK
    <3> QED BY <3>5, <3>6
  <2>17. CASE Push(t) BY <2>17 DEF Push, IInv, TypeOK, PushOK
  <2>18. CASE PushAgain(t)
    <3>1. p[t] \in Chunks /\ where[p[t]] = "hand" BY <2>18, FreeingHas DEF PushAgain, Freeing
    <3>2. fastbins[nb[t]] # p[t]
      <4>1. nb[t] \in Bins BY DEF IInv, TypeOK
      <4>2. CASE fastbins[nb[t]] = NIL BY <3>1, <4>2, BinFacts
      <4>3. CASE fastbins[nb[t]] # NIL BY <3>1, <4>1, <4>3, HeadIsFast
      <4> QED BY <4>2, <4>3
    <3>3. /\ old' = [old EXCEPT ![t] = fastbins[nb[t]]] /\ pc' = [pc EXCEPT ![t] = "link"]
          /\ UNCHANGED <<p, fd>>
      BY <2>18 DEF PushAgain
    <3> QED BY <3>2, <3>3 DEF PushOK, IInv, TypeOK
  <2>19. CASE Merge(t) BY <2>19 DEF Merge, IInv, TypeOK, PushOK
  <2>20. CASE Lock(t) BY <2>20 DEF Lock, IInv, TypeOK, PushOK
  <2>21. CASE Head(t) BY <2>21 DEF Head, IInv, TypeOK, PushOK
  <2>22. CASE ReadFd(t) BY <2>22 DEF ReadFd, IInv, TypeOK, PushOK
  <2>23. CASE Pop(t)
    <3>1. /\ fd' = [fd EXCEPT ![old[t]] = JUNK] /\ \A u \in Threads \ {t} : pc'[u] = pc[u] /\ old'[u] = old[u]
          /\ pc[t] = "pop" /\ pc'[t] \notin {"link", "push"}
      BY <2>23 DEF Pop, IInv, TypeOK
    <3>2. old[t] \in Chunks /\ where[old[t]] = "fast" BY <2>23, <3>1 DEF Pop, IInv, TypeOK, PopOK, Links
    <3>3. \A u \in Threads : pc[u] = "push" => p'[u] = p[u] /\ fd'[p[u]] = fd[p[u]]
      <4>1. \A u \in Threads : pc[u] = "push" => u # t BY <3>1
      <4>2. \A u \in Threads \ {t} : p'[u] = p[u] BY <2>23 DEF Pop, IInv, TypeOK
      <4>3. \A u \in Threads : pc[u] = "push" => p[u] \in Chunks /\ where[p[u]] = "hand" BY FreeingHas DEF Freeing
      <4> QED BY <3>1, <3>2, <4>1, <4>2, <4>3 DEF IInv, TypeOK
    <3>4. \A u \in Threads \ {t} : p'[u] = p[u] BY <2>23 DEF Pop, IInv, TypeOK
    <3> QED BY <3>1, <3>3, <3>4 DEF IInv, PushOK
  <2>24. CASE PopAgain(t) BY <2>24 DEF PopAgain, IInv, TypeOK, PushOK
  <2>25. CASE TakeBinned(t) BY <2>25 DEF TakeBinned, IInv, TypeOK, PushOK
  <2>26. CASE ConsolidateAndRetry(t) BY <2>26 DEF ConsolidateAndRetry, IInv, TypeOK, PushOK
  <2>27. CASE Fail(t) BY <2>27 DEF Fail, IInv, TypeOK, PushOK
  <2>28. CASE Exchange(t) BY <2>28 DEF Exchange, IInv, TypeOK, PushOK
  <2>29. CASE MergeNext(t)
    <3>1. /\ fd' = [fd EXCEPT ![old[t]] = JUNK] /\ \A u \in Threads \ {t} : pc'[u] = pc[u] /\ old'[u] = old[u]
          /\ pc[t] = "chunk" /\ pc'[t] \notin {"link", "push"}
      BY <2>29 DEF MergeNext, IInv, TypeOK
    <3>2. old[t] \in Chunks /\ where[old[t]] = "detached" BY <2>29, <3>1, DetachedNext DEF MergeNext, IInv, TypeOK, PopOK, Links
    <3>3. \A u \in Threads : pc[u] = "push" => p'[u] = p[u] /\ fd'[p[u]] = fd[p[u]]
      <4>1. \A u \in Threads : pc[u] = "push" => u # t BY <3>1
      <4>2. \A u \in Threads \ {t} : p'[u] = p[u] BY <2>29 DEF MergeNext, IInv, TypeOK
      <4>3. \A u \in Threads : pc[u] = "push" => p[u] \in Chunks /\ where[p[u]] = "hand" BY FreeingHas DEF Freeing
      <4> QED BY <3>1, <3>2, <4>1, <4>2, <4>3 DEF IInv, TypeOK
    <3>4. \A u \in Threads \ {t} : p'[u] = p[u] BY <2>29 DEF MergeNext, IInv, TypeOK
    <3> QED BY <3>1, <3>3, <3>4 DEF IInv, PushOK
  <2>30. CASE NextBin(t)
    <3>1. Consolidated(t) \notin {"link", "push"} BY <2>30 DEF NextBin, IInv, ControlOK
    <3> QED BY <2>30, <3>1 DEF NextBin, IInv, TypeOK, PushOK
  <2>31. CASE LowerSystemMem(t) BY <2>31 DEF LowerSystemMem, IInv, TypeOK, PushOK
  <2>32. CASE SetTop(t) BY <2>32 DEF SetTop, IInv, TypeOK, PushOK
  <2>33. CASE set_max_fast(t) BY <2>33 DEF set_max_fast, IInv, TypeOK, PushOK
  <2>34. CASE Unlock(t) BY <2>34 DEF Unlock, IInv, TypeOK, PushOK
  <2> QED BY <1>3, <2>1, <2>2, <2>3, <2>4, <2>5, <2>6, <2>7, <2>8, <2>9, <2>10, <2>11, <2>12, <2>13, <2>14, <2>15, <2>16, <2>17, <2>18, <2>19, <2>20, <2>21, <2>22, <2>23, <2>24, <2>25, <2>26, <2>27, <2>28, <2>29, <2>30, <2>31, <2>32, <2>33, <2>34 DEF Call, Step
<1> QED BY <1>1, <1>2, <1>3 DEF Next

\* While malloc has the mutex nobody else takes chunks, so the chunk it has
\* read stays in its bin, and so does that chunk's fd.
LEMMA PopStep == IInv /\ [Next]_vars => (\A u \in Threads : PopOK(u))'
<1> SUFFICES ASSUME IInv, [Next]_vars PROVE (\A u \in Threads : PopOK(u))' OBVIOUS
<1> USE DEF At, Goto, Move, Begin, Return, Room, Exhausted, Consolidated, shared, system, owners, control
<1>1. CASE UNCHANGED vars BY <1>1 DEF vars, IInv, TypeOK, PopOK
<1>2. CASE Stop BY <1>2 DEF Stop, vars, IInv, TypeOK, PopOK
<1>3. ASSUME NEW t \in Threads, Call(t) \/ Step(t) PROVE (\A u \in Threads : PopOK(u))'
  <2>1. CASE MallocCached(t)
    <3>1. \A u \in Threads \ {t} : /\ pc'[u] = pc[u] /\ old'[u] = old[u] /\ next'[u] = next[u] /\ nb'[u] = nb[u]
      BY <2>1 DEF MallocCached, IInv, TypeOK
    <3>2. pc'[t] \notin {"fd", "pop"} BY <2>1 DEF MallocCached, IInv, TypeOK
    <3>3. \A c \in Chunks : where[c] = "fast" => where'[c] = "fast" /\ fd'[c] = fd[c]
      BY <2>1 DEF MallocCached, IInv, TypeOK, OwnersOK
    <3> QED BY <3>1, <3>2, <3>3, PopKept
  <2>2. CASE Malloc(t)
    <3>1. \A u \in Threads \ {t} : /\ pc'[u] = pc[u] /\ old'[u] = old[u] /\ next'[u] = next[u] /\ nb'[u] = nb[u]
      BY <2>2 DEF Malloc, IInv, TypeOK
    <3>2. pc'[t] \notin {"fd", "pop"} BY <2>2 DEF Malloc, IInv, TypeOK
    <3>3. \A c \in Chunks : where[c] = "fast" => where'[c] = "fast" /\ fd'[c] = fd[c]
      BY <2>2 DEF Malloc, IInv, TypeOK, OwnersOK
    <3> QED BY <3>1, <3>2, <3>3, PopKept
  <2>3. CASE MallocTrim(t)
    <3>1. \A u \in Threads \ {t} : /\ pc'[u] = pc[u] /\ old'[u] = old[u] /\ next'[u] = next[u] /\ nb'[u] = nb[u]
      BY <2>3 DEF MallocTrim, IInv, TypeOK
    <3>2. pc'[t] \notin {"fd", "pop"} BY <2>3 DEF MallocTrim, IInv, TypeOK
    <3>3. \A c \in Chunks : where[c] = "fast" => where'[c] = "fast" /\ fd'[c] = fd[c]
      BY <2>3 DEF MallocTrim, IInv, TypeOK, OwnersOK
    <3> QED BY <3>1, <3>2, <3>3, PopKept
  <2>4. CASE Mallopt(t)
    <3>1. \A u \in Threads \ {t} : /\ pc'[u] = pc[u] /\ old'[u] = old[u] /\ next'[u] = next[u] /\ nb'[u] = nb[u]
      BY <2>4 DEF Mallopt, IInv, TypeOK
    <3>2. pc'[t] \notin {"fd", "pop"} BY <2>4 DEF Mallopt, IInv, TypeOK
    <3>3. \A c \in Chunks : where[c] = "fast" => where'[c] = "fast" /\ fd'[c] = fd[c]
      BY <2>4 DEF Mallopt, IInv, TypeOK, OwnersOK
    <3> QED BY <3>1, <3>2, <3>3, PopKept
  <2>5. CASE FreeCached(t)
    <3>1. \A u \in Threads \ {t} : /\ pc'[u] = pc[u] /\ old'[u] = old[u] /\ next'[u] = next[u] /\ nb'[u] = nb[u]
      BY <2>5 DEF FreeCached, IInv, TypeOK
    <3>2. pc'[t] \notin {"fd", "pop"} BY <2>5 DEF FreeCached, IInv, TypeOK
    <3>3. \A c \in Chunks : where[c] = "fast" => where'[c] = "fast" /\ fd'[c] = fd[c]
      BY <2>5 DEF FreeCached, IInv, TypeOK, OwnersOK
    <3> QED BY <3>1, <3>2, <3>3, PopKept
  <2>6. CASE Free(t)
    <3>1. \A u \in Threads \ {t} : /\ pc'[u] = pc[u] /\ old'[u] = old[u] /\ next'[u] = next[u] /\ nb'[u] = nb[u]
      BY <2>6 DEF Free, IInv, TypeOK
    <3>2. pc'[t] \notin {"fd", "pop"} BY <2>6 DEF Free, IInv, TypeOK
    <3>3. \A c \in Chunks : where[c] = "fast" => where'[c] = "fast" /\ fd'[c] = fd[c]
      BY <2>6 DEF Free, IInv, TypeOK, OwnersOK
    <3> QED BY <3>1, <3>2, <3>3, PopKept
  <2>7. CASE ThreadShutdown(t)
    <3>1. \A u \in Threads \ {t} : /\ pc'[u] = pc[u] /\ old'[u] = old[u] /\ next'[u] = next[u] /\ nb'[u] = nb[u]
      BY <2>7 DEF ThreadShutdown, IInv, TypeOK
    <3>2. pc'[t] \notin {"fd", "pop"} BY <2>7 DEF ThreadShutdown, IInv, TypeOK
    <3>3. \A c \in Chunks : where[c] = "fast" => where'[c] = "fast" /\ fd'[c] = fd[c]
      BY <2>7 DEF ThreadShutdown, IInv, TypeOK, OwnersOK
    <3> QED BY <3>1, <3>2, <3>3, PopKept
  <2>8. CASE FreeNext(t)
    <3>1. \A u \in Threads \ {t} : /\ pc'[u] = pc[u] /\ old'[u] = old[u] /\ next'[u] = next[u] /\ nb'[u] = nb[u]
      BY <2>8 DEF FreeNext, IInv, TypeOK
    <3>2. pc'[t] \notin {"fd", "pop"} BY <2>8 DEF FreeNext, IInv, TypeOK
    <3>3. \A c \in Chunks : where[c] = "fast" => where'[c] = "fast" /\ fd'[c] = fd[c]
      BY <2>8 DEF FreeNext, IInv, TypeOK, OwnersOK
    <3> QED BY <3>1, <3>2, <3>3, PopKept
  <2>9. CASE Exit(t)
    <3>1. \A u \in Threads \ {t} : /\ pc'[u] = pc[u] /\ old'[u] = old[u] /\ next'[u] = next[u] /\ nb'[u] = nb[u]
      BY <2>9 DEF Exit, IInv, TypeOK
    <3>2. pc'[t] \notin {"fd", "pop"} BY <2>9 DEF Exit, IInv, TypeOK
    <3>3. \A c \in Chunks : where[c] = "fast" => where'[c] = "fast" /\ fd'[c] = fd[c]
      BY <2>9 DEF Exit, IInv, TypeOK, OwnersOK
    <3> QED BY <3>1, <3>2, <3>3, PopKept
  <2>10. CASE IsFast(t)
    <3>1. \A u \in Threads \ {t} : /\ pc'[u] = pc[u] /\ old'[u] = old[u] /\ next'[u] = next[u] /\ nb'[u] = nb[u]
      BY <2>10 DEF IsFast, IInv, TypeOK
    <3>2. pc'[t] \notin {"fd", "pop"} BY <2>10 DEF IsFast, IInv, TypeOK
    <3>3. \A c \in Chunks : where[c] = "fast" => where'[c] = "fast" /\ fd'[c] = fd[c]
      BY <2>10 DEF IsFast, IInv, TypeOK, OwnersOK
    <3> QED BY <3>1, <3>2, <3>3, PopKept
  <2>11. CASE CheckNext(t)
    <3>1. \A u \in Threads \ {t} : /\ pc'[u] = pc[u] /\ old'[u] = old[u] /\ next'[u] = next[u] /\ nb'[u] = nb[u]
      BY <2>11 DEF CheckNext, IInv, TypeOK
    <3>2. pc'[t] \notin {"fd", "pop"} BY <2>11 DEF CheckNext, IInv, TypeOK
    <3>3. \A c \in Chunks : where[c] = "fast" => where'[c] = "fast" /\ fd'[c] = fd[c]
      BY <2>11 DEF CheckNext, IInv, TypeOK, OwnersOK
    <3> QED BY <3>1, <3>2, <3>3, PopKept
  <2>12. CASE Relock(t)
    <3>1. \A u \in Threads \ {t} : /\ pc'[u] = pc[u] /\ old'[u] = old[u] /\ next'[u] = next[u] /\ nb'[u] = nb[u]
      BY <2>12 DEF Relock, IInv, TypeOK
    <3>2. pc'[t] \notin {"fd", "pop"} BY <2>12 DEF Relock, IInv, TypeOK
    <3>3. \A c \in Chunks : where[c] = "fast" => where'[c] = "fast" /\ fd'[c] = fd[c]
      BY <2>12 DEF Relock, IInv, TypeOK, OwnersOK
    <3> QED BY <3>1, <3>2, <3>3, PopKept
  <2>13. CASE Recheck(t)
    <3>1. mutex = t BY <2>13 DEF Recheck, IInv, MutexOK, Locked
    <3>2. \A u \in Threads \ {t} : pc[u] \notin {"fd", "pop"} /\ pc'[u] = pc[u]
      BY <2>13, <3>1 DEF Recheck, IInv, TypeOK, MutexOK, Locked
    <3>3. pc'[t] \notin {"fd", "pop"} BY <2>13 DEF Recheck, IInv, TypeOK, ControlOK
    <3> QED BY <3>2, <3>3 DEF PopOK
  <2>14. CASE Mark(t)
    <3>1. \A u \in Threads \ {t} : /\ pc'[u] = pc[u] /\ old'[u] = old[u] /\ next'[u] = next[u] /\ nb'[u] = nb[u]
      BY <2>14 DEF Mark, IInv, TypeOK
    <3>2. pc'[t] \notin {"fd", "pop"} BY <2>14 DEF Mark, IInv, TypeOK
    <3>3. \A c \in Chunks : where[c] = "fast" => where'[c] = "fast" /\ fd'[c] = fd[c]
      BY <2>14 DEF Mark, IInv, TypeOK, OwnersOK
    <3> QED BY <3>1, <3>2, <3>3, PopKept
  <2>15. CASE ReadHead(t)
    <3>1. \A u \in Threads \ {t} : /\ pc'[u] = pc[u] /\ old'[u] = old[u] /\ next'[u] = next[u] /\ nb'[u] = nb[u]
      BY <2>15 DEF ReadHead, IInv, TypeOK
    <3>2. pc'[t] \notin {"fd", "pop"} BY <2>15 DEF ReadHead, IInv, TypeOK
    <3>3. \A c \in Chunks : where[c] = "fast" => where'[c] = "fast" /\ fd'[c] = fd[c]
      BY <2>15 DEF ReadHead, IInv, TypeOK, OwnersOK
    <3> QED BY <3>1, <3>2, <3>3, PopKept
  <2>16. CASE Link(t)
    <3>1. \A u \in Threads \ {t} : /\ pc'[u] = pc[u] /\ old'[u] = old[u] /\ next'[u] = next[u] /\ nb'[u] = nb[u]
      BY <2>16 DEF Link, IInv, TypeOK
    <3>2. pc'[t] \notin {"fd", "pop"} BY <2>16 DEF Link, IInv, TypeOK
    <3>3. p[t] \in Chunks /\ where[p[t]] = "hand" BY <2>16, FreeingHas DEF Link, Freeing
    <3>4. \A c \in Chunks : where[c] = "fast" => where'[c] = "fast" /\ fd'[c] = fd[c]
      BY <2>16, <3>3 DEF Link, IInv, TypeOK
    <3> QED BY <3>1, <3>2, <3>4, PopKept
  <2>17. CASE Push(t)
    <3>1. \A u \in Threads \ {t} : /\ pc'[u] = pc[u] /\ old'[u] = old[u] /\ next'[u] = next[u] /\ nb'[u] = nb[u]
      BY <2>17 DEF Push, IInv, TypeOK
    <3>2. pc'[t] \notin {"fd", "pop"} BY <2>17 DEF Push, IInv, TypeOK
    <3>3. p[t] \in Chunks /\ where[p[t]] = "hand" BY <2>17, FreeingHas DEF Push, Freeing
    <3>4. \A c \in Chunks : where[c] = "fast" => where'[c] = "fast" /\ fd'[c] = fd[c]
      BY <2>17, <3>3 DEF Push, IInv, TypeOK
    <3> QED BY <3>1, <3>2, <3>4, PopKept
  <2>18. CASE PushAgain(t)
    <3>1. \A u \in Threads \ {t} : /\ pc'[u] = pc[u] /\ old'[u] = old[u] /\ next'[u] = next[u] /\ nb'[u] = nb[u]
      BY <2>18 DEF PushAgain, IInv, TypeOK
    <3>2. pc'[t] \notin {"fd", "pop"} BY <2>18 DEF PushAgain, IInv, TypeOK
    <3>3. \A c \in Chunks : where[c] = "fast" => where'[c] = "fast" /\ fd'[c] = fd[c]
      BY <2>18 DEF PushAgain, IInv, TypeOK, OwnersOK
    <3> QED BY <3>1, <3>2, <3>3, PopKept
  <2>19. CASE Merge(t)
    <3>1. mutex = t BY <2>19 DEF Merge, IInv, MutexOK, Locked
    <3>2. \A u \in Threads \ {t} : pc[u] \notin {"fd", "pop"} /\ pc'[u] = pc[u]
      BY <2>19, <3>1 DEF Merge, IInv, TypeOK, MutexOK, Locked
    <3>3. pc'[t] \notin {"fd", "pop"} BY <2>19 DEF Merge, IInv, TypeOK, ControlOK
    <3> QED BY <3>2, <3>3 DEF PopOK
  <2>20. CASE Lock(t)
    <3>1. \A u \in Threads \ {t} : /\ pc'[u] = pc[u] /\ old'[u] = old[u] /\ next'[u] = next[u] /\ nb'[u] = nb[u]
      BY <2>20 DEF Lock, IInv, TypeOK
    <3>2. pc'[t] \notin {"fd", "pop"} BY <2>20 DEF Lock, IInv, TypeOK
    <3>3. \A c \in Chunks : where[c] = "fast" => where'[c] = "fast" /\ fd'[c] = fd[c]
      BY <2>20 DEF Lock, IInv, TypeOK, OwnersOK
    <3> QED BY <3>1, <3>2, <3>3, PopKept
  <2>21. CASE Head(t)
    <3>1. mutex = t BY <2>21 DEF Head, IInv, MutexOK, Locked
    <3>2. \A u \in Threads \ {t} : pc[u] \notin {"fd", "pop"} /\ pc'[u] = pc[u]
      BY <2>21, <3>1 DEF Head, IInv, TypeOK, MutexOK, Locked
    <3>3. PopOK(t)'
      <4>1. nb[t] \in Bins BY DEF IInv, TypeOK
      <4>2. CASE fastbins[nb[t]] = NIL BY <2>21, <4>2 DEF Head, IInv, TypeOK, PopOK
      <4>3. CASE fastbins[nb[t]] # NIL BY <2>21, <4>1, <4>3, HeadIsFast DEF Head, IInv, TypeOK, PopOK
      <4> QED BY <4>2, <4>3
    <3> QED BY <3>2, <3>3 DEF PopOK
  <2>22. CASE ReadFd(t)
    <3>1. mutex = t BY <2>22 DEF ReadFd, IInv, MutexOK, Locked
    <3>2. \A u \in Threads \ {t} : pc[u] \notin {"fd", "pop"} /\ pc'[u] = pc[u]
      BY <2>22, <3>1 DEF ReadFd, IInv, TypeOK, MutexOK, Locked
    <3>3. PopOK(t)'
      BY <2>22 DEF ReadFd, IInv, TypeOK, PopOK
    <3> QED BY <3>2, <3>3 DEF PopOK
  <2>23. CASE Pop(t)
    <3>1. mutex = t BY <2>23 DEF Pop, IInv, MutexOK, Locked
    <3>2. \A u \in Threads \ {t} : pc[u] \notin {"fd", "pop"} /\ pc'[u] = pc[u]
      BY <2>23, <3>1 DEF Pop, IInv, TypeOK, MutexOK, Locked
    <3>3. pc'[t] \notin {"fd", "pop"} BY <2>23 DEF Pop, IInv, TypeOK, ControlOK
    <3> QED BY <3>2, <3>3 DEF PopOK
  <2>24. CASE PopAgain(t)
    <3>1. mutex = t BY <2>24 DEF PopAgain, IInv, MutexOK, Locked
    <3>2. \A u \in Threads \ {t} : pc[u] \notin {"fd", "pop"} /\ pc'[u] = pc[u]
      BY <2>24, <3>1 DEF PopAgain, IInv, TypeOK, MutexOK, Locked
    <3>3. PopOK(t)'
      <4>1. nb[t] \in Bins BY DEF IInv, TypeOK
      <4>2. Chain(fastbins[nb[t]], InBin(nb[t])) BY <4>1 DEF IInv, FastbinsLinked
      <4>3. old[t] \in InBin(nb[t]) BY <2>24 DEF PopAgain, IInv, TypeOK, PopOK, Links, InBin
      <4>4. fastbins[nb[t]] # NIL BY <4>2, <4>3 DEF Chain
      <4> QED BY <2>24, <4>1, <4>4, HeadIsFast DEF PopAgain, IInv, TypeOK, PopOK
    <3> QED BY <3>2, <3>3 DEF PopOK
  <2>25. CASE TakeBinned(t)
    <3>1. mutex = t BY <2>25 DEF TakeBinned, IInv, MutexOK, Locked
    <3>2. \A u \in Threads \ {t} : pc[u] \notin {"fd", "pop"} /\ pc'[u] = pc[u]
      BY <2>25, <3>1 DEF TakeBinned, IInv, TypeOK, MutexOK, Locked
    <3>3. pc'[t] \notin {"fd", "pop"} BY <2>25 DEF TakeBinned, IInv, TypeOK, ControlOK
    <3> QED BY <3>2, <3>3 DEF PopOK
  <2>26. CASE ConsolidateAndRetry(t)
    <3>1. mutex = t BY <2>26 DEF ConsolidateAndRetry, IInv, MutexOK, Locked
    <3>2. \A u \in Threads \ {t} : pc[u] \notin {"fd", "pop"} /\ pc'[u] = pc[u]
      BY <2>26, <3>1 DEF ConsolidateAndRetry, IInv, TypeOK, MutexOK, Locked
    <3>3. pc'[t] \notin {"fd", "pop"} BY <2>26 DEF ConsolidateAndRetry, IInv, TypeOK, ControlOK
    <3> QED BY <3>2, <3>3 DEF PopOK
  <2>27. CASE Fail(t)
    <3>1. mutex = t BY <2>27 DEF Fail, IInv, MutexOK, Locked
    <3>2. \A u \in Threads \ {t} : pc[u] \notin {"fd", "pop"} /\ pc'[u] = pc[u]
      BY <2>27, <3>1 DEF Fail, IInv, TypeOK, MutexOK, Locked
    <3>3. pc'[t] \notin {"fd", "pop"} BY <2>27 DEF Fail, IInv, TypeOK, ControlOK
    <3> QED BY <3>2, <3>3 DEF PopOK
  <2>28. CASE Exchange(t)
    <3>1. mutex = t BY <2>28 DEF Exchange, IInv, MutexOK, Locked
    <3>2. \A u \in Threads \ {t} : pc[u] \notin {"fd", "pop"} /\ pc'[u] = pc[u]
      BY <2>28, <3>1 DEF Exchange, IInv, TypeOK, MutexOK, Locked
    <3>3. pc'[t] \notin {"fd", "pop"} BY <2>28 DEF Exchange, IInv, TypeOK, ControlOK
    <3> QED BY <3>2, <3>3 DEF PopOK
  <2>29. CASE MergeNext(t)
    <3>1. mutex = t BY <2>29 DEF MergeNext, IInv, MutexOK, Locked
    <3>2. \A u \in Threads \ {t} : pc[u] \notin {"fd", "pop"} /\ pc'[u] = pc[u]
      BY <2>29, <3>1 DEF MergeNext, IInv, TypeOK, MutexOK, Locked
    <3>3. pc'[t] \notin {"fd", "pop"} BY <2>29 DEF MergeNext, IInv, TypeOK, ControlOK
    <3> QED BY <3>2, <3>3 DEF PopOK
  <2>30. CASE NextBin(t)
    <3>1. mutex = t BY <2>30 DEF NextBin, IInv, MutexOK, Locked
    <3>2. \A u \in Threads \ {t} : pc[u] \notin {"fd", "pop"} /\ pc'[u] = pc[u]
      BY <2>30, <3>1 DEF NextBin, IInv, TypeOK, MutexOK, Locked
    <3>3. pc'[t] \notin {"fd", "pop"} BY <2>30 DEF NextBin, IInv, TypeOK, ControlOK
    <3> QED BY <3>2, <3>3 DEF PopOK
  <2>31. CASE LowerSystemMem(t)
    <3>1. mutex = t BY <2>31 DEF LowerSystemMem, IInv, MutexOK, Locked
    <3>2. \A u \in Threads \ {t} : pc[u] \notin {"fd", "pop"} /\ pc'[u] = pc[u]
      BY <2>31, <3>1 DEF LowerSystemMem, IInv, TypeOK, MutexOK, Locked
    <3>3. pc'[t] \notin {"fd", "pop"} BY <2>31 DEF LowerSystemMem, IInv, TypeOK, ControlOK
    <3> QED BY <3>2, <3>3 DEF PopOK
  <2>32. CASE SetTop(t)
    <3>1. mutex = t BY <2>32 DEF SetTop, IInv, MutexOK, Locked
    <3>2. \A u \in Threads \ {t} : pc[u] \notin {"fd", "pop"} /\ pc'[u] = pc[u]
      BY <2>32, <3>1 DEF SetTop, IInv, TypeOK, MutexOK, Locked
    <3>3. pc'[t] \notin {"fd", "pop"} BY <2>32 DEF SetTop, IInv, TypeOK, ControlOK
    <3> QED BY <3>2, <3>3 DEF PopOK
  <2>33. CASE set_max_fast(t)
    <3>1. mutex = t BY <2>33 DEF set_max_fast, IInv, MutexOK, Locked
    <3>2. \A u \in Threads \ {t} : pc[u] \notin {"fd", "pop"} /\ pc'[u] = pc[u]
      BY <2>33, <3>1 DEF set_max_fast, IInv, TypeOK, MutexOK, Locked
    <3>3. pc'[t] \notin {"fd", "pop"} BY <2>33 DEF set_max_fast, IInv, TypeOK, ControlOK
    <3> QED BY <3>2, <3>3 DEF PopOK
  <2>34. CASE Unlock(t)
    <3>1. mutex = t BY <2>34 DEF Unlock, IInv, MutexOK, Locked
    <3>2. \A u \in Threads \ {t} : pc[u] \notin {"fd", "pop"} /\ pc'[u] = pc[u]
      BY <2>34, <3>1 DEF Unlock, IInv, TypeOK, MutexOK, Locked
    <3>3. pc'[t] \notin {"fd", "pop"} BY <2>34 DEF Unlock, IInv, TypeOK, ControlOK
    <3> QED BY <3>2, <3>3 DEF PopOK
  <2> QED BY <1>3, <2>1, <2>2, <2>3, <2>4, <2>5, <2>6, <2>7, <2>8, <2>9, <2>10, <2>11, <2>12, <2>13, <2>14, <2>15, <2>16, <2>17, <2>18, <2>19, <2>20, <2>21, <2>22, <2>23, <2>24, <2>25, <2>26, <2>27, <2>28, <2>29, <2>30, <2>31, <2>32, <2>33, <2>34 DEF Call, Step
<1> QED BY <1>1, <1>2, <1>3 DEF Next

\* Each bin stays a list: a push makes it one longer, a pop one shorter, an
\* exchange hands it over.
LEMMA LinkedStep == IInv /\ [Next]_vars => FastbinsLinked'
<1> SUFFICES ASSUME IInv, [Next]_vars PROVE FastbinsLinked' OBVIOUS
<1> USE DEF At, Goto, Move, Begin, Return, Room, Exhausted, Consolidated, shared, system, owners, control
<1>1. CASE UNCHANGED vars BY <1>1 DEF vars, IInv, FastbinsLinked, Chain, In, InBin
<1>2. CASE Stop BY <1>2 DEF Stop, vars, IInv, FastbinsLinked, Chain, In, InBin
<1>3. ASSUME NEW t \in Threads, Call(t) \/ Step(t) PROVE FastbinsLinked'
  <2>1. CASE MallocCached(t)
    <3>1. \A c \in Chunks : /\ where[c] \in {"fast", "detached"} =>
                                 where'[c] = where[c] /\ fd'[c] = fd[c] /\ rank'[c] = rank[c]
                            /\ where'[c] \in {"fast", "detached"} => where'[c] = where[c]
      BY <2>1 DEF MallocCached, IInv, TypeOK, OwnersOK
    <3>2. \A u \in Threads : (At(u, "chunk")' <=> At(u, "chunk")) /\ (At(u, "chunk") => old'[u] = old[u])
      BY <2>1 DEF MallocCached, IInv, TypeOK
    <3>3. UNCHANGED fastbins BY <2>1 DEF MallocCached
    <3> QED BY <3>1, <3>2, <3>3, ListsSame
  <2>2. CASE Malloc(t)
    <3>1. \A c \in Chunks : /\ where[c] \in {"fast", "detached"} =>
                                 where'[c] = where[c] /\ fd'[c] = fd[c] /\ rank'[c] = rank[c]
                            /\ where'[c] \in {"fast", "detached"} => where'[c] = where[c]
      BY <2>2 DEF Malloc, IInv, TypeOK, OwnersOK
    <3>2. \A u \in Threads : (At(u, "chunk")' <=> At(u, "chunk")) /\ (At(u, "chunk") => old'[u] = old[u])
      BY <2>2 DEF Malloc, IInv, TypeOK
    <3>3. UNCHANGED fastbins BY <2>2 DEF Malloc
    <3> QED BY <3>1, <3>2, <3>3, ListsSame
  <2>3. CASE MallocTrim(t)
    <3>1. \A c \in Chunks : /\ where[c] \in {"fast", "detached"} =>
                                 where'[c] = where[c] /\ fd'[c] = fd[c] /\ rank'[c] = rank[c]
                            /\ where'[c] \in {"fast", "detached"} => where'[c] = where[c]
      BY <2>3 DEF MallocTrim, IInv, TypeOK, OwnersOK
    <3>2. \A u \in Threads : (At(u, "chunk")' <=> At(u, "chunk")) /\ (At(u, "chunk") => old'[u] = old[u])
      BY <2>3 DEF MallocTrim, IInv, TypeOK
    <3>3. UNCHANGED fastbins BY <2>3 DEF MallocTrim
    <3> QED BY <3>1, <3>2, <3>3, ListsSame
  <2>4. CASE Mallopt(t)
    <3>1. \A c \in Chunks : /\ where[c] \in {"fast", "detached"} =>
                                 where'[c] = where[c] /\ fd'[c] = fd[c] /\ rank'[c] = rank[c]
                            /\ where'[c] \in {"fast", "detached"} => where'[c] = where[c]
      BY <2>4 DEF Mallopt, IInv, TypeOK, OwnersOK
    <3>2. \A u \in Threads : (At(u, "chunk")' <=> At(u, "chunk")) /\ (At(u, "chunk") => old'[u] = old[u])
      BY <2>4 DEF Mallopt, IInv, TypeOK
    <3>3. UNCHANGED fastbins BY <2>4 DEF Mallopt
    <3> QED BY <3>1, <3>2, <3>3, ListsSame
  <2>5. CASE FreeCached(t)
    <3>1. \A c \in Chunks : /\ where[c] \in {"fast", "detached"} =>
                                 where'[c] = where[c] /\ fd'[c] = fd[c] /\ rank'[c] = rank[c]
                            /\ where'[c] \in {"fast", "detached"} => where'[c] = where[c]
      BY <2>5 DEF FreeCached, IInv, TypeOK, OwnersOK
    <3>2. \A u \in Threads : (At(u, "chunk")' <=> At(u, "chunk")) /\ (At(u, "chunk") => old'[u] = old[u])
      BY <2>5 DEF FreeCached, IInv, TypeOK
    <3>3. UNCHANGED fastbins BY <2>5 DEF FreeCached
    <3> QED BY <3>1, <3>2, <3>3, ListsSame
  <2>6. CASE Free(t)
    <3>1. \A c \in Chunks : /\ where[c] \in {"fast", "detached"} =>
                                 where'[c] = where[c] /\ fd'[c] = fd[c] /\ rank'[c] = rank[c]
                            /\ where'[c] \in {"fast", "detached"} => where'[c] = where[c]
      BY <2>6 DEF Free, IInv, TypeOK, OwnersOK
    <3>2. \A u \in Threads : (At(u, "chunk")' <=> At(u, "chunk")) /\ (At(u, "chunk") => old'[u] = old[u])
      BY <2>6 DEF Free, IInv, TypeOK
    <3>3. UNCHANGED fastbins BY <2>6 DEF Free
    <3> QED BY <3>1, <3>2, <3>3, ListsSame
  <2>7. CASE ThreadShutdown(t)
    <3>1. \A c \in Chunks : /\ where[c] \in {"fast", "detached"} =>
                                 where'[c] = where[c] /\ fd'[c] = fd[c] /\ rank'[c] = rank[c]
                            /\ where'[c] \in {"fast", "detached"} => where'[c] = where[c]
      BY <2>7 DEF ThreadShutdown, IInv, TypeOK, OwnersOK
    <3>2. \A u \in Threads : (At(u, "chunk")' <=> At(u, "chunk")) /\ (At(u, "chunk") => old'[u] = old[u])
      BY <2>7 DEF ThreadShutdown, IInv, TypeOK
    <3>3. UNCHANGED fastbins BY <2>7 DEF ThreadShutdown
    <3> QED BY <3>1, <3>2, <3>3, ListsSame
  <2>8. CASE FreeNext(t)
    <3>1. \A c \in Chunks : /\ where[c] \in {"fast", "detached"} =>
                                 where'[c] = where[c] /\ fd'[c] = fd[c] /\ rank'[c] = rank[c]
                            /\ where'[c] \in {"fast", "detached"} => where'[c] = where[c]
      BY <2>8 DEF FreeNext, IInv, TypeOK, OwnersOK
    <3>2. \A u \in Threads : (At(u, "chunk")' <=> At(u, "chunk")) /\ (At(u, "chunk") => old'[u] = old[u])
      BY <2>8 DEF FreeNext, IInv, TypeOK
    <3>3. UNCHANGED fastbins BY <2>8 DEF FreeNext
    <3> QED BY <3>1, <3>2, <3>3, ListsSame
  <2>9. CASE Exit(t)
    <3>1. \A c \in Chunks : /\ where[c] \in {"fast", "detached"} =>
                                 where'[c] = where[c] /\ fd'[c] = fd[c] /\ rank'[c] = rank[c]
                            /\ where'[c] \in {"fast", "detached"} => where'[c] = where[c]
      BY <2>9 DEF Exit, IInv, TypeOK, OwnersOK
    <3>2. \A u \in Threads : (At(u, "chunk")' <=> At(u, "chunk")) /\ (At(u, "chunk") => old'[u] = old[u])
      BY <2>9 DEF Exit, IInv, TypeOK
    <3>3. UNCHANGED fastbins BY <2>9 DEF Exit
    <3> QED BY <3>1, <3>2, <3>3, ListsSame
  <2>10. CASE IsFast(t)
    <3>1. \A c \in Chunks : /\ where[c] \in {"fast", "detached"} =>
                                 where'[c] = where[c] /\ fd'[c] = fd[c] /\ rank'[c] = rank[c]
                            /\ where'[c] \in {"fast", "detached"} => where'[c] = where[c]
      BY <2>10 DEF IsFast, IInv, TypeOK, OwnersOK
    <3>2. \A u \in Threads : (At(u, "chunk")' <=> At(u, "chunk")) /\ (At(u, "chunk") => old'[u] = old[u])
      BY <2>10 DEF IsFast, IInv, TypeOK
    <3>3. UNCHANGED fastbins BY <2>10 DEF IsFast
    <3> QED BY <3>1, <3>2, <3>3, ListsSame
  <2>11. CASE CheckNext(t)
    <3>1. \A c \in Chunks : /\ where[c] \in {"fast", "detached"} =>
                                 where'[c] = where[c] /\ fd'[c] = fd[c] /\ rank'[c] = rank[c]
                            /\ where'[c] \in {"fast", "detached"} => where'[c] = where[c]
      BY <2>11 DEF CheckNext, IInv, TypeOK, OwnersOK
    <3>2. \A u \in Threads : (At(u, "chunk")' <=> At(u, "chunk")) /\ (At(u, "chunk") => old'[u] = old[u])
      BY <2>11 DEF CheckNext, IInv, TypeOK
    <3>3. UNCHANGED fastbins BY <2>11 DEF CheckNext
    <3> QED BY <3>1, <3>2, <3>3, ListsSame
  <2>12. CASE Relock(t)
    <3>1. \A c \in Chunks : /\ where[c] \in {"fast", "detached"} =>
                                 where'[c] = where[c] /\ fd'[c] = fd[c] /\ rank'[c] = rank[c]
                            /\ where'[c] \in {"fast", "detached"} => where'[c] = where[c]
      BY <2>12 DEF Relock, IInv, TypeOK, OwnersOK
    <3>2. \A u \in Threads : (At(u, "chunk")' <=> At(u, "chunk")) /\ (At(u, "chunk") => old'[u] = old[u])
      BY <2>12 DEF Relock, IInv, TypeOK
    <3>3. UNCHANGED fastbins BY <2>12 DEF Relock
    <3> QED BY <3>1, <3>2, <3>3, ListsSame
  <2>13. CASE Recheck(t)
    <3>1. \A c \in Chunks : /\ where[c] \in {"fast", "detached"} =>
                                 where'[c] = where[c] /\ fd'[c] = fd[c] /\ rank'[c] = rank[c]
                            /\ where'[c] \in {"fast", "detached"} => where'[c] = where[c]
      BY <2>13 DEF Recheck, IInv, TypeOK, OwnersOK
    <3>2. \A u \in Threads : (At(u, "chunk")' <=> At(u, "chunk")) /\ (At(u, "chunk") => old'[u] = old[u])
      BY <2>13 DEF Recheck, IInv, TypeOK
    <3>3. UNCHANGED fastbins BY <2>13 DEF Recheck
    <3> QED BY <3>1, <3>2, <3>3, ListsSame
  <2>14. CASE Mark(t)
    <3>1. \A c \in Chunks : /\ where[c] \in {"fast", "detached"} =>
                                 where'[c] = where[c] /\ fd'[c] = fd[c] /\ rank'[c] = rank[c]
                            /\ where'[c] \in {"fast", "detached"} => where'[c] = where[c]
      BY <2>14 DEF Mark, IInv, TypeOK, OwnersOK
    <3>2. \A u \in Threads : (At(u, "chunk")' <=> At(u, "chunk")) /\ (At(u, "chunk") => old'[u] = old[u])
      BY <2>14 DEF Mark, IInv, TypeOK
    <3>3. UNCHANGED fastbins BY <2>14 DEF Mark
    <3> QED BY <3>1, <3>2, <3>3, ListsSame
  <2>15. CASE ReadHead(t)
    <3>1. \A c \in Chunks : /\ where[c] \in {"fast", "detached"} =>
                                 where'[c] = where[c] /\ fd'[c] = fd[c] /\ rank'[c] = rank[c]
                            /\ where'[c] \in {"fast", "detached"} => where'[c] = where[c]
      BY <2>15 DEF ReadHead, IInv, TypeOK, OwnersOK
    <3>2. \A u \in Threads : (At(u, "chunk")' <=> At(u, "chunk")) /\ (At(u, "chunk") => old'[u] = old[u])
      BY <2>15 DEF ReadHead, IInv, TypeOK
    <3>3. UNCHANGED fastbins BY <2>15 DEF ReadHead
    <3> QED BY <3>1, <3>2, <3>3, ListsSame
  <2>16. CASE Link(t)
    <3> p[t] \in Chunks /\ where[p[t]] = "hand" BY <2>16, FreeingHas DEF Link, Freeing
    <3>1. \A c \in Chunks : /\ where[c] \in {"fast", "detached"} =>
                                 where'[c] = where[c] /\ fd'[c] = fd[c] /\ rank'[c] = rank[c]
                            /\ where'[c] \in {"fast", "detached"} => where'[c] = where[c]
      BY <2>16 DEF Link, IInv, TypeOK
    <3>2. \A u \in Threads : (At(u, "chunk")' <=> At(u, "chunk")) /\ (At(u, "chunk") => old'[u] = old[u])
      BY <2>16 DEF Link, IInv, TypeOK
    <3>3. UNCHANGED fastbins BY <2>16 DEF Link
    <3> QED BY <3>1, <3>2, <3>3, ListsSame
  <2>17. CASE Push(t)
    <3>1. p[t] \in Chunks /\ where[p[t]] = "hand" /\ nb[t] = fastbin_index[p[t]] /\ nb[t] \in Bins
      BY <2>17, FreeingHas DEF Push, Freeing, Pushing, IInv, ControlOK, TypeOK
    <3>2. /\ fastbins[nb[t]] = old[t] /\ fastbins' = [fastbins EXCEPT ![nb[t]] = p[t]]
          /\ where' = [where EXCEPT ![p[t]] = "fast"] /\ fd' = fd
          /\ rank' = [rank EXCEPT ![p[t]] = IF old[t] = NIL THEN 0 ELSE rank[old[t]] + 1]
          /\ \A u \in Threads : (At(u, "chunk")' <=> At(u, "chunk")) /\ (At(u, "chunk") => old'[u] = old[u])
      BY <2>17 DEF Push, IInv, TypeOK
    <3>3. fd[p[t]] = old[t] BY <2>17 DEF Push, IInv, PushOK
    <3>4. \A c \in Chunks : c # p[t] => where'[c] = where[c] /\ rank'[c] = rank[c] BY <3>2 DEF IInv, TypeOK
    <3>5. ASSUME NEW i \in Bins PROVE Chain(fastbins[i], InBin(i))'
      <4>1. Chain(fastbins[i], InBin(i)) BY DEF IInv, FastbinsLinked
      <4>2. CASE i = nb[t]
        <5>1. Chain(old[t], InBin(i)) BY <3>2, <4>1, <4>2
        <5>2. old[t] \in Links /\ InBin(i) \in SUBSET Chunks /\ p[t] \notin InBin(i)
          BY <3>1 DEF IInv, TypeOK, InBin
        <5>3. \A c, first, S : /\ c = p[t] /\ first = old[t] /\ S = InBin(i)
                               => Chain(c, S \union {c})'
          BY <3>1, <3>2, <3>3, <5>1, <5>2, ChainPush DEF IInv
        <5>4. InBin(i)' = InBin(i) \union {p[t]} BY <3>1, <3>2, <3>4, <4>2 DEF InBin, IInv, TypeOK
        <5>5. fastbins'[i] = p[t] BY <3>1, <3>2, <4>2 DEF IInv, TypeOK
        <5> QED BY <5>3, <5>4, <5>5 DEF Chain
      <4>3. CASE i # nb[t]
        <5>1. InBin(i)' = InBin(i) BY <3>1, <3>2, <3>4, <4>3 DEF InBin
        <5>2. \A c \in InBin(i) : fd'[c] = fd[c] /\ rank'[c] = rank[c] BY <3>1, <3>2, <3>4 DEF InBin
        <5>3. fastbins'[i] = fastbins[i] BY <3>2, <4>3 DEF IInv, TypeOK
        <5>4. \A first, S : first = fastbins[i] /\ S = InBin(i) => Chain(first, S)' BY <4>1, <5>2, ChainSame
        <5> QED BY <5>1, <5>3, <5>4 DEF Chain
      <4> QED BY <4>2, <4>3
    <3>6. In("detached")' = In("detached") BY <3>1, <3>2, <3>4 DEF In, IInv, TypeOK
    <3>7. ASSUME NEW u \in Threads, At(u, "chunk")' PROVE Chain(old[u], In("detached"))'
      <4>1. Chain(old[u], In("detached")) /\ old'[u] = old[u] BY <3>2, <3>7 DEF IInv, FastbinsLinked
      <4>2. \A c \in In("detached") : fd'[c] = fd[c] /\ rank'[c] = rank[c] BY <3>1, <3>2, <3>4 DEF In
      <4> QED BY <3>6, <4>1, <4>2 DEF Chain
    <3> QED BY <3>2, <3>5, <3>6, <3>7 DEF IInv, FastbinsLinked
  <2>18. CASE PushAgain(t)
    <3>1. \A c \in Chunks : /\ where[c] \in {"fast", "detached"} =>
                                 where'[c] = where[c] /\ fd'[c] = fd[c] /\ rank'[c] = rank[c]
                            /\ where'[c] \in {"fast", "detached"} => where'[c] = where[c]
      BY <2>18 DEF PushAgain, IInv, TypeOK, OwnersOK
    <3>2. \A u \in Threads : (At(u, "chunk")' <=> At(u, "chunk")) /\ (At(u, "chunk") => old'[u] = old[u])
      BY <2>18 DEF PushAgain, IInv, TypeOK
    <3>3. UNCHANGED fastbins BY <2>18 DEF PushAgain
    <3> QED BY <3>1, <3>2, <3>3, ListsSame
  <2>19. CASE Merge(t)
    <3> p[t] \in Chunks /\ where[p[t]] = "hand" BY <2>19, FreeingHas DEF Merge, Freeing
    <3>1. \A c \in Chunks : /\ where[c] \in {"fast", "detached"} =>
                                 where'[c] = where[c] /\ fd'[c] = fd[c] /\ rank'[c] = rank[c]
                            /\ where'[c] \in {"fast", "detached"} => where'[c] = where[c]
      BY <2>19 DEF Merge, IInv, TypeOK
    <3>2. \A u \in Threads : (At(u, "chunk")' <=> At(u, "chunk")) /\ (At(u, "chunk") => old'[u] = old[u])
      BY <2>19 DEF Merge, IInv, TypeOK
    <3>3. UNCHANGED fastbins BY <2>19 DEF Merge
    <3> QED BY <3>1, <3>2, <3>3, ListsSame
  <2>20. CASE Lock(t)
    <3>1. \A c \in Chunks : /\ where[c] \in {"fast", "detached"} =>
                                 where'[c] = where[c] /\ fd'[c] = fd[c] /\ rank'[c] = rank[c]
                            /\ where'[c] \in {"fast", "detached"} => where'[c] = where[c]
      BY <2>20 DEF Lock, IInv, TypeOK, OwnersOK
    <3>2. \A u \in Threads : (At(u, "chunk")' <=> At(u, "chunk")) /\ (At(u, "chunk") => old'[u] = old[u])
      BY <2>20 DEF Lock, IInv, TypeOK
    <3>3. UNCHANGED fastbins BY <2>20 DEF Lock
    <3> QED BY <3>1, <3>2, <3>3, ListsSame
  <2>21. CASE Head(t)
    <3>1. \A c \in Chunks : /\ where[c] \in {"fast", "detached"} =>
                                 where'[c] = where[c] /\ fd'[c] = fd[c] /\ rank'[c] = rank[c]
                            /\ where'[c] \in {"fast", "detached"} => where'[c] = where[c]
      BY <2>21 DEF Head, IInv, TypeOK, OwnersOK
    <3>2. \A u \in Threads : (At(u, "chunk")' <=> At(u, "chunk")) /\ (At(u, "chunk") => old'[u] = old[u])
      BY <2>21 DEF Head, IInv, TypeOK
    <3>3. UNCHANGED fastbins BY <2>21 DEF Head
    <3> QED BY <3>1, <3>2, <3>3, ListsSame
  <2>22. CASE ReadFd(t)
    <3>1. \A c \in Chunks : /\ where[c] \in {"fast", "detached"} =>
                                 where'[c] = where[c] /\ fd'[c] = fd[c] /\ rank'[c] = rank[c]
                            /\ where'[c] \in {"fast", "detached"} => where'[c] = where[c]
      BY <2>22 DEF ReadFd, IInv, TypeOK, OwnersOK
    <3>2. \A u \in Threads : (At(u, "chunk")' <=> At(u, "chunk")) /\ (At(u, "chunk") => old'[u] = old[u])
      BY <2>22 DEF ReadFd, IInv, TypeOK
    <3>3. UNCHANGED fastbins BY <2>22 DEF ReadFd
    <3> QED BY <3>1, <3>2, <3>3, ListsSame
  <2>23. CASE Pop(t)
    <3>1. /\ old[t] \in Chunks /\ where[old[t]] = "fast" /\ nb[t] = fastbin_index[old[t]] /\ nb[t] \in Bins
          /\ next[t] = fd[old[t]]
      BY <2>23 DEF Pop, IInv, TypeOK, PopOK, Links
    <3>2. /\ fastbins[nb[t]] = old[t] /\ fastbins' = [fastbins EXCEPT ![nb[t]] = next[t]]
          /\ fd' = [fd EXCEPT ![old[t]] = JUNK] /\ rank' = [rank EXCEPT ![old[t]] = 0]
      BY <2>23 DEF Pop
    <3>3. where'[old[t]] \notin {"fast", "detached"} /\ \A c \in Chunks : c # old[t] => where'[c] = where[c]
      BY <2>23, <3>1 DEF Pop, IInv, TypeOK
    <3>4. \A c \in Chunks : c # old[t] => fd'[c] = fd[c] /\ rank'[c] = rank[c] BY <3>2 DEF IInv, TypeOK
    <3>5. mutex = t BY <2>23 DEF Pop, IInv, MutexOK, Locked
    <3>6. \A u \in Threads : ~At(u, "chunk") /\ ~At(u, "chunk")'
      BY <2>23, <3>5 DEF Pop, IInv, TypeOK, MutexOK, Locked
    <3>7. ASSUME NEW i \in Bins PROVE Chain(fastbins[i], InBin(i))'
      <4>1. Chain(fastbins[i], InBin(i)) BY DEF IInv, FastbinsLinked
      <4>2. CASE i = nb[t]
        <5>1. Chain(old[t], InBin(i)) /\ InBin(i) \in SUBSET Chunks BY <3>2, <4>1, <4>2 DEF InBin
        <5>2. \A c \in InBin(i) \ {old[t]} : fd'[c] = fd[c] /\ rank'[c] = rank[c] BY <3>4 DEF InBin
        <5>3. \A second, first, S : second = next[t] /\ first = old[t] /\ S = InBin(i)
                                    => Chain(second, S \ {first})'
          BY <3>1, <5>1, <5>2, ChainTail DEF IInv
        <5>4. InBin(i)' = InBin(i) \ {old[t]} BY <3>1, <3>3 DEF InBin
        <5>5. fastbins'[i] = next[t] BY <3>1, <3>2, <4>2 DEF IInv, TypeOK
        <5> QED BY <5>3, <5>4, <5>5 DEF Chain
      <4>3. CASE i # nb[t]
        <5>1. InBin(i)' = InBin(i) BY <3>1, <3>3, <4>3 DEF InBin
        <5>2. \A c \in InBin(i) : fd'[c] = fd[c] /\ rank'[c] = rank[c] BY <3>1, <3>4, <4>3 DEF InBin
        <5>3. fastbins'[i] = fastbins[i] BY <3>2, <4>3 DEF IInv, TypeOK
        <5>4. \A first, S : first = fastbins[i] /\ S = InBin(i) => Chain(first, S)' BY <4>1, <5>2, ChainSame
        <5> QED BY <5>1, <5>3, <5>4 DEF Chain
      <4> QED BY <4>2, <4>3
    <3>8. In("detached")' = {} BY <3>1, <3>3, <3>6 DEF In, IInv, FastbinsLinked
    <3> QED BY <3>6, <3>7, <3>8 DEF FastbinsLinked
  <2>24. CASE PopAgain(t)
    <3>1. \A c \in Chunks : /\ where[c] \in {"fast", "detached"} =>
                                 where'[c] = where[c] /\ fd'[c] = fd[c] /\ rank'[c] = rank[c]
                            /\ where'[c] \in {"fast", "detached"} => where'[c] = where[c]
      BY <2>24 DEF PopAgain, IInv, TypeOK, OwnersOK
    <3>2. \A u \in Threads : (At(u, "chunk")' <=> At(u, "chunk")) /\ (At(u, "chunk") => old'[u] = old[u])
      BY <2>24 DEF PopAgain, IInv, TypeOK
    <3>3. UNCHANGED fastbins BY <2>24 DEF PopAgain
    <3> QED BY <3>1, <3>2, <3>3, ListsSame
  <2>25. CASE TakeBinned(t)
    <3>1. \A c \in Chunks : /\ where[c] \in {"fast", "detached"} =>
                                 where'[c] = where[c] /\ fd'[c] = fd[c] /\ rank'[c] = rank[c]
                            /\ where'[c] \in {"fast", "detached"} => where'[c] = where[c]
      BY <2>25 DEF TakeBinned, IInv, TypeOK, OwnersOK
    <3>2. \A u \in Threads : (At(u, "chunk")' <=> At(u, "chunk")) /\ (At(u, "chunk") => old'[u] = old[u])
      BY <2>25 DEF TakeBinned, IInv, TypeOK
    <3>3. UNCHANGED fastbins BY <2>25 DEF TakeBinned
    <3> QED BY <3>1, <3>2, <3>3, ListsSame
  <2>26. CASE ConsolidateAndRetry(t)
    <3>1. \A c \in Chunks : /\ where[c] \in {"fast", "detached"} =>
                                 where'[c] = where[c] /\ fd'[c] = fd[c] /\ rank'[c] = rank[c]
                            /\ where'[c] \in {"fast", "detached"} => where'[c] = where[c]
      BY <2>26 DEF ConsolidateAndRetry, IInv, TypeOK, OwnersOK
    <3>2. \A u \in Threads : (At(u, "chunk")' <=> At(u, "chunk")) /\ (At(u, "chunk") => old'[u] = old[u])
      BY <2>26 DEF ConsolidateAndRetry, IInv, TypeOK
    <3>3. UNCHANGED fastbins BY <2>26 DEF ConsolidateAndRetry
    <3> QED BY <3>1, <3>2, <3>3, ListsSame
  <2>27. CASE Fail(t)
    <3>1. \A c \in Chunks : /\ where[c] \in {"fast", "detached"} =>
                                 where'[c] = where[c] /\ fd'[c] = fd[c] /\ rank'[c] = rank[c]
                            /\ where'[c] \in {"fast", "detached"} => where'[c] = where[c]
      BY <2>27 DEF Fail, IInv, TypeOK, OwnersOK
    <3>2. \A u \in Threads : (At(u, "chunk")' <=> At(u, "chunk")) /\ (At(u, "chunk") => old'[u] = old[u])
      BY <2>27 DEF Fail, IInv, TypeOK
    <3>3. UNCHANGED fastbins BY <2>27 DEF Fail
    <3> QED BY <3>1, <3>2, <3>3, ListsSame
  <2>28. CASE Exchange(t)
    <3>1. /\ idx[t] \in Bins /\ mutex = t
          /\ \A u \in Threads : ~At(u, "chunk") /\ (u # t => ~At(u, "chunk")') /\ At(t, "chunk")'
      BY <2>28 DEF Exchange, IInv, TypeOK, MutexOK, Locked
    <3>2. /\ old'[t] = fastbins[idx[t]] /\ fastbins' = [fastbins EXCEPT ![idx[t]] = NIL]
          /\ UNCHANGED <<fd, rank>>
          /\ \A c \in Chunks : where'[c] = IF where[c] = "fast" /\ fastbin_index[c] = idx[t]
                                           THEN "detached" ELSE where[c]
      BY <2>28 DEF Exchange, IInv, TypeOK
    <3>3. In("detached") = {} BY <3>1 DEF IInv, FastbinsLinked
    <3>4. In("detached")' = InBin(idx[t]) BY <3>2, <3>3 DEF In, InBin
    <3>5. ASSUME NEW i \in Bins PROVE Chain(fastbins[i], InBin(i))'
      <4>1. CASE i = idx[t]
        <5>1. InBin(i)' = {} /\ fastbins'[i] = NIL BY <3>1, <3>2, <4>1 DEF InBin, IInv, TypeOK
        <5> QED BY <5>1 DEF Chain
      <4>2. CASE i # idx[t]
        <5>1. Chain(fastbins[i], InBin(i)) BY DEF IInv, FastbinsLinked
        <5>2. InBin(i)' = InBin(i) /\ fastbins'[i] = fastbins[i] BY <3>2, <4>2 DEF InBin, IInv, TypeOK
        <5> QED BY <3>2, <5>1, <5>2 DEF Chain
      <4> QED BY <4>1, <4>2
    <3>6. Chain(old[t], In("detached"))'
      <4>1. Chain(fastbins[idx[t]], InBin(idx[t])) BY <3>1 DEF IInv, FastbinsLinked
      <4> QED BY <3>2, <3>4, <4>1 DEF Chain
    <3> QED BY <3>1, <3>5, <3>6 DEF FastbinsLinked
  <2>29. CASE MergeNext(t)
    <3>1. /\ mutex = t /\ At(t, "chunk") /\ old[t] # NIL
          /\ \A u \in Threads : u # t => ~At(u, "chunk")'
      BY <2>29 DEF MergeNext, IInv, TypeOK, MutexOK, Locked
    <3>2. old[t] \in Chunks /\ where[old[t]] = "detached" BY <3>1, DetachedNext
    <3>3. /\ old'[t] = fd[old[t]] /\ UNCHANGED <<fastbins, pc>>
          /\ fd' = [fd EXCEPT ![old[t]] = JUNK] /\ rank' = [rank EXCEPT ![old[t]] = 0]
          /\ where' = [where EXCEPT ![old[t]] = "arena"]
      BY <2>29 DEF MergeNext, IInv, TypeOK
    <3>4. \A c \in Chunks : c # old[t] => where'[c] = where[c] /\ fd'[c] = fd[c] /\ rank'[c] = rank[c]
      BY <3>3 DEF IInv, TypeOK
    <3>5. where'[old[t]] = "arena" BY <3>2, <3>3 DEF IInv, TypeOK
    <3>6. ASSUME NEW i \in Bins PROVE Chain(fastbins[i], InBin(i))'
      <4>1. Chain(fastbins[i], InBin(i)) BY DEF IInv, FastbinsLinked
      <4>2. InBin(i)' = InBin(i) BY <3>2, <3>4, <3>5 DEF InBin
      <4>3. \A c \in InBin(i) : fd'[c] = fd[c] /\ rank'[c] = rank[c] BY <3>2, <3>4 DEF InBin
      <4>4. \A first, S : first = fastbins[i] /\ S = InBin(i) => Chain(first, S)' BY <4>1, <4>3, ChainSame
      <4> QED BY <3>3, <4>2, <4>4 DEF Chain
    <3>7. Chain(old[t], In("detached"))'
      <4>1. Chain(old[t], In("detached")) /\ In("detached") \in SUBSET Chunks
        BY <3>1 DEF IInv, FastbinsLinked, In
      <4>2. In("detached")' = In("detached") \ {old[t]} BY <3>2, <3>4, <3>5 DEF In
      <4>3. \A c \in In("detached") \ {old[t]} : fd'[c] = fd[c] /\ rank'[c] = rank[c] BY <3>4 DEF In
      <4>4. \A second, first, S : second = fd[old[t]] /\ first = old[t] /\ S = In("detached")
                                  => Chain(second, S \ {first})'
        BY <3>2, <4>1, <4>3, ChainTail DEF IInv
      <4> QED BY <3>3, <4>2, <4>4 DEF Chain
    <3> QED BY <3>1, <3>3, <3>6, <3>7 DEF FastbinsLinked
  <2>30. CASE NextBin(t)
    <3>1. Consolidated(t) # "chunk" BY <2>30 DEF NextBin, IInv, ControlOK
    <3>2. \A u \in Threads : ~At(u, "chunk")'
      BY <2>30, <3>1 DEF NextBin, IInv, TypeOK, MutexOK, Locked
    <3>3. In("detached") = {} BY <2>30 DEF NextBin, IInv, FastbinsLinked, Chain
    <3>4. UNCHANGED <<fastbins, where, fd, rank>> BY <2>30 DEF NextBin
    <3>5. \A i \in Bins : Chain(fastbins[i], InBin(i))' BY <3>4 DEF IInv, FastbinsLinked, Chain, InBin
    <3> QED BY <3>2, <3>3, <3>4, <3>5 DEF FastbinsLinked, In
  <2>31. CASE LowerSystemMem(t)
    <3>1. \A c \in Chunks : /\ where[c] \in {"fast", "detached"} =>
                                 where'[c] = where[c] /\ fd'[c] = fd[c] /\ rank'[c] = rank[c]
                            /\ where'[c] \in {"fast", "detached"} => where'[c] = where[c]
      BY <2>31 DEF LowerSystemMem, IInv, TypeOK, OwnersOK
    <3>2. \A u \in Threads : (At(u, "chunk")' <=> At(u, "chunk")) /\ (At(u, "chunk") => old'[u] = old[u])
      BY <2>31 DEF LowerSystemMem, IInv, TypeOK
    <3>3. UNCHANGED fastbins BY <2>31 DEF LowerSystemMem
    <3> QED BY <3>1, <3>2, <3>3, ListsSame
  <2>32. CASE SetTop(t)
    <3>1. \A c \in Chunks : /\ where[c] \in {"fast", "detached"} =>
                                 where'[c] = where[c] /\ fd'[c] = fd[c] /\ rank'[c] = rank[c]
                            /\ where'[c] \in {"fast", "detached"} => where'[c] = where[c]
      BY <2>32 DEF SetTop, IInv, TypeOK, OwnersOK
    <3>2. \A u \in Threads : (At(u, "chunk")' <=> At(u, "chunk")) /\ (At(u, "chunk") => old'[u] = old[u])
      BY <2>32 DEF SetTop, IInv, TypeOK
    <3>3. UNCHANGED fastbins BY <2>32 DEF SetTop
    <3> QED BY <3>1, <3>2, <3>3, ListsSame
  <2>33. CASE set_max_fast(t)
    <3>1. \A c \in Chunks : /\ where[c] \in {"fast", "detached"} =>
                                 where'[c] = where[c] /\ fd'[c] = fd[c] /\ rank'[c] = rank[c]
                            /\ where'[c] \in {"fast", "detached"} => where'[c] = where[c]
      BY <2>33 DEF set_max_fast, IInv, TypeOK, OwnersOK
    <3>2. \A u \in Threads : (At(u, "chunk")' <=> At(u, "chunk")) /\ (At(u, "chunk") => old'[u] = old[u])
      BY <2>33 DEF set_max_fast, IInv, TypeOK
    <3>3. UNCHANGED fastbins BY <2>33 DEF set_max_fast
    <3> QED BY <3>1, <3>2, <3>3, ListsSame
  <2>34. CASE Unlock(t)
    <3>1. \A c \in Chunks : /\ where[c] \in {"fast", "detached"} =>
                                 where'[c] = where[c] /\ fd'[c] = fd[c] /\ rank'[c] = rank[c]
                            /\ where'[c] \in {"fast", "detached"} => where'[c] = where[c]
      <4>1. CASE p[t] = NIL BY <2>34, <4>1 DEF Unlock
      <4>2. CASE p[t] # NIL
        <5>1. p[t] \in Chunks /\ where[p[t]] = "hand" BY <4>2 DEF IInv, TypeOK, Links, OwnersOK
        <5> QED BY <2>34, <4>2, <5>1 DEF Unlock, IInv, TypeOK
      <4> QED BY <4>1, <4>2
    <3>2. \A u \in Threads : (At(u, "chunk")' <=> At(u, "chunk")) /\ (At(u, "chunk") => old'[u] = old[u])
      BY <2>34 DEF Unlock, IInv, TypeOK
    <3>3. UNCHANGED fastbins BY <2>34 DEF Unlock
    <3> QED BY <3>1, <3>2, <3>3, ListsSame
  <2> QED BY <1>3, <2>1, <2>2, <2>3, <2>4, <2>5, <2>6, <2>7, <2>8, <2>9, <2>10, <2>11, <2>12, <2>13, <2>14, <2>15, <2>16, <2>17, <2>18, <2>19, <2>20, <2>21, <2>22, <2>23, <2>24, <2>25, <2>26, <2>27, <2>28, <2>29, <2>30, <2>31, <2>32, <2>33, <2>34 DEF Call, Step
<1> QED BY <1>1, <1>2, <1>3 DEF Next

\* The checks that call malloc_printerr do not fail: the one on the next size is
\* done again with the mutex, the one on the first chunk can not meet p.
LEMMA AbortStep == IInv /\ [Next]_vars => NoFalseAbort'
<1> SUFFICES ASSUME IInv, [Next]_vars PROVE NoFalseAbort' OBVIOUS
<1> USE DEF At, Goto, Move, Begin, Return, Room, Exhausted, Consolidated, shared, system, owners, control
<1>1. CASE UNCHANGED vars BY <1>1 DEF vars, IInv, TypeOK, NoFalseAbort, Labels
<1>2. CASE Stop BY <1>2 DEF Stop, vars, IInv, TypeOK, NoFalseAbort, Labels
<1>3. ASSUME NEW t \in Threads, Call(t) \/ Step(t) PROVE NoFalseAbort'
  <2>1. CASE MallocCached(t) BY <2>1 DEF MallocCached, IInv, TypeOK, NoFalseAbort, Labels
  <2>2. CASE Malloc(t) BY <2>2 DEF Malloc, IInv, TypeOK, NoFalseAbort, Labels
  <2>3. CASE MallocTrim(t) BY <2>3 DEF MallocTrim, IInv, TypeOK, NoFalseAbort, Labels
  <2>4. CASE Mallopt(t) BY <2>4 DEF Mallopt, IInv, TypeOK, NoFalseAbort, Labels
  <2>5. CASE FreeCached(t) BY <2>5 DEF FreeCached, IInv, TypeOK, NoFalseAbort, Labels
  <2>6. CASE Free(t) BY <2>6 DEF Free, IInv, TypeOK, NoFalseAbort, Labels
  <2>7. CASE ThreadShutdown(t) BY <2>7 DEF ThreadShutdown, IInv, TypeOK, NoFalseAbort, Labels
  <2>8. CASE FreeNext(t) BY <2>8 DEF FreeNext, IInv, TypeOK, NoFalseAbort, Labels
  <2>9. CASE Exit(t) BY <2>9 DEF Exit, IInv, TypeOK, NoFalseAbort, Labels
  <2>10. CASE IsFast(t) BY <2>10 DEF IsFast, IInv, TypeOK, NoFalseAbort, Labels
  <2>11. CASE CheckNext(t) BY <2>11 DEF CheckNext, IInv, TypeOK, NoFalseAbort, Labels
  <2>12. CASE Relock(t) BY <2>12 DEF Relock, IInv, TypeOK, NoFalseAbort, Labels
  <2>13. CASE Recheck(t)
    <3>1. mutex = t /\ \A u \in Threads : ~At(u, "settop") BY <2>13 DEF Recheck, IInv, MutexOK, Locked
    <3>2. top_size < system_mem BY <3>1 DEF IInv, SystemOK
    <3>3. ~(top_size >= system_mem) BY <3>2 DEF IInv, TypeOK
    <3> QED BY <2>13, <3>3 DEF Recheck, IInv, TypeOK, NoFalseAbort
  <2>14. CASE Mark(t) BY <2>14 DEF Mark, IInv, TypeOK, NoFalseAbort, Labels
  <2>15. CASE ReadHead(t) BY <2>15 DEF ReadHead, IInv, TypeOK, NoFalseAbort, Labels
  <2>16. CASE Link(t)
    <3>1. old[t] # p[t] BY <2>16 DEF Link, IInv, PushOK
    <3> QED BY <2>16, <3>1 DEF Link, IInv, TypeOK, NoFalseAbort
  <2>17. CASE Push(t) BY <2>17 DEF Push, IInv, TypeOK, NoFalseAbort, Labels
  <2>18. CASE PushAgain(t) BY <2>18 DEF PushAgain, IInv, TypeOK, NoFalseAbort, Labels
  <2>19. CASE Merge(t) BY <2>19 DEF Merge, IInv, TypeOK, NoFalseAbort, Labels
  <2>20. CASE Lock(t) BY <2>20 DEF Lock, IInv, TypeOK, NoFalseAbort, Labels
  <2>21. CASE Head(t) BY <2>21 DEF Head, IInv, TypeOK, NoFalseAbort, Labels
  <2>22. CASE ReadFd(t) BY <2>22 DEF ReadFd, IInv, TypeOK, NoFalseAbort, Labels
  <2>23. CASE Pop(t) BY <2>23 DEF Pop, IInv, TypeOK, NoFalseAbort, Labels
  <2>24. CASE PopAgain(t) BY <2>24 DEF PopAgain, IInv, TypeOK, NoFalseAbort, Labels
  <2>25. CASE TakeBinned(t) BY <2>25 DEF TakeBinned, IInv, TypeOK, NoFalseAbort, Labels
  <2>26. CASE ConsolidateAndRetry(t) BY <2>26 DEF ConsolidateAndRetry, IInv, TypeOK, NoFalseAbort, Labels
  <2>27. CASE Fail(t) BY <2>27 DEF Fail, IInv, TypeOK, NoFalseAbort, Labels
  <2>28. CASE Exchange(t) BY <2>28 DEF Exchange, IInv, TypeOK, NoFalseAbort, Labels
  <2>29. CASE MergeNext(t) BY <2>29 DEF MergeNext, IInv, TypeOK, NoFalseAbort, Labels
  <2>30. CASE NextBin(t)
    <3>1. Consolidated(t) # "abort" BY <2>30 DEF NextBin, IInv, ControlOK
    <3> QED BY <2>30, <3>1 DEF NextBin, IInv, TypeOK, NoFalseAbort
  <2>31. CASE LowerSystemMem(t) BY <2>31 DEF LowerSystemMem, IInv, TypeOK, NoFalseAbort, Labels
  <2>32. CASE SetTop(t) BY <2>32 DEF SetTop, IInv, TypeOK, NoFalseAbort, Labels
  <2>33. CASE set_max_fast(t) BY <2>33 DEF set_max_fast, IInv, TypeOK, NoFalseAbort, Labels
  <2>34. CASE Unlock(t) BY <2>34 DEF Unlock, IInv, TypeOK, NoFalseAbort, Labels
  <2> QED BY <1>3, <2>1, <2>2, <2>3, <2>4, <2>5, <2>6, <2>7, <2>8, <2>9, <2>10, <2>11, <2>12, <2>13, <2>14, <2>15, <2>16, <2>17, <2>18, <2>19, <2>20, <2>21, <2>22, <2>23, <2>24, <2>25, <2>26, <2>27, <2>28, <2>29, <2>30, <2>31, <2>32, <2>33, <2>34 DEF Call, Step
<1> QED BY <1>1, <1>2, <1>3 DEF Next

-----------------------------------------------------------------------------
\* In the first state all chunks are in the arena.
LEMMA InitInv == Init => IInv
<1> SUFFICES ASSUME Init PROVE IInv OBVIOUS
<1> USE FastAssumption DEF Init, Bins, At
<1>1. TypeOK
  <2>1. system_mem \in Int /\ top_size \in Int /\ max_fast \in 0 .. NFASTBINS OBVIOUS
  <2>2. /\ fastbins \in [Bins -> Links] /\ fd \in [Chunks -> Links \union {JUNK}]
        /\ have_fastchunks \in BOOLEAN /\ mutex \in Threads \union {NIL}
    BY DEF Links
  <2>3. arena \subseteq Chunks /\ tcache \in [Threads -> SUBSET Chunks] /\ user \subseteq Chunks OBVIOUS
  <2>4. pc \in [Threads -> Labels] /\ op \in [Threads -> Ops] BY DEF Labels, Ops
  <2>5. nb \in [Threads -> Bins] /\ idx \in [Threads -> Bins] BY BinFacts
  <2>6. p \in [Threads -> Links] /\ old \in [Threads -> Links] /\ next \in [Threads -> Links] BY DEF Links
  <2>7. where \in [Chunks -> Places] /\ rank \in [Chunks -> Nat] BY DEF Places
  <2> QED BY <2>1, <2>2, <2>3, <2>4, <2>5, <2>6, <2>7 DEF TypeOK
<1>2. MutexOK BY DEF MutexOK, Locked
<1>3. SystemOK BY DEF SystemOK
<1>4. \A t \in Threads : ControlOK(t) /\ PushOK(t) /\ PopOK(t)
  BY DEF ControlOK, PushOK, PopOK, ForFree, Freeing, Pushing, Empty
<1>5. OwnersOK BY DEF OwnersOK
<1>6. FastbinsLinked BY DEF FastbinsLinked, Chain, In, InBin
<1>7. NoFalseAbort BY DEF NoFalseAbort
<1> QED BY <1>1, <1>2, <1>3, <1>4, <1>5, <1>6, <1>7 DEF IInv

\* Together, one step.
LEMMA StepInv == IInv /\ [Next]_vars => IInv'
<1> SUFFICES ASSUME IInv, [Next]_vars PROVE IInv' OBVIOUS
<1>1. TypeOK' BY TypeStep
<1>2. MutexOK' /\ SystemOK' BY MutexStep, SystemStep
<1>3. (\A t \in Threads : ControlOK(t))' BY ControlStep
<1>4. (\A t \in Threads : PushOK(t))' BY PushStep
<1>5. (\A t \in Threads : PopOK(t))' BY PopStep
<1>6. OwnersOK' /\ FastbinsLinked' BY OwnersStep, LinkedStep
<1>7. NoFalseAbort' BY AbortStep
<1> QED BY <1>1, <1>2, <1>3, <1>4, <1>5, <1>6, <1>7 DEF IInv

\* The inductive invariant, for every number of threads and chunks.
THEOREM InvHolds == Spec => []IInv
<1>1. Init => IInv BY InitInv
<1>2. IInv /\ [Next]_vars => IInv' BY StepInv
<1> QED BY <1>1, <1>2, PTL DEF Spec

\* The chunks each place claims are those that belong there.
LEMMA OwnersAgree == IInv => OneOwner
<1> SUFFICES ASSUME IInv PROVE OneOwner OBVIOUS
<1> USE DEF IInv, TypeOK, OwnersOK
<1>1. user = In("user") /\ arena = In("arena") BY DEF In
<1>2. UNION {tcache[t] : t \in Threads} = In("tcache") BY DEF In
<1>3. {p[t] : t \in Threads} \ {NIL} = In("hand") BY BinFacts DEF In, Links
<1>4. \A t, u \in Threads :
        t # u => tcache[t] \intersect tcache[u] = {} /\ (p[t] = p[u] => p[t] = NIL)
  OBVIOUS
<1> QED BY <1>1, <1>2, <1>3, <1>4 DEF OneOwner

\* Pushes without the mutex, pops and exchanges with it: whatever their order,
\* every chunk is in exactly one place, and every fast bin is an acyclic list
\* of exactly its chunks.
THEOREM NoChunkLost == Spec => []ChunksAccounted
<1>1. IInv => ChunksAccounted BY OwnersAgree DEF ChunksAccounted, IInv
<1> QED BY <1>1, InvHolds, PTL

\* No interleaving makes free report an error in a correct program.
THEOREM ChecksPass == Spec => []NoFalseAbort
<1>1. IInv => NoFalseAbort BY DEF IInv
<1> QED BY <1>1, InvHolds, PTL
=============================================================================
