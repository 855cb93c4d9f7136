------------------------------ MODULE FastBins ------------------------------
(***************************************************************************)
(* What several threads do to one arena of docs/malloc-impl.c.  free links *)
(* a small chunk to its fast bin without the arena's mutex, by compare and *)
(* exchange; malloc, holding the mutex, takes chunks from there the same   *)
(* way, for its caller and for the cache of its thread, and consolidation  *)
(* takes a whole bin by one exchange.                                      *)
(*                                                                         *)
(* One action is one access to memory that several threads share.  What is *)
(* only touched with the mutex held (bins, top, the system) is the set     *)
(* arena of its chunks; Ptmalloc has the details.  where and rank are      *)
(* history variables, which no action depends on.                          *)
(***************************************************************************)
EXTENDS Integers, FiniteSets

CONSTANTS
  Threads, Chunks, NIL, JUNK,
  NFASTBINS,
  fastbin_index,  \* chunk -> the fast bin for its size
  MaxFasts,       \* how many fast bins mallopt may leave in use
  TcacheCount,
  SystemMem, TopSize

ASSUME FastAssumption ==
  /\ NIL \notin Chunks \union Threads
  /\ JUNK \notin Chunks \union {NIL}
  /\ NFASTBINS \in Nat \ {0}
  /\ fastbin_index \in [Chunks -> 0 .. NFASTBINS - 1]
  /\ MaxFasts \subseteq 0 .. NFASTBINS
  /\ NFASTBINS \in MaxFasts
  /\ SystemMem \in Nat
  /\ TopSize \in 1 .. SystemMem - 1

Bins == 0 .. NFASTBINS - 1

VARIABLES
  fastbins,         \* bin -> its first chunk
  fd,               \* chunk -> the next one, while it is in a fast bin
  have_fastchunks,
  max_fast,         \* bins below are in use
  mutex,            \* who holds it
  system_mem, top_size,
  arena,            \* free chunks that are in no fast bin and no cache
  tcache,           \* thread -> chunks in its cache
  user,             \* chunks the program has
  pc, op,           \* thread -> where it is, and what it needs the mutex for
  nb,               \* thread -> the bin for the size it needs
  idx,              \* thread -> the bin it consolidates
  p,                \* thread -> the chunk to be freed, or to be returned
  old, next,        \* thread -> what it has read from a bin, and from fd
  where,            \* chunk -> the one place it belongs
  rank              \* chunk in a fast bin -> how many are behind it

shared == <<fastbins, fd, have_fastchunks>>
system == <<max_fast, system_mem, top_size>>
owners == <<arena, tcache, user, where>>
control == <<op, nb, idx, p, old, next>>
vars == <<shared, system, owners, rank, mutex, pc, control>>

Places == {"arena", "user", "tcache", "hand", "fast", "detached"}

Init ==
  /\ fastbins = [i \in Bins |-> NIL]
  /\ fd = [c \in Chunks |-> JUNK]
  /\ have_fastchunks = FALSE
  /\ max_fast = NFASTBINS
  /\ mutex = NIL
  /\ system_mem = SystemMem
  /\ top_size = TopSize
  /\ arena = Chunks
  /\ tcache = [t \in Threads |-> {}]
  /\ user = {}
  /\ pc = [t \in Threads |-> "idle"]
  /\ op = [t \in Threads |-> "none"]
  /\ nb = [t \in Threads |-> 0]
  /\ idx = [t \in Threads |-> 0]
  /\ p = [t \in Threads |-> NIL]
  /\ old = [t \in Threads |-> NIL]
  /\ next = [t \in Threads |-> NIL]
  /\ where = [c \in Chunks |-> "arena"]
  /\ rank = [c \in Chunks |-> 0]

At(t, l) == pc[t] = l
Goto(t, l) == pc' = [pc EXCEPT ![t] = l]
Room(t, i) == Cardinality({c \in tcache[t] : fastbin_index[c] = i}) < TcacheCount

\* A thread that is exiting (its tcache is NULL) goes on with that.
Return(t) ==
  /\ Goto(t, IF op[t] = "exit" THEN "exit" ELSE "idle")
  /\ op' = [op EXCEPT ![t] = IF @ = "exit" THEN @ ELSE "none"]
  /\ nb' = [nb EXCEPT ![t] = 0]

Move(c, place) == where' = [where EXCEPT ![c] = place]

----------------------------------------------------------------------------
(* What a thread begins. *)

MallocCached(t) ==
  /\ At(t, "idle")
  /\ \E c \in tcache[t] :
       /\ tcache' = [tcache EXCEPT ![t] = @ \ {c}]
       /\ user' = user \union {c}
       /\ Move(c, "user")
  /\ UNCHANGED <<shared, system, arena, rank, mutex, pc, control>>

Begin(t, what) ==
  /\ At(t, "idle")
  /\ Goto(t, "lock")
  /\ op' = [op EXCEPT ![t] = what]
  /\ UNCHANGED <<shared, system, owners, rank, mutex, idx, p, old, next>>

\* The cache has no chunk of that size.
Malloc(t) ==
  /\ \E i \in Bins :
       /\ \A c \in tcache[t] : fastbin_index[c] # i
       /\ nb' = [nb EXCEPT ![t] = i]
  /\ Begin(t, "malloc")

MallocTrim(t) == Begin(t, "trim") /\ UNCHANGED nb
Mallopt(t) == Begin(t, "mallopt") /\ UNCHANGED nb

FreeCached(t) ==
  /\ At(t, "idle")
  /\ \E c \in user :
       /\ Room(t, fastbin_index[c])
       /\ tcache' = [tcache EXCEPT ![t] = @ \union {c}]
       /\ user' = user \ {c}
       /\ Move(c, "tcache")
  /\ UNCHANGED <<shared, system, arena, rank, mutex, pc, control>>

Free(t) ==
  /\ At(t, "idle")
  /\ \E c \in user :
       /\ ~Room(t, fastbin_index[c])
       /\ p' = [p EXCEPT ![t] = c]
       /\ user' = user \ {c}
       /\ Move(c, "hand")
  /\ Goto(t, "free")
  /\ op' = [op EXCEPT ![t] = "free"]
  /\ UNCHANGED <<shared, system, arena, tcache, rank, mutex, nb, idx, old, next>>

ThreadShutdown(t) ==
  /\ At(t, "idle")
  /\ Goto(t, "exit")
  /\ op' = [op EXCEPT ![t] = "exit"]
  /\ UNCHANGED <<shared, system, owners, rank, mutex, nb, idx, p, old, next>>

\* What was in the cache is freed.
FreeNext(t) ==
  /\ At(t, "exit")
  /\ \E c \in tcache[t] :
       /\ p' = [p EXCEPT ![t] = c]
       /\ tcache' = [tcache EXCEPT ![t] = @ \ {c}]
       /\ Move(c, "hand")
  /\ Goto(t, "free")
  /\ UNCHANGED <<shared, system, arena, user, rank, mutex, op, nb, idx, old, next>>

Exit(t) ==
  /\ At(t, "exit")
  /\ tcache[t] = {}
  /\ Goto(t, "gone")
  /\ UNCHANGED <<shared, system, owners, rank, mutex, control>>

----------------------------------------------------------------------------
(* free, past the cache. *)

\* The size is compared with max_fast, without the mutex.
IsFast(t) ==
  /\ At(t, "free")
  /\ nb' = [nb EXCEPT ![t] = fastbin_index[p[t]]]
  /\ Goto(t, IF fastbin_index[p[t]] < max_fast THEN "check" ELSE "lock")
  /\ UNCHANGED <<shared, system, owners, rank, mutex, op, idx, p, old, next>>

\* The test is not done again.
MutCheckNext(t) ==
  /\ At(t, "check")
  /\ \E size \in {0, top_size} : Goto(t, IF size >= system_mem THEN "abort" ELSE "mark")
  /\ UNCHANGED <<shared, system, owners, rank, mutex, control>>

\* The size of the next chunk is compared with system_mem, which others may
\* be changing: it may be top.  The test that fails is done again.
CheckNext(t) ==
  /\ At(t, "check")
  /\ \E size \in {0, top_size} : Goto(t, IF size >= system_mem THEN "relock" ELSE "mark")
  /\ UNCHANGED <<shared, system, owners, rank, mutex, control>>

Relock(t) ==
  /\ At(t, "relock")
  /\ mutex = NIL
  /\ mutex' = t
  /\ Goto(t, "recheck")
  /\ UNCHANGED <<shared, system, owners, rank, control>>

Recheck(t) ==
  /\ At(t, "recheck")
  /\ mutex' = NIL
  /\ Goto(t, IF top_size >= system_mem THEN "abort" ELSE "mark")
  /\ UNCHANGED <<shared, system, owners, rank, control>>

Mark(t) ==
  /\ At(t, "mark")
  /\ have_fastchunks' = TRUE
  /\ Goto(t, "read")
  /\ UNCHANGED <<fastbins, fd, system, owners, rank, mutex, control>>

ReadHead(t) ==
  /\ At(t, "read")
  /\ old' = [old EXCEPT ![t] = fastbins[nb[t]]]
  /\ Goto(t, "link")
  /\ UNCHANGED <<shared, system, owners, rank, mutex, op, nb, idx, p, next>>

\* The bin's first chunk can not be the one to be freed.
Link(t) ==
  /\ At(t, "link")
  /\ fd' = [fd EXCEPT ![p[t]] = old[t]]
  /\ Goto(t, IF old[t] = p[t] THEN "abort" ELSE "push")
  /\ UNCHANGED <<fastbins, have_fastchunks, system, owners, rank, mutex, control>>

\* The bin is written whatever it has become.
MutPush(t) ==
  /\ At(t, "push")
  /\ fastbins' = [fastbins EXCEPT ![nb[t]] = p[t]]
  /\ p' = [p EXCEPT ![t] = NIL]
  /\ old' = [old EXCEPT ![t] = NIL]
  /\ Return(t)
  /\ Move(p[t], "fast")
  /\ rank' = [rank EXCEPT ![p[t]] = IF old[t] = NIL THEN 0 ELSE rank[old[t]] + 1]
  /\ UNCHANGED <<fd, have_fastchunks, system, arena, tcache, user, mutex, idx, next>>

Push(t) ==
  /\ At(t, "push")
  /\ fastbins[nb[t]] = old[t]
  /\ fastbins' = [fastbins EXCEPT ![nb[t]] = p[t]]
  /\ p' = [p EXCEPT ![t] = NIL]
  /\ old' = [old EXCEPT ![t] = NIL]
  /\ Return(t)
  /\ Move(p[t], "fast")
  /\ rank' = [rank EXCEPT ![p[t]] = IF old[t] = NIL THEN 0 ELSE rank[old[t]] + 1]
  /\ UNCHANGED <<fd, have_fastchunks, system, arena, tcache, user, mutex, idx, next>>

PushAgain(t) ==
  /\ At(t, "push")
  /\ fastbins[nb[t]] # old[t]
  /\ old' = [old EXCEPT ![t] = fastbins[nb[t]]]
  /\ Goto(t, "link")
  /\ UNCHANGED <<shared, system, owners, rank, mutex, op, nb, idx, p, next>>

\* A chunk of no fast size is merged and goes to the bins.
Merge(t) ==
  /\ At(t, "merge")
  /\ arena' = arena \union {p[t]}
  /\ p' = [p EXCEPT ![t] = NIL]
  /\ Goto(t, "unlock")
  /\ Move(p[t], "arena")
  /\ UNCHANGED <<shared, system, tcache, user, rank, mutex, op, nb, idx, old, next>>

----------------------------------------------------------------------------
(* With the mutex. *)

Lock(t) ==
  /\ At(t, "lock")
  /\ mutex = NIL
  /\ mutex' = t
  /\ IF op[t] \in {"trim", "mallopt"}
     THEN /\ have_fastchunks' = FALSE
          /\ idx' = [idx EXCEPT ![t] = 0]
          /\ Goto(t, "exchange")
     ELSE /\ Goto(t, IF op[t] # "malloc" THEN "merge"
                     ELSE IF nb[t] < max_fast THEN "head" ELSE "bins")
          /\ UNCHANGED <<have_fastchunks, idx>>
  /\ UNCHANGED <<fastbins, fd, system, owners, rank, op, nb, p, old, next>>

\* A first chunk is for the caller, more are for the cache.
Head(t) ==
  /\ At(t, "head")
  /\ old' = [old EXCEPT ![t] = fastbins[nb[t]]]
  /\ Goto(t, IF fastbins[nb[t]] # NIL THEN "fd" ELSE IF p[t] = NIL THEN "bins" ELSE "unlock")
  /\ UNCHANGED <<shared, system, owners, rank, mutex, op, nb, idx, p, next>>

ReadFd(t) ==
  /\ At(t, "fd")
  /\ next' = [next EXCEPT ![t] = fd[old[t]]]
  /\ Goto(t, "pop")
  /\ UNCHANGED <<shared, system, owners, rank, mutex, op, nb, idx, p, old>>

\* From here on fd is memory of the user or of the cache.  The cache is filled
\* up with chunks of the same size.
Pop(t) ==
  /\ At(t, "pop")
  /\ fastbins[nb[t]] = old[t]
  /\ fastbins' = [fastbins EXCEPT ![nb[t]] = next[t]]
  /\ fd' = [fd EXCEPT ![old[t]] = JUNK]
  /\ rank' = [rank EXCEPT ![old[t]] = 0]
  /\ IF p[t] = NIL
     THEN /\ p' = [p EXCEPT ![t] = old[t]]
          /\ Move(old[t], "hand")
          /\ UNCHANGED tcache
     ELSE /\ tcache' = [tcache EXCEPT ![t] = @ \union {old[t]}]
          /\ Move(old[t], "tcache")
          /\ UNCHANGED p
  /\ old' = [old EXCEPT ![t] = NIL]
  /\ next' = [next EXCEPT ![t] = NIL]
  /\ Goto(t, IF Cardinality({c \in tcache'[t] : fastbin_index[c] = nb[t]}) < TcacheCount
             THEN "head" ELSE "unlock")
  /\ UNCHANGED <<have_fastchunks, system, arena, user, mutex, op, nb, idx>>

PopAgain(t) ==
  /\ At(t, "pop")
  /\ fastbins[nb[t]] # old[t]
  /\ old' = [old EXCEPT ![t] = fastbins[nb[t]]]
  /\ Goto(t, "fd")
  /\ UNCHANGED <<shared, system, owners, rank, mutex, op, nb, idx, p, next>>

TakeBinned(t) ==
  /\ At(t, "bins")
  /\ \E c \in arena :
       /\ fastbin_index[c] = nb[t]
       /\ arena' = arena \ {c}
       /\ p' = [p EXCEPT ![t] = c]
       /\ Move(c, "hand")
  /\ Goto(t, "unlock")
  /\ UNCHANGED <<shared, system, tcache, user, rank, mutex, op, nb, idx, old, next>>

Exhausted(t) == At(t, "bins") /\ \A c \in arena : fastbin_index[c] # nb[t]

\* The flag stays set.
MutConsolidateAndRetry(t) ==
  /\ Exhausted(t)
  /\ have_fastchunks
  /\ idx' = [idx EXCEPT ![t] = 0]
  /\ Goto(t, "exchange")
  /\ UNCHANGED <<shared, system, owners, rank, mutex, op, nb, p, old, next>>

ConsolidateAndRetry(t) ==
  /\ Exhausted(t)
  /\ have_fastchunks
  /\ have_fastchunks' = FALSE
  /\ idx' = [idx EXCEPT ![t] = 0]
  /\ Goto(t, "exchange")
  /\ UNCHANGED <<fastbins, fd, system, owners, rank, mutex, op, nb, p, old, next>>

\* No memory from the system either.
Fail(t) ==
  /\ Exhausted(t)
  /\ ~have_fastchunks
  /\ Goto(t, "unlock")
  /\ UNCHANGED <<shared, system, owners, rank, mutex, control>>

\* A bin is emptied; its chunks are merged one by one.
Exchange(t) ==
  /\ At(t, "exchange")
  /\ old' = [old EXCEPT ![t] = fastbins[idx[t]]]
  /\ fastbins' = [fastbins EXCEPT ![idx[t]] = NIL]
  /\ where' = [c \in Chunks |-> IF where[c] = "fast" /\ fastbin_index[c] = idx[t]
                                THEN "detached" ELSE where[c]]
  /\ Goto(t, "chunk")
  /\ UNCHANGED <<fd, have_fastchunks, system, arena, tcache, user, rank, mutex, op, nb, idx, p, next>>

MergeNext(t) ==
  /\ At(t, "chunk")
  /\ old[t] # NIL
  /\ old' = [old EXCEPT ![t] = fd[old[t]]]
  /\ fd' = [fd EXCEPT ![old[t]] = JUNK]
  /\ arena' = arena \union {old[t]}
  /\ Move(old[t], "arena")
  /\ rank' = [rank EXCEPT ![old[t]] = 0]
  /\ UNCHANGED <<fastbins, have_fastchunks, system, tcache, user, mutex, pc, op, nb, idx, p, next>>

Consolidated(t) ==
  CASE op[t] = "malloc" -> "bins"
    [] op[t] = "trim" -> "trim"
    [] op[t] = "mallopt" -> "set"

NextBin(t) ==
  /\ At(t, "chunk")
  /\ old[t] = NIL
  /\ idx' = [idx EXCEPT ![t] = IF @ + 1 \in Bins THEN @ + 1 ELSE 0]
  /\ Goto(t, IF idx[t] + 1 \in Bins THEN "exchange" ELSE Consolidated(t))
  /\ UNCHANGED <<shared, system, owners, rank, mutex, op, nb, p, old, next>>

\* systrim lowers system_mem before it sets the size of top.
LowerSystemMem(t) ==
  /\ At(t, "trim")
  /\ system_mem' = system_mem - (top_size - 1)
  /\ Goto(t, "settop")
  /\ UNCHANGED <<shared, max_fast, top_size, owners, rank, mutex, control>>

SetTop(t) ==
  /\ At(t, "settop")
  /\ top_size' = 1
  /\ Goto(t, "unlock")
  /\ UNCHANGED <<shared, max_fast, system_mem, owners, rank, mutex, control>>

set_max_fast(t) ==
  /\ At(t, "set")
  /\ max_fast' \in MaxFasts
  /\ Goto(t, "unlock")
  /\ UNCHANGED <<shared, system_mem, top_size, owners, rank, mutex, control>>

Unlock(t) ==
  /\ At(t, "unlock")
  /\ mutex' = NIL
  /\ IF p[t] = NIL THEN UNCHANGED <<user, where>>
     ELSE user' = user \union {p[t]} /\ Move(p[t], "user")
  /\ p' = [p EXCEPT ![t] = NIL]
  /\ Return(t)
  /\ UNCHANGED <<shared, system, arena, tcache, rank, idx, old, next>>

----------------------------------------------------------------------------

Call(t) ==
  MallocCached(t) \/ Malloc(t) \/ MallocTrim(t) \/ Mallopt(t) \/ FreeCached(t) \/ Free(t)
    \/ ThreadShutdown(t)

Step(t) ==
  \/ FreeNext(t) \/ Exit(t)
  \/ IsFast(t) \/ CheckNext(t) \/ Relock(t) \/ Recheck(t) \/ Mark(t) \/ ReadHead(t) \/ Link(t)
  \/ Push(t) \/ PushAgain(t) \/ Merge(t)
  \/ Lock(t) \/ Head(t) \/ ReadFd(t) \/ Pop(t) \/ PopAgain(t) \/ TakeBinned(t)
  \/ ConsolidateAndRetry(t) \/ Fail(t) \/ Exchange(t) \/ MergeNext(t) \/ NextBin(t)
  \/ LowerSystemMem(t) \/ SetTop(t) \/ set_max_fast(t) \/ Unlock(t)

\* Every thread has exited.
Stop == (\A t \in Threads : At(t, "gone")) /\ UNCHANGED vars

Next == Stop \/ \E t \in Threads : Call(t) \/ Step(t)

\* A thread that is inside a call is scheduled again; nothing makes it call.
Spec == Init /\ [][Next]_vars /\ \A t \in Threads : WF_vars(Step(t))

----------------------------------------------------------------------------
(* Properties. *)

\* The chunks S are a list from first, linked by fd: ranks go down by one.
Chain(first, S) ==
  /\ first = NIL => S = {}
  /\ first # NIL => first \in S
  /\ \A c \in S :
       /\ rank[c] <= rank[first]
       /\ rank[c] = 0 => fd[c] = NIL
       /\ rank[c] # 0 => fd[c] \in S /\ rank[fd[c]] = rank[c] - 1
       /\ \A d \in S \ {c} : rank[d] # rank[c]

In(place) == {c \in Chunks : where[c] = place}
InBin(i) == {c \in Chunks : where[c] = "fast" /\ fastbin_index[c] = i}

\* Every fast bin is a list of exactly the chunks pushed and not taken from
\* it, and so is the rest of a bin under consolidation.
FastbinsLinked ==
  /\ \A i \in Bins : Chain(fastbins[i], InBin(i))
  /\ \A t \in Threads : At(t, "chunk") => Chain(old[t], In("detached"))
  /\ (\A t \in Threads : ~At(t, "chunk")) => In("detached") = {}

\* Each chunk is in one place: with the program, in one cache, in the hands
\* of one thread, in the bins or in a fast bin.
OneOwner ==
  /\ user = In("user")
  /\ arena = In("arena")
  /\ UNION {tcache[t] : t \in Threads} = In("tcache")
  /\ {p[t] : t \in Threads} \ {NIL} = In("hand")
  /\ \A t, u \in Threads : t # u => tcache[t] \intersect tcache[u] = {} /\ (p[t] = p[u] => p[t] = NIL)

ChunksAccounted == FastbinsLinked /\ OneOwner

\* No thread of a correct program meets malloc_printerr.
NoFalseAbort == \A t \in Threads : ~At(t, "abort")

\* Whoever holds the mutex releases it, so it is free again and again: there are
\* only so many chunks that others can push while malloc pops, or consolidates
\* and tries again.
MutexReleased == []<>(mutex = NIL)
=============================================================================
