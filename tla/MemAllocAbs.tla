---------------------------- MODULE MemAllocAbs ----------------------------
(***************************************************************************)
(* The contract of the heap: what a client of _malloc and _free sees.      *)
(* There is no list, no region and no search here: a heap is a set of      *)
(* disjoint blocks in use.  "lost" is the end of all promises: the program *)
(* has touched memory it does not have (undefined behaviour in C).         *)
(***************************************************************************)
EXTENDS Integers

CONSTANTS HeaderSize, MinCapacity, Addresses, NoRequest, Queries

VARIABLES
  live,     \* block in use -> its capacity
  request,  \* the size a running _malloc was asked for, or NoRequest
  result,   \* what the last _malloc returned, until the next call
  lost

vars == <<live, request, result, lost>>

NULL == 0

AtLeast(q) == IF q >= MinCapacity THEN q ELSE MinCapacity

\* Neither the block at a nor its header shares a byte with a block in use.
Disjoint(a, cap) ==
  \A b \in DOMAIN live :
    a + HeaderSize + cap <= b \/ b + HeaderSize + live[b] <= a

Init ==
  /\ live = [a \in {} |-> 0]
  /\ request = NoRequest
  /\ result = NULL
  /\ lost = FALSE

Ask(q) ==
  /\ ~lost
  /\ request = NoRequest
  /\ request' = q
  /\ result' = NULL
  /\ UNCHANGED <<live, lost>>

\* The client gets the contents of a block that was not in use.  It is large
\* enough, and what it has too much could not have been made a block of its own.
Serve ==
  /\ request # NoRequest
  /\ \E a \in Addresses, slack \in 0 .. HeaderSize + MinCapacity - 1 :
       LET cap == AtLeast(request) + slack IN
       /\ a \notin DOMAIN live
       /\ Disjoint(a, cap)
       /\ live' = [b \in DOMAIN live \union {a} |-> IF b = a THEN cap ELSE live[b]]
       /\ result' = a + HeaderSize
  /\ request' = NoRequest
  /\ UNCHANGED lost

Refuse ==
  /\ request # NoRequest
  /\ request' = NoRequest
  /\ result' = NULL
  /\ UNCHANGED <<live, lost>>

Free(a) ==
  /\ ~lost
  /\ request = NoRequest
  /\ live' = [b \in DOMAIN live \ {a} |-> live[b]]
  /\ result' = NULL
  /\ UNCHANGED <<request, lost>>

\* Freeing a block again that is not in use does no harm.
FreeAgain ==
  /\ ~lost
  /\ request = NoRequest
  /\ result' = NULL
  /\ UNCHANGED <<live, request, lost>>

Lose ==
  /\ lost' = TRUE
  /\ request' = NoRequest
  /\ result' = NULL
  /\ UNCHANGED live

Next ==
  \/ \E q \in Queries : Ask(q)
  \/ Serve
  \/ Refuse
  \/ \E a \in DOMAIN live : Free(a)
  \/ FreeAgain
  \/ Lose

Spec == Init /\ [][Next]_vars
=============================================================================
