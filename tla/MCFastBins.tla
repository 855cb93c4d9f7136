----------------------------- MODULE MCFastBins -----------------------------
(***************************************************************************)
(* Threads and chunks of two sizes, small enough for every interleaving.   *)
(***************************************************************************)
EXTENDS FastBins, TLC

CONSTANTS t1, t2, c1, c2, c3

SizeClasses == c1 :> 0 @@ c2 :> 0 @@ c3 :> 1
=============================================================================
