---------------------------- MODULE MCMediaCache ----------------------------
(* MediaCache for TLC: two clips of different sizes in a cache that holds    *)
(* only one of them.                                                         *)
EXTENDS MediaCache, TLC

CONSTANTS small, large

\* Threads are interchangeable, and only safety is checked.
Threads == Permutations(Workers)

Sizes == small :> 1 @@ large :> 2
=============================================================================
