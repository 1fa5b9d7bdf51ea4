------------------------------- MODULE MCLog --------------------------------
(* Instances of Log for TLC: threads and blocks are interchangeable. *)
EXTENDS Log, TLC

Symmetry == Permutations(Threads) \union Permutations(Blocks)
=============================================================================
