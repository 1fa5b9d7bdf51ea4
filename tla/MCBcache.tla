------------------------------ MODULE MCBcache ------------------------------
EXTENDS Bcache, TLC

Symmetry == Permutations(Threads) \union Permutations(Slots) \union Permutations(Blocks)
=============================================================================
