------------------------------- MODULE MCPipe -------------------------------
(* Instances of Pipe for TLC. *)
EXTENDS Pipe, TLC

Symmetry ==
  Permutations(Readers) \union Permutations(Writers) \union Permutations(Bytes)
=============================================================================
