---------------------------- MODULE MCPagedCache ----------------------------
(* A small pool: the null block, one growth by GrowBy and one that the      *)
(* limit cuts short.                                                       *)
EXTENDS PagedCache, TLC

Symmetry == Permutations(Request) \cup Permutations(Hash)
=============================================================================
