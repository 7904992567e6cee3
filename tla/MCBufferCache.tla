--------------------------- MODULE MCBufferCache ---------------------------
(* Model-checking instances of BufferCache. *)
EXTENDS BufferCache, TLC

Symmetry == Permutations(Users) \cup Permutations(Blocks \ Shared)
=============================================================================
