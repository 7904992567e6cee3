------------------------------- MODULE MCLog -------------------------------
(* Model-checking instances of Log. *)
EXTENDS Log, TLC

Symmetry == Permutations(Procs) \cup Permutations(Blocks)
=============================================================================
