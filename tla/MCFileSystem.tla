---------------------------- MODULE MCFileSystem ----------------------------
(* FileSystem with two names, one a prefix of the other. *)
EXTENDS FileSystem, TLC

A == <<"a">>
AB == <<"a", "b">>
Symmetry == Permutations(Procs)
MCPaths == {<<A>>, <<AB>>, <<A, A>>}
=============================================================================
