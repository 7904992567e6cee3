------------------------------ MODULE MCFiles ------------------------------
(* Files with two processes. *)
EXTENDS Files
=============================================================================
