------------------------------ MODULE MCVirtio ------------------------------
(* Model-checking instance of Virtio: MCVirtio.cfg gives the constants. *)
EXTENDS Virtio
=============================================================================
