------------------------------ MODULE MCMemory ------------------------------
(* Memory on machines from one that init fills to one with room for two processes
   and the image that one of them builds. *)
EXTENDS Memory
=============================================================================
