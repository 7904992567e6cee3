----------------------------- MODULE MCSpinLock -----------------------------
(* Model-checking instance of SpinLock: two CPUs, two locks. *)
EXTENDS SpinLock
=============================================================================
