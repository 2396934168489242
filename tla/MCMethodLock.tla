---------------------------- MODULE MCMethodLock ----------------------------
(* MethodLock with a few children, names and calls, for TLC. *)
EXTENDS MethodLock
=============================================================================
