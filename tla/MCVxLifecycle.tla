---------------------------- MODULE MCVxLifecycle ----------------------------
(* VxLifecycle with two clients and at most two reboots under way, for TLC. *)
(* Clients are interchangeable, and so are waiters; runs of safety          *)
(* properties make use of it.                                               *)
EXTENDS VxLifecycle, TLC

Symmetry == Permutations(Clients) \cup Permutations(Waiters)
=============================================================================
