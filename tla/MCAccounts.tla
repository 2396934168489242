----------------------------- MODULE MCAccounts -----------------------------
(* Accounts with two children, a few users, groups and vservers, for TLC.  *)
(* The children are interchangeable.                                       *)
EXTENDS Accounts, TLC

Symmetry == Permutations(Procs)
=============================================================================
