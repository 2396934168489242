---------------------------- MODULE MCVxRegistry ----------------------------
(* VxRegistry with a few children, names and xids, for TLC.  Names are     *)
(* interchangeable, and so are the children that do not create; the        *)
(* properties are safety properties.                                       *)
EXTENDS VxRegistry, TLC

Symmetry == Permutations(Names) \cup Permutations(Procs \ Creators)
=============================================================================
