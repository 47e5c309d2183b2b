---------------------------- MODULE MCSelfUpdate ----------------------------
(* One installation at version 1, versions 1 and 2 published, version 3     *)
(* being published by attempts that may bring two different builds.         *)
EXTENDS SelfUpdate, TLC
Symmetry == Permutations(Updaters) \cup Permutations(Builds)
=============================================================================
