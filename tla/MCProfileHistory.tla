-------------------------- MODULE MCProfileHistory --------------------------
(* Small instances of ProfileHistory. *)
EXTENDS ProfileHistory, TLC

Symmetry == Permutations(Names)

=============================================================================
