------------------------ MODULE MCProfileRefinement -------------------------
(* A small instance of the refinement of ProfileStore by ProfileTxn. *)
EXTENDS ProfileRefinement, TLC

Symmetry == Permutations(Procs) \cup Permutations(Names) \cup Permutations(Docs)

=============================================================================
