------------------------- MODULE MCSessionRecovery -------------------------
(* Small instances of SessionRecovery. *)
EXTENDS SessionRecovery

=============================================================================
