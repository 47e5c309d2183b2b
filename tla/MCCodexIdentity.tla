------------------------- MODULE MCCodexIdentity -------------------------
(* CodexIdentity with two ACS processes and two accounts. *)
EXTENDS CodexIdentity
=============================================================================
