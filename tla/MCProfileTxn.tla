---------------------------- MODULE MCProfileTxn ----------------------------
(* Small instances of ProfileTxn. *)
EXTENDS ProfileTxn

=============================================================================
