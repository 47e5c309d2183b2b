------------------------- MODULE MCDarwinSupervisor -------------------------
(* The supervisor, the target and one more PID, which descendants and an     *)
(* unrelated process share.                                                  *)
EXTENDS DarwinSupervisor
=============================================================================
