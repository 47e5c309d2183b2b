------------------------- MODULE MCLinuxSupervisor -------------------------
(* One contained process of one Session. *)
EXTENDS LinuxSupervisor
=============================================================================
