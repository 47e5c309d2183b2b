----------------------------- MODULE MCExecutor -----------------------------
(* One invocation of every kind. *)
EXTENDS Executor
=============================================================================
