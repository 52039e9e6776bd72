------------------------------ MODULE MCTasks ------------------------------
(* An instance of NodeTasks for TLC. *)
EXTENDS NodeTasks
=============================================================================
