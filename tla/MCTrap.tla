------------------------------- MODULE MCTrap -------------------------------
(* Instance of Trap for TLC. *)
EXTENDS Trap
=============================================================================
