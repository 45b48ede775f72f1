------------------------------ MODULE MCTurns ------------------------------
(* Turns with enough turns for one to run, one to wait and one to come in. *)
EXTENDS Turns
=============================================================================
