----------------------------- MODULE MCActions ------------------------------
(* Actions with one proposal of each kind.  The panels are interchangeable. *)
EXTENDS Actions, TLC

PanelSymmetry == Permutations(Panels)
=============================================================================
