------------------------------ MODULE MCLeave ------------------------------
(***************************************************************************)
(* Model-checking instance of Leave.                                       *)
(***************************************************************************)
EXTENDS Leave, TLC

Symmetry == Permutations(Employees)
=============================================================================
