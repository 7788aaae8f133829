------------------------------ MODULE MCRoster ------------------------------
(***************************************************************************)
(* Model-checking instance of Roster.                                      *)
(***************************************************************************)
EXTENDS Roster, TLC

ShiftFlags == [emp |-> {TRUE}, grp |-> {TRUE}, shift |-> BOOLEAN]

Symmetry == Permutations(Groups) \cup Permutations(Shifts)
=============================================================================
