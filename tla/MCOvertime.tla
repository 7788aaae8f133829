---------------------------- MODULE MCOvertime -----------------------------
(***************************************************************************)
(* Model-checking instance of Overtime.                                    *)
(***************************************************************************)
EXTENDS Overtime, TLC

Symmetry == Permutations(Workers) \cup Permutations(Dates)
===========================================================================
