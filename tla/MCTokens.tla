------------------------------ MODULE MCTokens ------------------------------
(***************************************************************************)
(* Model-checking instance of Tokens.                                      *)
(***************************************************************************)
EXTENDS Tokens, TLC

Symmetry == Permutations(Users) \cup Permutations(Workers)
=============================================================================
