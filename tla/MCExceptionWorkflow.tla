----------------------- MODULE MCExceptionWorkflow ------------------------
(***************************************************************************)
(* Model-checking instance of ExceptionWorkflow.                           *)
(***************************************************************************)
EXTENDS ExceptionWorkflow, TLC

Symmetry == Permutations(Workers)
===========================================================================
