------------------------ MODULE MCCheckoutReminders ------------------------
(***************************************************************************)
(* Model-checking instance of CheckoutReminders: an employee on a day      *)
(* shift and one on a shift that ends at midnight.                         *)
(***************************************************************************)
EXTENDS CheckoutReminders, TLC

CONSTANTS e1, e2

DayAndLate == (e1 :> [start |-> 2, end |-> 5]) @@ (e2 :> [start |-> 4, end |-> 0])
=============================================================================
