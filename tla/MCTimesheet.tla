---------------------------- MODULE MCTimesheet ----------------------------
(***************************************************************************)
(* Model-checking instance of Timesheet: steps of four hours, a day shift  *)
(* (08:00 to 16:00) and a night shift (20:00 to 04:00).                    *)
(***************************************************************************)
EXTENDS Timesheet

DayAndNight == {<<2, 4>>, <<5, 1>>}
DayOnly     == {<<2, 4>>}
=============================================================================
