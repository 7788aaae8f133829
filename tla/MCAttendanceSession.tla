------------------------ MODULE MCAttendanceSession ------------------------
(***************************************************************************)
(* Model-checking instance of AttendanceSession: days of three ticks, or    *)
(* of two where the rule changes; the default cutoff is one tick after      *)
(* midnight.                                                                *)
(***************************************************************************)
EXTENDS AttendanceSession, TLC

DayShift   == [start |-> 1, end |-> 2, cutoff |-> 1]
NightShift == [start |-> 2, end |-> 1, cutoff |-> 1]

OneRule   == {DayShift}
NightRule == {NightShift}

\* A cutoff of 0, and one of a tick.
ShortDays == {[start |-> 0, end |-> 1, cutoff |-> c] : c \in {0, 1}}

NoOutcomes    == {<<>>}
RangeOutcomes == {<<>>, <<"risk">>, <<"range">>, <<"range", "deviation">>}

Symmetry == Permutations(Workers)
============================================================================
