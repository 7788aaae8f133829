--------------------------- MODULE TimesheetProofs ---------------------------
(***************************************************************************)
(* What the timesheet, the statistics and the reports say of the same rows *)
(* is the same, for any number of employees and days, any shifts and any   *)
(* cutoff.                                                                 *)
(***************************************************************************)
EXTENDS Timesheet, LeaveProofs

---------------------------------------------------------------------------
(* Minutes. *)

LEMMA RestOfShift ==
    ASSUME NEW L \in Nat \ {0}, NEW a \in 0..(L - 1), NEW b \in 0..(L - 1)
    PROVE  (b + L - a) % L = IF b >= a THEN b - a ELSE b + L - a
OBVIOUS

\* The window that the code computes is the minutes of the shift.
LEMMA WindowIsShift ==
    ASSUME NEW s \in Shifts
    PROVE  /\ shift_window(s) = <<shift_window(s)[1], shift_window(s)[2]>>
           /\ shift_window(s)[1] \in Nat /\ shift_window(s)[2] \in Nat
           /\ shift_window(s)[1] < shift_window(s)[2]
           /\ \A m \in Int :
                InShift(s, m) <=> shift_window(s)[1] <= m /\ m < shift_window(s)[2]
<1> DEFINE a == s[1]
           b == s[2]
           L == DayLength
<1>1. s = <<a, b>> /\ a \in 0..(L - 1) /\ b \in 0..(L - 1) /\ L \in Nat \ {0}
  BY TimesheetAssumption
<1>2. shift_window(s) = IF b <= a THEN <<a, b + L>> ELSE <<a, b>>
  BY <1>1 DEF shift_window
<1>3. (b + L - a) % L = IF b >= a THEN b - a ELSE b + L - a
  <2> HIDE DEF a, b, L
  <2> QED BY <1>1, RestOfShift
<1>4. \A m \in Int :
        InShift(s, m) <=> a <= m /\ m < a + (IF (b + L - a) % L = 0 THEN L ELSE (b + L - a) % L)
  BY DEF InShift
<1> DEFINE end == IF b <= a THEN b + L ELSE b
<1>5. shift_window(s)[1] = a /\ shift_window(s)[2] = end /\ shift_window(s) = <<a, end>>
  <2> HIDE DEF a, b, L
  <2> QED BY <1>2
<1>6. a \in Nat /\ end \in Nat /\ a < end
  <2> HIDE DEF a, b, L
  <2> QED BY <1>1
<1>7. a + (IF (b + L - a) % L = 0 THEN L ELSE (b + L - a) % L) = end
  <2> HIDE DEF a, b, L
  <2> QED BY <1>1, <1>3
<1> HIDE DEF a, b, L, end
<1> QED BY <1>4, <1>5, <1>6, <1>7

LEMMA RegularIsOverlap ==
    ASSUME NEW l \in Log, Closed(l)
    PROVE  /\ l.in \in Nat /\ l.out \in Nat
           /\ Regular(l) \in Nat /\ OvertimeOf(l) \in Nat
           /\ Regular(l) = Cardinality({m \in l.in..(l.out - 1) : InShift(l.shift, m)})
           /\ OvertimeOf(l) = Cardinality((l.in..(l.out - 1))
                                \ {m \in l.in..(l.out - 1) : InShift(l.shift, m)})
<1> DEFINE i == l.in
           o == l.out
           w == shift_window(l.shift)
           a == w[1]
           b == w[2]
           All    == i..(o - 1)
           inside == {m \in All : InShift(l.shift, m)}
           lo == Later(i, a)
           hi == Earlier(o, b)
<1>1. i \in Nat /\ o \in Nat /\ l.shift \in Shifts
  BY DEF Log, Closed
<1>2. /\ w = <<a, b>> /\ a \in Nat /\ b \in Nat /\ a < b
      /\ \A m \in Int : InShift(l.shift, m) <=> a <= m /\ m < b
  BY <1>1, WindowIsShift
<1>3. Regular(l) = IF o <= i THEN 0 ELSE IF hi <= lo THEN 0 ELSE hi - lo
  BY <1>2 DEF Regular, overlap
<1>4. OvertimeOf(l) = IF o <= i THEN 0 ELSE o - i - Regular(l)
  BY DEF OvertimeOf
<1>5. lo \in Nat /\ hi \in Nat /\ i <= lo /\ a <= lo /\ hi <= o /\ hi <= b
      /\ (lo = i \/ lo = a) /\ (hi = o \/ hi = b)
  BY <1>1, <1>2 DEF Later, Earlier
<1>6. inside = lo..(hi - 1)
  <2> HIDE DEF w, a, b, lo, hi
  <2> QED BY <1>1, <1>2, <1>5
<1>7. /\ IsFiniteSet(All) /\ Cardinality(All) = IF i > o - 1 THEN 0 ELSE o - i
      /\ Cardinality(inside) = IF lo > hi - 1 THEN 0 ELSE hi - lo
  <2> HIDE DEF lo, hi, inside, i, o
  <2>1. i \in Int /\ o - 1 \in Int /\ lo \in Int /\ hi - 1 \in Int
    BY <1>1, <1>5
  <2>2. /\ IsFiniteSet(i..(o - 1))
        /\ Cardinality(i..(o - 1)) = IF i > o - 1 THEN 0 ELSE (o - 1) - i + 1
        /\ Cardinality(lo..(hi - 1)) = IF lo > hi - 1 THEN 0 ELSE (hi - 1) - lo + 1
    BY <2>1, FS_Interval
  <2> QED BY <1>1, <1>5, <1>6, <2>2
<1>8. /\ Cardinality(All \ inside) = Cardinality(All) - Cardinality(All \cap inside)
      /\ All \cap inside = inside
  <2>1. All \cap inside = inside
    OBVIOUS
  <2> HIDE DEF All, inside
  <2> QED BY <1>7, <2>1, FS_Difference
<1> HIDE DEF i, o, a, b, lo, hi, All, inside
<1>9. Regular(l) \in Nat /\ Regular(l) = Cardinality(inside)
  BY <1>1, <1>2, <1>3, <1>5, <1>7
<1>10. OvertimeOf(l) \in Nat /\ OvertimeOf(l) = Cardinality(All \ inside)
  BY <1>1, <1>3, <1>4, <1>5, <1>7, <1>8, <1>9
<1> QED BY <1>1, <1>9, <1>10 DEF i, o, All, inside

---------------------------------------------------------------------------
(* The inductive invariant. *)

SheetType ==
    /\ today \in Days
    /\ log \in [Employees -> [Days -> Log \cup {None}]]
    /\ exc \in [Employees -> [Days -> ExceptionRow \cup {None}]]
    /\ outExc \in [Employees -> [Days -> ExceptionRow \cup {None}]]
    /\ ot \in [Employees -> [Days -> OvertimeRow \cup {None}]]

\* Overtime is recorded for sessions that have ended, an exception about a log
\* that is there, and the overtime approved is a number of minutes.
RowsSound(l, x, y, o) ==
    /\ x # None => l # None /\ (~Closed(l) => ~x.second)
    /\ y # None => Closed(l)
    /\ o # None => Closed(l)
    /\ o # None /\ o.status = "APPROVED" => o.minutes \in Nat

\* The IN log of a day closed by the system has an exception, older than one of
\* the OUT log, which says so unless it was decided.
AutoSound(l, x) ==
    l # None /\ l.auto =>
        /\ Closed(l)
        /\ x # None
        /\ ~x.second
        /\ x.status = "PENDING" => x.type = "AUTO_CLOSED"

DaySound(l, x, y, o) == RowsSound(l, x, y, o) /\ AutoSound(l, x)

SheetInv == /\ SheetType
            /\ \A e \in Employees, d \in Days :
                  DaySound(log[e][d], exc[e][d], outExc[e][d], ot[e][d])

\* An action on the day d of an employee e writes rows there and leaves the others.
LEMMA DayWritten ==
    ASSUME SheetInv, NEW e \in Employees, NEW d \in Days,
           NEW l \in Log \cup {None},
           NEW x \in ExceptionRow \cup {None}, NEW y \in ExceptionRow \cup {None},
           NEW o \in OvertimeRow \cup {None},
           log' = [log EXCEPT ![e][d] = l],
           exc' = [exc EXCEPT ![e][d] = x],
           outExc' = [outExc EXCEPT ![e][d] = y],
           ot' = [ot EXCEPT ![e][d] = o],
           DaySound(l, x, y, o), today' = today
    PROVE  SheetInv'
<1>1. SheetType'
  BY DEF SheetInv, SheetType
<1>2. ASSUME NEW f \in Employees, NEW c \in Days
      PROVE  DaySound(log'[f][c], exc'[f][c], outExc'[f][c], ot'[f][c])
  <2>1. CASE f = e /\ c = d
    <3>1. log'[f][c] = l /\ exc'[f][c] = x /\ outExc'[f][c] = y /\ ot'[f][c] = o
      BY <2>1 DEF SheetInv, SheetType
    <3> QED BY <3>1
  <2>2. CASE ~(f = e /\ c = d)
    <3>1. /\ log'[f][c] = log[f][c] /\ ot'[f][c] = ot[f][c]
          /\ exc'[f][c] = exc[f][c] /\ outExc'[f][c] = outExc[f][c]
      BY <2>2 DEF SheetInv, SheetType
    <3> QED BY <3>1 DEF SheetInv
  <2> QED BY <2>1, <2>2
<1> QED BY <1>1, <1>2 DEF SheetInv

LEMMA NothingWritten ==
    ASSUME SheetInv, NEW e \in Employees, NEW d \in Days
    PROVE  /\ log[e][d] \in Log \cup {None} /\ log = [log EXCEPT ![e][d] = log[e][d]]
           /\ exc[e][d] \in ExceptionRow \cup {None} /\ exc = [exc EXCEPT ![e][d] = exc[e][d]]
           /\ outExc[e][d] \in ExceptionRow \cup {None}
           /\ outExc = [outExc EXCEPT ![e][d] = outExc[e][d]]
           /\ ot[e][d] \in OvertimeRow \cup {None} /\ ot = [ot EXCEPT ![e][d] = ot[e][d]]
           /\ DaySound(log[e][d], exc[e][d], outExc[e][d], ot[e][d])
BY DEF SheetInv, SheetType

\* The exceptions that are made.
LEMMA ExceptionsMade ==
    ASSUME NEW other, NEW x \in ExceptionRow \cup {None}, NEW type \in ExceptionTypes
    PROVE  /\ Exception(type, other) \in ExceptionRow /\ Exception(type, other) # None
           /\ ~Exception(type, None).second
           /\ Flagged(x, other) \subseteq ExceptionRow \cup {None}
           /\ x = None => \A y \in Flagged(x, None) : y = None \/ ~y.second
           /\ AutoClosedException(x, other) \in ExceptionRow
           /\ AutoClosedException(x, other) # None
           /\ AutoClosedException(x, other).status = "PENDING"
                => AutoClosedException(x, other).type = "AUTO_CLOSED"
           /\ AutoClosedException(x, other).second
                = IF x = None THEN other # None ELSE x.second
<1>1. \A t \in ExceptionTypes :
        Exception(t, other) \in ExceptionRow /\ Exception(t, other) # None
  <2>1. \A t \in ExceptionTypes : Exception(t, other) \in ExceptionRow
    BY DEF Exception, ExceptionRow
  <2> QED BY <2>1, NoRowAssumption
<1>2. \A t \in ExceptionTypes :
        x # None => /\ [x EXCEPT !.type = t] \in ExceptionRow
                    /\ [x EXCEPT !.type = t].type = t
                    /\ [x EXCEPT !.type = t].second = x.second
  BY DEF ExceptionRow
<1>3. {"SUSPECTED_LOCATION_SPOOF", "LARGE_TIME_DEVIATION", "AUTO_CLOSED"} \subseteq ExceptionTypes
  BY DEF ExceptionTypes
<1>4. /\ Flagged(x, other) \subseteq ExceptionRow \cup {None}
      /\ ~Exception(type, None).second
      /\ x = None => \A y \in Flagged(x, None) : y = None \/ ~y.second
  <2>1. \A t \in ExceptionTypes : ~Exception(t, None).second
    BY DEF Exception
  <2>2. Flagged(x, other) \subseteq ExceptionRow \cup {None}
    BY <1>1, <1>2, <1>3 DEF Flagged, AtRisk
  <2> QED BY <1>3, <2>1, <2>2 DEF Flagged, AtRisk
<1>5. CASE x = None
  <2>1. AutoClosedException(x, other) = Exception("AUTO_CLOSED", other)
    BY <1>5 DEF AutoClosedException
  <2>2. /\ Exception("AUTO_CLOSED", other).type = "AUTO_CLOSED"
        /\ Exception("AUTO_CLOSED", other).second = (other # None)
    BY DEF Exception
  <2> QED BY <1>1, <1>3, <1>4, <1>5, <2>1, <2>2
<1>6. CASE x # None /\ Pending(x)
  <2>1. AutoClosedException(x, other) = [x EXCEPT !.type = "AUTO_CLOSED"]
    BY <1>6 DEF AutoClosedException
  <2> QED BY <1>1, <1>2, <1>3, <1>4, <1>6, <2>1, NoRowAssumption
<1>7. CASE x # None /\ ~Pending(x)
  <2>1. AutoClosedException(x, other) = x
    BY <1>7 DEF AutoClosedException
  <2> QED BY <1>1, <1>4, <1>7, <2>1 DEF Pending
<1> QED BY <1>5, <1>6, <1>7

LEMMA Times ==
    /\ InTimes \subseteq Nat /\ OutTimes \subseteq Nat /\ Decided \subseteq Nat
    /\ DayLength + Cutoff \in Nat
BY TimesheetAssumption

LEMMA CheckInStep ==
    ASSUME SheetInv, NEW e \in Employees, NEW d \in Days, CheckIn(e, d), today' = today
    PROVE  SheetInv'
<1>1. PICK t \in InTimes, s \in Shifts :
         log' = [log EXCEPT ![e][d] = [shift |-> s, in |-> t, out |-> None, auto |-> FALSE]]
  BY DEF CheckIn
<1> DEFINE l == [shift |-> s, in |-> t, out |-> None, auto |-> FALSE]
<1>2. l \in Log /\ l # None /\ ~l.auto /\ ~Closed(l)
  <2>1. t \in Nat
    BY Times
  <2>2. l \in Log
    BY <2>1 DEF Log
  <2> QED BY <2>2, NoRowAssumption DEF Closed
<1>21. log' = [log EXCEPT ![e][d] = l]
  BY <1>1
<1> HIDE DEF l
<1>3. log[e][d] = None
  <2>1. d >= d
    BY DEF Days
  <2> QED BY <2>1 DEF CheckIn
<1>4. ot[e][d] = None /\ ot' = ot /\ outExc[e][d] = None /\ outExc' = outExc
  BY <1>3, NothingWritten DEF DaySound, RowsSound, Closed, CheckIn
<1>5. PICK x \in ExceptionRow \cup {None} : /\ exc' = [exc EXCEPT ![e][d] = x]
                                            /\ x = None \/ ~x.second
  <2>1. PICK x \in Flagged(exc[e][d], outExc[e][d]) : exc' = [exc EXCEPT ![e][d] = x]
    BY DEF CheckIn
  <2>2. exc[e][d] = None
    BY <1>3, NothingWritten DEF DaySound, RowsSound
  <2>3. x \in ExceptionRow \cup {None} /\ (x = None \/ ~x.second)
    <3>1. "FACE_NOT_CAPTURED" \in ExceptionTypes /\ exc[e][d] \in ExceptionRow \cup {None}
      BY NothingWritten DEF ExceptionTypes
    <3> QED BY <1>4, <2>1, <2>2, <3>1, ExceptionsMade
  <2> QED BY <2>1, <2>3
<1>6. DaySound(l, x, outExc[e][d], ot[e][d])
  BY <1>2, <1>4, <1>5 DEF DaySound, RowsSound, AutoSound
<1>7. /\ ot' = [ot EXCEPT ![e][d] = ot[e][d]] /\ ot[e][d] \in OvertimeRow \cup {None}
      /\ outExc' = [outExc EXCEPT ![e][d] = outExc[e][d]]
      /\ outExc[e][d] \in ExceptionRow \cup {None}
  BY <1>4, NothingWritten
<1> QED BY <1>2, <1>21, <1>5, <1>6, <1>7, DayWritten

LEMMA CheckOutStep ==
    ASSUME SheetInv, NEW e \in Employees, NEW d \in Days, CheckOut(e, d), today' = today
    PROVE  SheetInv'
<1>1. PICK t \in OutTimes : log' = [log EXCEPT ![e][d].out = t]
  BY DEF CheckOut
<1> DEFINE l == [log[e][d] EXCEPT !.out = t]
<1>2. log[e][d] \in Log /\ ~Closed(log[e][d])
  BY NothingWritten DEF CheckOut
<1>3. l \in Log /\ l # None /\ l.out # None /\ l.auto = log[e][d].auto
  BY <1>2, Times, NoRowAssumption, NoneAssumption DEF Log
<1>4. log' = [log EXCEPT ![e][d] = l]
  BY <1>1
<1> HIDE DEF l
<1>5. ~l.auto /\ Closed(l)
  BY <1>2, <1>3, NoRowAssumption, NothingWritten DEF DaySound, AutoSound, Closed
<1>6. log'[e][d] = l
  BY <1>4 DEF SheetInv, SheetType
<1>7. OvertimeOf(l) \in Nat
  BY <1>3, <1>5, RegularIsOverlap
<1>8. PICK o \in OvertimeRow \cup {None} :
         /\ ot' = [ot EXCEPT ![e][d] = o]
         /\ o # None /\ o.status = "APPROVED" => o.minutes \in Nat
  <2>1. CASE ot' = ot
    BY <2>1, NothingWritten DEF DaySound, RowsSound
  <2>2. CASE ot' = [ot EXCEPT ![e][d] = AutoOvertime(l)]
    <3>1. AutoOvertime(l) \in OvertimeRow \cup {None}
      BY <1>7 DEF AutoOvertime, OvertimeRow
    <3>2. AutoOvertime(l) # None => AutoOvertime(l).status = "PENDING"
      BY DEF AutoOvertime
    <3> QED BY <2>2, <3>1, <3>2
  <2> QED BY <1>6, <2>1, <2>2 DEF CheckOut
<1>9. PICK x \in ExceptionRow \cup {None} : exc' = [exc EXCEPT ![e][d] = x]
  <2>1. PICK x \in Flagged(exc[e][d], outExc[e][d]) : exc' = [exc EXCEPT ![e][d] = x]
    BY DEF CheckOut
  <2>2. x \in ExceptionRow \cup {None}
    BY <2>1, NothingWritten, ExceptionsMade DEF ExceptionTypes
  <2> QED BY <2>1, <2>2
<1>10. /\ outExc' = [outExc EXCEPT ![e][d] = outExc[e][d]]
       /\ outExc[e][d] \in ExceptionRow \cup {None}
  BY NothingWritten DEF CheckOut
<1>11. DaySound(l, x, outExc[e][d], o)
  BY <1>3, <1>5, <1>8 DEF DaySound, RowsSound, AutoSound
<1> QED BY <1>3, <1>4, <1>8, <1>9, <1>10, <1>11, DayWritten

LEMMA ReportMissedStep ==
    ASSUME SheetInv, NEW e \in Employees, NEW d \in Days, ReportMissed(e, d), today' = today
    PROVE  SheetInv'
<1>1. /\ log' = log /\ outExc' = outExc /\ ot' = ot
      /\ log[e][d] # None /\ ~Closed(log[e][d])
  BY DEF ReportMissed
<1>11. outExc[e][d] = None
  BY <1>1, NothingWritten DEF DaySound, RowsSound
<1>2. PICK x \in ExceptionRow : exc' = [exc EXCEPT ![e][d] = x] /\ ~x.second
  <2>1. CASE exc[e][d] = None
    <3> DEFINE x == Exception("MISSED_CHECKOUT", outExc[e][d])
    <3>1. x \in ExceptionRow /\ ~x.second
      BY <1>11 DEF Exception, ExceptionRow, ExceptionTypes
    <3>2. exc' = [exc EXCEPT ![e][d] = x]
      BY <2>1 DEF ReportMissed, Pending
    <3> HIDE DEF x
    <3> QED BY <3>1, <3>2
  <2>2. CASE exc[e][d] # None
    <3> DEFINE x == [exc[e][d] EXCEPT !.type = "MISSED_CHECKOUT"]
    <3>1. x \in ExceptionRow /\ ~x.second
      <4>1. exc[e][d] \in ExceptionRow /\ ~exc[e][d].second
        BY <1>1, <2>2, NothingWritten DEF DaySound, RowsSound
      <4> QED BY <4>1 DEF ExceptionRow, ExceptionTypes
    <3>2. exc' = [exc EXCEPT ![e][d] = x]
      BY <2>2 DEF ReportMissed, SheetInv, SheetType
    <3> HIDE DEF x
    <3> QED BY <3>1, <3>2
  <2> QED BY <2>1, <2>2
<1>3. DaySound(log[e][d], x, outExc[e][d], ot[e][d])
  BY <1>1, <1>2, NothingWritten DEF DaySound, RowsSound, AutoSound
<1>4. /\ log' = [log EXCEPT ![e][d] = log[e][d]] /\ log[e][d] \in Log \cup {None}
      /\ outExc' = [outExc EXCEPT ![e][d] = outExc[e][d]]
      /\ outExc[e][d] \in ExceptionRow \cup {None}
      /\ ot' = [ot EXCEPT ![e][d] = ot[e][d]] /\ ot[e][d] \in OvertimeRow \cup {None}
  BY <1>1, NothingWritten
<1> QED BY <1>2, <1>3, <1>4, DayWritten

LEMMA AutoCloseStep ==
    ASSUME SheetInv, NEW e \in Employees, NEW d \in Days, AutoClose(e, d), today' = today
    PROVE  SheetInv'
<1> DEFINE l == [log[e][d] EXCEPT !.out = DayLength + Cutoff, !.auto = TRUE]
           x == AutoClosedException(exc[e][d], outExc[e][d])
<1>1. log[e][d] \in Log /\ ~Closed(log[e][d])
  BY NothingWritten DEF AutoClose
<1>2. l \in Log /\ l # None /\ l.out # None
  BY <1>1, Times, NoRowAssumption, NoneAssumption DEF Log
<1>3. log' = [log EXCEPT ![e][d] = l]
  BY <1>1 DEF AutoClose, SheetInv, SheetType
<1>4. exc' = [exc EXCEPT ![e][d] = x] /\ ot' = ot /\ outExc' = outExc
  BY DEF AutoClose
<1>5. /\ x \in ExceptionRow /\ x # None
      /\ x.status = "PENDING" => x.type = "AUTO_CLOSED"
      /\ x.second = IF exc[e][d] = None THEN outExc[e][d] # None ELSE exc[e][d].second
  BY NothingWritten, ExceptionsMade DEF ExceptionTypes
<1> HIDE DEF l, x
<1>6. ot[e][d] = None /\ outExc[e][d] = None
  BY <1>1, NothingWritten DEF DaySound, RowsSound
<1>7. ~x.second
  BY <1>1, <1>5, <1>6, NothingWritten DEF DaySound, RowsSound
<1>8. DaySound(l, x, outExc[e][d], ot[e][d])
  BY <1>2, <1>5, <1>6, <1>7 DEF DaySound, RowsSound, AutoSound, Closed
<1>9. /\ ot' = [ot EXCEPT ![e][d] = ot[e][d]] /\ ot[e][d] \in OvertimeRow \cup {None}
      /\ outExc' = [outExc EXCEPT ![e][d] = outExc[e][d]]
      /\ outExc[e][d] \in ExceptionRow \cup {None}
  BY <1>4, NothingWritten
<1> QED BY <1>2, <1>3, <1>4, <1>5, <1>8, <1>9, DayWritten

\* A check-out entered by the administrator.
LEMMA CheckoutResolved ==
    ASSUME SheetInv, NEW e \in Employees, NEW d \in Days,
           NEW from \in Nat, log[e][d] # None, ResolveCheckout(e, d, from)
    PROVE  \E l \in Log, o \in OvertimeRow \cup {None} :
             /\ log' = [log EXCEPT ![e][d] = l] /\ Closed(l) /\ ~l.auto /\ l # None
             /\ ot' = [ot EXCEPT ![e][d] = o]
             /\ o # None /\ o.status = "APPROVED" => o.minutes \in Nat
<1>1. PICK t \in OutTimes :
        LET raw == OvertimeOf([log[e][d] EXCEPT !.in = from, !.out = t])
        IN  /\ log' = [log EXCEPT ![e][d] = Resolved(@, t)]
            /\ \/ UNCHANGED ot
               \/ \E m \in Decided :
                    ot' = [ot EXCEPT ![e][d] = [status  |-> "APPROVED",
                                                raw     |-> raw,
                                                minutes |-> m]]
  BY DEF ResolveCheckout
<1> DEFINE l == Resolved(log[e][d], t)
           k == [log[e][d] EXCEPT !.in = from, !.out = t]
<1>2. log[e][d] \in Log
  BY NothingWritten
<1>3. l \in Log /\ Closed(l) /\ ~l.auto /\ l # None
  BY <1>2, Times, NoRowAssumption, NoneAssumption DEF Log, Resolved, Closed
<1>4. k \in Log /\ Closed(k)
  BY <1>2, Times, NoRowAssumption, NoneAssumption DEF Log, Closed
<1>5. log' = [log EXCEPT ![e][d] = l]
  BY <1>1
<1>6. \/ UNCHANGED ot
      \/ \E m \in Decided :
           ot' = [ot EXCEPT ![e][d] =
                    [status |-> "APPROVED", raw |-> OvertimeOf(k), minutes |-> m]]
  BY <1>1
<1> HIDE DEF l, k
<1>7. OvertimeOf(k) \in Nat
  BY <1>4, RegularIsOverlap
<1>8. \E o \in OvertimeRow \cup {None} :
        /\ ot' = [ot EXCEPT ![e][d] = o]
        /\ o # None /\ o.status = "APPROVED" => o.minutes \in Nat
  <2>1. CASE UNCHANGED ot
    BY <2>1, NothingWritten DEF DaySound, RowsSound
  <2>2. ASSUME NEW m \in Decided,
               ot' = [ot EXCEPT ![e][d] =
                        [status |-> "APPROVED", raw |-> OvertimeOf(k), minutes |-> m]]
        PROVE  \E o \in OvertimeRow \cup {None} :
                 /\ ot' = [ot EXCEPT ![e][d] = o]
                 /\ o # None /\ o.status = "APPROVED" => o.minutes \in Nat
    <3> DEFINE o == [status |-> "APPROVED", raw |-> OvertimeOf(k), minutes |-> m]
    <3>1. o \in OvertimeRow /\ o.minutes \in Nat
      BY <1>7, Times DEF OvertimeRow
    <3>2. ot' = [ot EXCEPT ![e][d] = o]
      BY <2>2
    <3> HIDE DEF o
    <3> QED BY <3>1, <3>2
  <2> QED BY <1>6, <2>1, <2>2
<1> QED BY <1>3, <1>5, <1>8

\* A row of exceptions with another status.
LEMMA StatusWritten ==
    ASSUME NEW x \in ExceptionRow, NEW st \in {"APPROVED", "REFUSED"}
    PROVE  /\ [x EXCEPT !.status = st] \in ExceptionRow
           /\ [x EXCEPT !.status = st] # None
           /\ [x EXCEPT !.status = st].status # "PENDING"
           /\ [x EXCEPT !.status = st].second = x.second
<1>1. /\ [x EXCEPT !.status = st] \in ExceptionRow
      /\ [x EXCEPT !.status = st].status # "PENDING"
      /\ [x EXCEPT !.status = st].second = x.second
  BY DEF ExceptionRow
<1> QED BY <1>1, NoRowAssumption

\* A decision on one of the two exceptions, whatever the logs and overtime become.
LEMMA DecisionWritten ==
    ASSUME SheetInv, NEW e \in Employees, NEW d \in Days, today' = today,
           NEW st \in {"APPROVED", "REFUSED"},
           \/ /\ Pending(exc[e][d])
              /\ exc' = [exc EXCEPT ![e][d].status = st] /\ UNCHANGED outExc
           \/ /\ Pending(outExc[e][d])
              /\ outExc' = [outExc EXCEPT ![e][d].status = st] /\ UNCHANGED exc,
           \/ UNCHANGED <<log, ot>>
           \/ \E l \in Log, o \in OvertimeRow \cup {None} :
                /\ log' = [log EXCEPT ![e][d] = l] /\ Closed(l) /\ ~l.auto /\ l # None
                /\ ot' = [ot EXCEPT ![e][d] = o]
                /\ o # None /\ o.status = "APPROVED" => o.minutes \in Nat
    PROVE  SheetInv'
<1>1. PICK x \in ExceptionRow \cup {None}, y \in ExceptionRow \cup {None} :
         /\ exc' = [exc EXCEPT ![e][d] = x] /\ outExc' = [outExc EXCEPT ![e][d] = y]
         /\ x = exc[e][d] \/ /\ exc[e][d] # None /\ x # None
                             /\ x.status # "PENDING" /\ x.second = exc[e][d].second
         /\ y # None => outExc[e][d] # None
  <2>1. CASE Pending(exc[e][d]) /\ exc' = [exc EXCEPT ![e][d].status = st] /\ UNCHANGED outExc
    <3> DEFINE x == [exc[e][d] EXCEPT !.status = st]
    <3>1. exc[e][d] \in ExceptionRow /\ exc[e][d] # None
      BY <2>1, NothingWritten DEF Pending
    <3>2. x \in ExceptionRow /\ x # None /\ x.status # "PENDING" /\ x.second = exc[e][d].second
      BY <3>1, StatusWritten
    <3>3. exc' = [exc EXCEPT ![e][d] = x]
      BY <2>1, <3>1 DEF SheetInv, SheetType
    <3>4. outExc' = [outExc EXCEPT ![e][d] = outExc[e][d]] /\ outExc[e][d] \in ExceptionRow \cup {None}
      BY <2>1, NothingWritten
    <3> HIDE DEF x
    <3> QED BY <3>1, <3>2, <3>3, <3>4
  <2>2. CASE Pending(outExc[e][d]) /\ outExc' = [outExc EXCEPT ![e][d].status = st] /\ UNCHANGED exc
    <3> DEFINE y == [outExc[e][d] EXCEPT !.status = st]
    <3>1. outExc[e][d] \in ExceptionRow /\ outExc[e][d] # None
      BY <2>2, NothingWritten DEF Pending
    <3>2. y \in ExceptionRow
      BY <3>1, StatusWritten
    <3>3. outExc' = [outExc EXCEPT ![e][d] = y]
      BY <2>2, <3>1 DEF SheetInv, SheetType
    <3>4. exc' = [exc EXCEPT ![e][d] = exc[e][d]] /\ exc[e][d] \in ExceptionRow \cup {None}
      BY <2>2, NothingWritten
    <3> HIDE DEF y
    <3> QED BY <3>1, <3>2, <3>3, <3>4
  <2> QED BY <2>1, <2>2
<1>2. DaySound(log[e][d], exc[e][d], outExc[e][d], ot[e][d])
  BY NothingWritten
<1>3. CASE UNCHANGED <<log, ot>>
  <2>1. DaySound(log[e][d], x, y, ot[e][d])
    BY <1>1, <1>2 DEF DaySound, RowsSound, AutoSound
  <2>2. /\ log' = [log EXCEPT ![e][d] = log[e][d]] /\ log[e][d] \in Log \cup {None}
        /\ ot' = [ot EXCEPT ![e][d] = ot[e][d]] /\ ot[e][d] \in OvertimeRow \cup {None}
    BY <1>3, NothingWritten
  <2> QED BY <1>1, <2>1, <2>2, DayWritten
<1>4. CASE ~UNCHANGED <<log, ot>>
  <2>1. PICK l \in Log, o \in OvertimeRow \cup {None} :
           /\ log' = [log EXCEPT ![e][d] = l] /\ Closed(l) /\ ~l.auto /\ l # None
           /\ ot' = [ot EXCEPT ![e][d] = o]
           /\ o # None /\ o.status = "APPROVED" => o.minutes \in Nat
    BY <1>4
  <2>2. DaySound(l, x, y, o)
    BY <2>1 DEF DaySound, RowsSound, AutoSound
  <2> QED BY <1>1, <2>1, <2>2, DayWritten
<1> QED BY <1>3, <1>4

LEMMA ApproveExceptionStep ==
    ASSUME SheetInv, NEW e \in Employees, NEW d \in Days, ApproveException(e, d), today' = today
    PROVE  SheetInv'
<1>1. \/ Pending(exc[e][d]) /\ (UNCHANGED <<log, ot>> \/ ResolveCheckout(e, d, log[e][d].in))
      \/ Pending(outExc[e][d]) /\ (UNCHANGED <<log, ot>> \/ ResolveCheckout(e, d, log[e][d].out))
  BY DEF ApproveException
<1>2. /\ log[e][d] # None /\ log[e][d] \in Log
      /\ Pending(outExc[e][d]) => log[e][d].out \in Nat
  BY <1>1, NothingWritten DEF Pending, DaySound, RowsSound, Closed, Log
<1>3. log[e][d].in \in Nat
  BY <1>2 DEF Log
<1>4. \/ UNCHANGED <<log, ot>>
      \/ \E l \in Log, o \in OvertimeRow \cup {None} :
           /\ log' = [log EXCEPT ![e][d] = l] /\ Closed(l) /\ ~l.auto /\ l # None
           /\ ot' = [ot EXCEPT ![e][d] = o]
           /\ o # None /\ o.status = "APPROVED" => o.minutes \in Nat
  <2>1. CASE UNCHANGED <<log, ot>>
    BY <2>1
  <2>2. CASE ResolveCheckout(e, d, log[e][d].in)
    BY <1>2, <1>3, <2>2, CheckoutResolved
  <2>3. CASE Pending(outExc[e][d]) /\ ResolveCheckout(e, d, log[e][d].out)
    BY <1>2, <2>3, CheckoutResolved
  <2> QED BY <1>1, <2>1, <2>2, <2>3
<1>5. \/ /\ Pending(exc[e][d])
         /\ exc' = [exc EXCEPT ![e][d].status = "APPROVED"] /\ UNCHANGED outExc
      \/ /\ Pending(outExc[e][d])
         /\ outExc' = [outExc EXCEPT ![e][d].status = "APPROVED"] /\ UNCHANGED exc
  BY DEF ApproveException
<1> QED BY <1>4, <1>5, DecisionWritten

LEMMA RefuseExceptionStep ==
    ASSUME SheetInv, NEW e \in Employees, NEW d \in Days, RefuseException(e, d), today' = today
    PROVE  SheetInv'
<1>1. UNCHANGED <<log, ot>>
  BY DEF RefuseException
<1>2. \/ /\ Pending(exc[e][d])
         /\ exc' = [exc EXCEPT ![e][d].status = "REFUSED"] /\ UNCHANGED outExc
      \/ /\ Pending(outExc[e][d])
         /\ outExc' = [outExc EXCEPT ![e][d].status = "REFUSED"] /\ UNCHANGED exc
  BY DEF RefuseException
<1> QED BY <1>1, <1>2, DecisionWritten

LEMMA RaiseStep ==
    ASSUME SheetInv, NEW e \in Employees, NEW d \in Days, Raise(e, d), today' = today
    PROVE  SheetInv'
<1>1. PICK type \in {"FACE_NOT_CAPTURED"} \cup SystemTypes :
         \/ /\ log[e][d] # None /\ exc[e][d] = None
            /\ exc' = [exc EXCEPT ![e][d] = Exception(type, outExc[e][d])]
            /\ UNCHANGED outExc
         \/ /\ Closed(log[e][d]) /\ outExc[e][d] = None
            /\ outExc' = [outExc EXCEPT ![e][d] = Exception(type, exc[e][d])]
            /\ UNCHANGED exc
  BY DEF Raise
<1>2. type \in ExceptionTypes
  BY TimesheetAssumption DEF ExceptionTypes
<1>3. /\ log' = [log EXCEPT ![e][d] = log[e][d]] /\ log[e][d] \in Log \cup {None}
      /\ ot' = [ot EXCEPT ![e][d] = ot[e][d]] /\ ot[e][d] \in OvertimeRow \cup {None}
  BY NothingWritten DEF Raise
<1>4. /\ exc[e][d] \in ExceptionRow \cup {None} /\ outExc[e][d] \in ExceptionRow \cup {None}
      /\ DaySound(log[e][d], exc[e][d], outExc[e][d], ot[e][d])
  BY NothingWritten
<1>5. CASE /\ log[e][d] # None /\ exc[e][d] = None
           /\ exc' = [exc EXCEPT ![e][d] = Exception(type, outExc[e][d])]
           /\ UNCHANGED outExc
  <2> DEFINE x == Exception(type, outExc[e][d])
  <2>1. x \in ExceptionRow /\ (outExc[e][d] = None => ~x.second)
    BY <1>2, <1>4, ExceptionsMade
  <2>2. exc' = [exc EXCEPT ![e][d] = x] /\ outExc' = [outExc EXCEPT ![e][d] = outExc[e][d]]
    BY <1>5, NothingWritten
  <2> HIDE DEF x
  <2>3. DaySound(log[e][d], x, outExc[e][d], ot[e][d])
    BY <1>4, <1>5, <2>1 DEF DaySound, RowsSound, AutoSound
  <2> QED BY <1>3, <1>4, <2>1, <2>2, <2>3, DayWritten
<1>6. CASE /\ Closed(log[e][d]) /\ outExc[e][d] = None
           /\ outExc' = [outExc EXCEPT ![e][d] = Exception(type, exc[e][d])]
           /\ UNCHANGED exc
  <2> DEFINE y == Exception(type, exc[e][d])
  <2>1. y \in ExceptionRow
    BY <1>2, <1>4, ExceptionsMade
  <2>2. outExc' = [outExc EXCEPT ![e][d] = y] /\ exc' = [exc EXCEPT ![e][d] = exc[e][d]]
    BY <1>6, NothingWritten
  <2> HIDE DEF y
  <2>3. DaySound(log[e][d], exc[e][d], y, ot[e][d])
    BY <1>4, <1>6 DEF DaySound, RowsSound, AutoSound
  <2> QED BY <1>3, <1>4, <2>1, <2>2, <2>3, DayWritten
<1> QED BY <1>1, <1>5, <1>6

LEMMA DecideOvertimeStep ==
    ASSUME SheetInv, NEW e \in Employees, NEW d \in Days, DecideOvertime(e, d), today' = today
    PROVE  SheetInv'
<1>1. ot[e][d] \in OvertimeRow /\ Closed(log[e][d])
  BY NothingWritten DEF DecideOvertime, DaySound, RowsSound
<1>2. PICK o \in OvertimeRow :
         /\ ot' = [ot EXCEPT ![e][d] = o]
         /\ o.minutes \in Nat
  <2>1. CASE ot' = [ot EXCEPT ![e][d].status = "REJECTED", ![e][d].minutes = 0]
    <3> DEFINE o == [ot[e][d] EXCEPT !.status = "REJECTED", !.minutes = 0]
    <3>1. o \in OvertimeRow /\ o.minutes \in Nat
      BY <1>1 DEF OvertimeRow
    <3>2. ot' = [ot EXCEPT ![e][d] = o]
      BY <1>1, <2>1 DEF SheetInv, SheetType
    <3> HIDE DEF o
    <3> QED BY <3>1, <3>2
  <2>2. ASSUME NEW m \in Decided,
               ot' = [ot EXCEPT ![e][d].status = "APPROVED", ![e][d].minutes = m]
        PROVE  \E o \in OvertimeRow : ot' = [ot EXCEPT ![e][d] = o] /\ o.minutes \in Nat
    <3> DEFINE o == [ot[e][d] EXCEPT !.status = "APPROVED", !.minutes = m]
    <3>1. m \in Nat
      BY Times
    <3>2. o \in OvertimeRow /\ o.minutes \in Nat
      BY <1>1, <3>1 DEF OvertimeRow
    <3>3. ot' = [ot EXCEPT ![e][d] = o]
      BY <1>1, <2>2 DEF SheetInv, SheetType
    <3> HIDE DEF o
    <3> QED BY <3>2, <3>3
  <2> QED BY <2>1, <2>2 DEF DecideOvertime
<1>3. DaySound(log[e][d], exc[e][d], outExc[e][d], o)
  BY <1>1, <1>2, NothingWritten DEF DaySound, RowsSound
<1>4. /\ log' = [log EXCEPT ![e][d] = log[e][d]] /\ log[e][d] \in Log \cup {None}
      /\ outExc' = [outExc EXCEPT ![e][d] = outExc[e][d]]
      /\ outExc[e][d] \in ExceptionRow \cup {None}
      /\ exc' = [exc EXCEPT ![e][d] = exc[e][d]] /\ exc[e][d] \in ExceptionRow \cup {None}
  BY NothingWritten DEF DecideOvertime
<1> QED BY <1>2, <1>3, <1>4, DayWritten

LEMMA TodayStays == [LeaveNext]_leaveVars /\ today \in Days => today' \in Days
<1> SUFFICES ASSUME [LeaveNext]_leaveVars, today \in Days PROVE today' \in Days
  OBVIOUS
<1>1. CASE today' = today
  BY <1>1
<1>2. CASE Midnight
  BY <1>2, LeaveAssumption DEF Midnight, Days
<1> QED BY <1>1, <1>2 DEF LeaveNext, Serve, Load, Commit, Fail, leaveVars

LEMMA SheetInit_Inv == SheetInit => SheetInv
<1> SUFFICES ASSUME SheetInit PROVE SheetInv
  OBVIOUS
<1>1. today \in Days
  BY LeaveAssumption DEF SheetInit, LeaveInit, Days
<1> QED BY <1>1, NoRowAssumption DEF SheetInit, Blank, SheetInv, SheetType, DaySound, RowsSound, AutoSound

LEMMA SheetStep_Inv == SheetInv /\ [SheetNext]_sheetVars => SheetInv'
<1> SUFFICES ASSUME SheetInv, [SheetNext]_sheetVars PROVE SheetInv'
  OBVIOUS
<1>1. ASSUME UNCHANGED <<log, exc, outExc, ot>>, today' \in Days PROVE SheetInv'
  BY <1>1 DEF SheetInv, SheetType, DaySound, RowsSound, AutoSound
<1>2. today \in Days
  BY DEF SheetInv, SheetType
<1>3. CASE LeaveNext /\ UNCHANGED dayVars
  BY <1>1, <1>2, <1>3, TodayStays DEF dayVars
<1>4. CASE UNCHANGED sheetVars
  BY <1>1, <1>2, <1>4 DEF sheetVars, leaveVars, dayVars
<1>5. CASE DayNext /\ UNCHANGED leaveVars
  <2>1. today' = today
    BY <1>5 DEF leaveVars
  <2>2. ASSUME NEW d \in Festive, EditHoliday(d) PROVE SheetInv'
    BY <1>1, <1>2, <2>1, <2>2 DEF EditHoliday
  <2>3. ASSUME NEW e \in Employees, NEW d \in Reviewed, Raise(e, d) PROVE SheetInv'
    <3>1. d \in Days
      BY TimesheetAssumption
    <3> QED BY <2>1, <2>3, <3>1, RaiseStep
  <2> QED BY <1>5, <2>1, <2>2, <2>3, CheckInStep, CheckOutStep, ReportMissedStep, AutoCloseStep,
             ApproveExceptionStep, RefuseExceptionStep, DecideOvertimeStep DEF DayNext
<1> QED BY <1>3, <1>4, <1>5 DEF SheetNext

---------------------------------------------------------------------------
(* What follows. *)

\* Timesheet: regular time and overtime are the minutes of a session inside and
\* outside its shift, for any shifts, also past midnight.
THEOREM MinutesAdd == SheetSpec => []MinutesAreSplit
<1>1. SheetInv => MinutesAreSplit
  <2>1. ASSUME SheetInv, NEW e \in Employees, NEW d \in Days, Closed(log[e][d])
        PROVE  LET l == log[e][d]
                   inside == {m \in l.in..(l.out - 1) : InShift(l.shift, m)}
               IN  /\ Regular(l) = Cardinality(inside)
                   /\ OvertimeOf(l) = Cardinality((l.in..(l.out - 1)) \ inside)
    <3>1. log[e][d] \in Log
      BY <2>1, NothingWritten DEF Closed
    <3> QED BY <2>1, <3>1, RegularIsOverlap
  <2> QED BY <2>1 DEF MinutesAreSplit
<1> QED BY <1>1, SheetInit_Inv, SheetStep_Inv, PTL DEF SheetSpec

\* Reports: a day that the system closed does not show as complete in the dashboard
\* or the export before one of its exceptions is decided, of whichever types they are
\* and in whichever order they came.
THEOREM InventedStaysPending == SheetSpec => []InventedIsPending
<1>1. SheetInv => InventedIsPending
  <2>1. ASSUME SheetInv, NEW e \in Employees, NEW d \in CheckinDates(e), log[e][d].auto,
               "COMPLETE" \in {DashboardRows(e)[d].state, ExportRows(e)[d].state}
        PROVE  \E x \in {exc[e][d], outExc[e][d]} : x # None /\ ~Pending(x)
    <3> DEFINE x == exc[e][d]
               y == outExc[e][d]
    <3>1. d \in Days /\ log[e][d] # None
      BY DEF CheckinDates
    <3>2. /\ x # None /\ ~x.second
          /\ Pending(x) => x.type = "AUTO_CLOSED"
      BY <2>1, <3>1, NothingWritten DEF DaySound, AutoSound, Pending
    <3>3. AttendanceState(e, d) = "COMPLETE"
      BY <2>1 DEF DashboardRows, ExportRows
    <3>4. ~PendingTimesheet(ReportException(e, d))
      BY <3>3 DEF AttendanceState, State
    <3>5. ReportException(e, d) = Newer(x, y)
      BY <3>2 DEF ReportException
    <3> HIDE DEF x, y
    <3>6. CASE Pending(x)
      <4>1. Newer(x, y) # x
        BY <3>2, <3>4, <3>5, <3>6 DEF PendingTimesheet
      <4>2. Newer(x, y) = y /\ y # None /\ y.type = "MISSED_CHECKOUT"
        BY <3>2, <3>6, <4>1 DEF Newer
      <4>3. ~Pending(y)
        BY <3>4, <3>5, <4>2 DEF PendingTimesheet
      <4> QED BY <4>2, <4>3 DEF x, y
    <3>7. CASE ~Pending(x)
      BY <3>2, <3>7 DEF x, y
    <3> QED BY <3>6, <3>7
  <2> QED BY <2>1 DEF InventedIsPending
<1> QED BY <1>1, SheetInit_Inv, SheetStep_Inv, PTL DEF SheetSpec

LEMMA DaysFinite ==
    ASSUME today \in Days, NEW e
    PROVE  IsFiniteSet(Days) /\ IsFiniteSet(WorkingDays(e)) /\ IsFiniteSet(CheckinDates(e))
<1>1. IsFiniteSet(Days)
  BY LeaveAssumption, FS_Interval DEF Days
<1>2. WorkingDays(e) \subseteq Days /\ CheckinDates(e) \subseteq Days
  BY LeaveAssumption DEF WorkingDays, CheckinDates, Days
<1> QED BY <1>1, <1>2, FS_Subset

\* The weekdays marked K that have come and are no leave are the working days
\* without a check-in.
LEMMA UnexcusedDays ==
    ASSUME today \in Days, NEW e \in Employees
    PROVE  {d \in Cells(e, "K") : d <= today /\ OnLeave(e, d) = {}}
             = WorkingDays(e) \ CheckinDates(e)
<1>1. \A d \in 1..today : d \in Days /\ d <= today
  BY LeaveAssumption DEF Days
<1>2. \A d \in Days : d <= today => d \in 1..today
  BY DEF Days
<1>3. ASSUME NEW d \in Days, OnLeave(e, d) = {}
      PROVE  CellCode(e, d) = "K" <=> d \notin Weekend /\ d \notin holidays /\ log[e][d] = None
  BY <1>3 DEF CellCode, WorkedCode, PaidLeave
<1> QED BY <1>1, <1>2, <1>3 DEF Cells, WorkingDays, CheckinDates

LEMMA AbsenceCounts == SheetInv => AbsenceAgrees
<1> SUFFICES ASSUME SheetInv, NEW e \in Employees,
                    NEW U, U = {d \in Cells(e, "K") : d <= today /\ OnLeave(e, d) = {}}
             PROVE  /\ AbsentDays(e) <= Cardinality(U)
                    /\ CheckinDates(e) \subseteq WorkingDays(e) => AbsentDays(e) = Cardinality(U)
  BY DEF AbsenceAgrees
<1> DEFINE W == WorkingDays(e)
           C == CheckinDates(e)
<1>1. U = W \ C
  BY UnexcusedDays DEF SheetInv, SheetType
<1>2. IsFiniteSet(W) /\ IsFiniteSet(C)
  BY DaysFinite DEF SheetInv, SheetType
<1>3. AbsentDays(e) = IF Cardinality(C) > Cardinality(W) THEN 0 ELSE Cardinality(W) - Cardinality(C)
  BY DEF AbsentDays
<1> HIDE DEF W, C
<1>4. Cardinality(U) = Cardinality(W) - Cardinality(W \cap C) /\ IsFiniteSet(U)
  <2>1. ASSUME NEW A, NEW B, IsFiniteSet(A), NEW D, D = A \ B
        PROVE  IsFiniteSet(D) /\ Cardinality(D) = Cardinality(A) - Cardinality(A \cap B)
    BY <2>1, FS_Difference
  <2> QED BY <1>1, <1>2, <2>1
<1>5. Cardinality(W \cap C) <= Cardinality(C)
  BY <1>2, FS_Intersection
<1>6. IsFiniteSet(W \cap C)
  BY <1>2, FS_Intersection
<1>7. /\ Cardinality(W) \in Nat /\ Cardinality(C) \in Nat
      /\ Cardinality(W \cap C) \in Nat /\ Cardinality(U) \in Nat
  BY <1>2, <1>4, <1>6, FS_CardinalityType
<1>8. C \subseteq W => W \cap C = C
  OBVIOUS
<1>9. C \subseteq W => Cardinality(W \cap C) = Cardinality(C)
  BY <1>8
<1> QED BY <1>3, <1>4, <1>5, <1>7, <1>9 DEF W, C

\* Statistics: the days of absence an employee is told of are at most the days that
\* the timesheet marks K, and these unless there were check-ins on days off.
THEOREM AbsenceIsMarked == SheetSpec => []AbsenceAgrees
BY AbsenceCounts, SheetInit_Inv, SheetStep_Inv, PTL DEF SheetSpec

---------------------------------------------------------------------------
(* The time worked in a month. *)

\* What a day has of regular time and of overtime that is paid.
RegularDays(e) == [d \in Days |-> Regular(log[e][d])]
PayableDays(e) == [d \in Days |-> payable(ot[e][d])]
SheetDays(e)   == [d \in Days |-> SheetDay(e, d)]

\* A day counts the same in either way of adding: overtime needs an ended session.
LEMMA DayAgrees ==
    ASSUME SheetInv, NEW e \in Employees, NEW d \in Days
    PROVE  /\ Regular(log[e][d]) \in Nat /\ payable(ot[e][d]) \in Nat
           /\ SheetDay(e, d) = Regular(log[e][d]) + payable(ot[e][d])
<1>1. payable(ot[e][d]) \in Nat /\ (ot[e][d] = None => payable(ot[e][d]) = 0)
  BY NothingWritten DEF payable, DaySound, RowsSound
<1>2. CASE Closed(log[e][d])
  <2>1. log[e][d] \in Log
    BY <1>2, NothingWritten DEF Closed
  <2>2. Regular(log[e][d]) \in Nat
    BY <1>2, <2>1, RegularIsOverlap
  <2> QED BY <1>1, <1>2, <2>2 DEF SheetDay
<1>3. CASE ~Closed(log[e][d])
  <2>1. Regular(log[e][d]) = 0 /\ ot[e][d] = None
    BY <1>3, NothingWritten DEF Regular, DaySound, RowsSound
  <2> QED BY <1>1, <1>3, <2>1 DEF SheetDay
<1> QED BY <1>2, <1>3

\* The three sums, as MapThenSumSet computes them.
LEMMA SumsOfDays ==
    ASSUME SheetInv, NEW e \in Employees
    PROVE  \E f, g, h : /\ SumOver(f, RegularDays(e), Days)
                        /\ SumOver(g, PayableDays(e), Days)
                        /\ SumOver(h, SheetDays(e), Days)
                        /\ StatsWorked(e) = f[Days] + g[Days]
                        /\ SheetWorked(e) = h[Days]
<1> DEFINE IsF(it) == it = [s \in SUBSET Days |->
                              IF s = {} THEN 0
                              ELSE Regular(log[e][CHOOSE x \in s : TRUE])
                                   + it[s \ {CHOOSE x \in s : TRUE}]]
           IsG(it) == it = [s \in SUBSET Days |->
                              IF s = {} THEN 0
                              ELSE payable(ot[e][CHOOSE x \in s : TRUE])
                                   + it[s \ {CHOOSE x \in s : TRUE}]]
           IsH(it) == it = [s \in SUBSET Days |->
                              IF s = {} THEN 0
                              ELSE SheetDay(e, CHOOSE x \in s : TRUE)
                                   + it[s \ {CHOOSE x \in s : TRUE}]]
           f == CHOOSE it : IsF(it)
           g == CHOOSE it : IsG(it)
           h == CHOOSE it : IsH(it)
<1>1. StatsWorked(e) = f[Days] + g[Days]
  BY DEF StatsWorked, MapThenSumSet, MapThenFoldSet
<1>2. SheetWorked(e) = h[Days]
  BY DEF SheetWorked, MapThenSumSet, MapThenFoldSet
<1>3. ASSUME NEW s \in SUBSET Days, s # {}
      PROVE  /\ RegularDays(e)[First(s)] = Regular(log[e][First(s)])
             /\ PayableDays(e)[First(s)] = payable(ot[e][First(s)])
             /\ SheetDays(e)[First(s)] = SheetDay(e, First(s))
  BY <1>3, FirstIn DEF RegularDays, PayableDays, SheetDays
<1>4. ASSUME NEW it
      PROVE  /\ IsF(it) <=> SumOver(it, RegularDays(e), Days)
             /\ IsG(it) <=> SumOver(it, PayableDays(e), Days)
             /\ IsH(it) <=> SumOver(it, SheetDays(e), Days)
  <2>1. IsF(it) <=> SumOver(it, RegularDays(e), Days)
    BY <1>3 DEF SumOver, First
  <2>2. IsG(it) <=> SumOver(it, PayableDays(e), Days)
    BY <1>3 DEF SumOver, First
  <2>3. IsH(it) <=> SumOver(it, SheetDays(e), Days)
    <3>1. IsH(it) <=> it = [s \in SUBSET Days |->
                              IF s = {} THEN 0
                              ELSE SheetDay(e, First(s)) + it[s \ {First(s)}]]
      BY DEF First
    <3> HIDE DEF IsH
    <3> QED BY <1>3, <3>1 DEF SumOver
  <2> HIDE DEF IsF, IsG, IsH
  <2> QED BY <2>1, <2>2, <2>3
<1> HIDE DEF IsF, IsG, IsH
<1>5. IsFiniteSet(Days)
  BY DaysFinite DEF SheetInv, SheetType
<1>6. IsF(f) /\ IsG(g) /\ IsH(h)
  BY <1>4, <1>5, SumExists
<1> HIDE DEF f, g, h
<1> QED BY <1>1, <1>2, <1>4, <1>6

LEMMA WorkedSame == SheetInv => WorkedAgrees
<1> SUFFICES ASSUME SheetInv, NEW e \in Employees
             PROVE  /\ StatsWorked(e) = SheetWorked(e)
                    /\ \A d \in CheckinDates(e) :
                         /\ DailyReport(e)[d].regular + DailyReport(e)[d].payable = SheetDay(e, d)
                         /\ ExportRows(e)[d].gio_lam = SheetDay(e, d)
                         /\ (IF DashboardRows(e)[d].worked = None THEN 0
                             ELSE DashboardRows(e)[d].worked) = SheetDay(e, d)
  BY DEF WorkedAgrees
<1>1. StatsWorked(e) = SheetWorked(e)
  <2> DEFINE F == RegularDays(e)
             G == PayableDays(e)
             H == SheetDays(e)
  <2>1. PICK f, g, h : /\ SumOver(f, F, Days) /\ SumOver(g, G, Days) /\ SumOver(h, H, Days)
                       /\ StatsWorked(e) = f[Days] + g[Days]
                       /\ SheetWorked(e) = h[Days]
    BY SumsOfDays
  <2>2. Numbers(F, Days) /\ Numbers(G, Days) /\ Adds(H, F, G, Days)
    BY DayAgrees DEF Numbers, Adds, RegularDays, PayableDays, SheetDays
  <2>3. IsFiniteSet(Days)
    BY DaysFinite DEF SheetInv, SheetType
  <2> HIDE DEF F, G, H
  <2>4. h[Days] = f[Days] + g[Days]
    BY <2>1, <2>2, <2>3, SumAdds
  <2> QED BY <2>1, <2>4
<1>2. ASSUME NEW d \in CheckinDates(e)
      PROVE  /\ DailyReport(e)[d].regular + DailyReport(e)[d].payable = SheetDay(e, d)
             /\ ExportRows(e)[d].gio_lam = SheetDay(e, d)
             /\ (IF DashboardRows(e)[d].worked = None THEN 0
                 ELSE DashboardRows(e)[d].worked) = SheetDay(e, d)
  <2>1. d \in Days
    BY DEF CheckinDates
  <2>2. /\ Regular(log[e][d]) \in Nat /\ payable(ot[e][d]) \in Nat
        /\ SheetDay(e, d) = Regular(log[e][d]) + payable(ot[e][d])
    BY <2>1, DayAgrees
  <2>3. /\ DailyReport(e)[d].regular = Regular(log[e][d])
        /\ DailyReport(e)[d].payable = payable(ot[e][d])
        /\ ExportRows(e)[d].gio_lam = Regular(log[e][d]) + payable(ot[e][d])
    BY DEF DailyReport, ExportRows
  <2>4. DashboardRows(e)[d].worked = IF Closed(log[e][d])
                                     THEN Regular(log[e][d]) + payable(ot[e][d]) ELSE None
    BY DEF DashboardRows
  <2>5. ~Closed(log[e][d]) => SheetDay(e, d) = 0
    BY DEF SheetDay
  <2>6. CASE Closed(log[e][d])
    BY <2>2, <2>3, <2>4, <2>6, NoneAssumption
  <2>7. CASE ~Closed(log[e][d])
    BY <2>2, <2>3, <2>4, <2>5, <2>7
  <2> QED BY <2>6, <2>7
<1> QED BY <1>1, <1>2

\* Reports: the statistics, the timesheet, the daily report, the export and the
\* dashboard come to the same time worked, in any month.
THEOREM WorkedIsTheSame == SheetSpec => []WorkedAgrees
BY WorkedSame, SheetInit_Inv, SheetStep_Inv, PTL DEF SheetSpec
===========================================================================
