------------------------------ MODULE Timesheet ------------------------------
(***************************************************************************)
(* What a month comes to: the timesheet of the administrators              *)
(* (api/reports.py) and the statistics of the employee                     *)
(* (api/attendance.py) computed from the same attendance logs, exceptions, *)
(* overtime records, holidays and leave requests.  Requests are served     *)
(* whole; how they interleave is the subject of AttendanceSession,         *)
(* ExceptionWorkflow, Overtime and Leave.                                  *)
(***************************************************************************)
EXTENDS Leave

CONSTANTS DayLength,  \* steps of a day
          Cutoff,     \* step of the next day at which a session is closed
          FullDay,    \* steps of regular work that make a full day (480 min)
          Grace,      \* grace_minutes, in steps
          Threshold,  \* overtime_minimum_minutes, in steps
          Shifts,     \* shifts, <<start, end>>
          InTimes,    \* when one checks in, from 00:00 of the work date
          OutTimes,   \* when one checks out
          Decided,    \* overtime that an administrator approves
          Weekend,    \* the days that are Saturdays and Sundays
          SystemTypes,\* exceptions POST /attendance-exceptions/system is asked for
          Reviewed,   \* the days it or flag-no-camera may be about (a bound)
          Festive     \* the days that may become holidays (a bound)

ExceptionTypes == {"LARGE_TIME_DEVIATION", "MISSED_CHECKOUT", "AUTO_CLOSED",
                   "SUSPECTED_LOCATION_SPOOF", "FACE_NOT_CAPTURED"}

ASSUME TimesheetAssumption ==
    /\ DayLength \in Nat \ {0}
    /\ Cutoff \in 0..(DayLength - 1)
    /\ Shifts \subseteq (0..(DayLength - 1)) \X (0..(DayLength - 1))
    /\ InTimes \subseteq Cutoff..(DayLength + Cutoff - 1)
    /\ OutTimes \subseteq Cutoff..(DayLength + Cutoff - 1)
    /\ Decided \subseteq Nat
    /\ SystemTypes \subseteq ExceptionTypes
    /\ Reviewed \subseteq Days
    /\ Weekend \subseteq Days
    /\ Festive \subseteq Days

VARIABLES holidays,  \* public_holidays
          log,       \* log[e][d] : the IN log of work date d and its OUT log
          exc,       \* exc[e][d] : the exception about the IN log
          outExc,    \* outExc[e][d] : the exception about the OUT log
          ot         \* ot[e][d] : the overtime record

dayVars   == <<holidays, log, exc, outExc, ot>>
sheetVars == <<leaveVars, dayVars>>

---------------------------------------------------------------------------
(* Minutes of a session, in steps from 00:00 of its work date. *)

\* auto : the check-out is the system's, at the cutoff (SYSTEM_AUTO).
Log == [shift : Shifts, in : Nat, out : Nat \cup {None}, auto : BOOLEAN]

\* REFUSED stands for REJECTED and EXPIRED, PENDING for the two of them.
\* second : the exception about the other log of the day has a smaller id.
ExceptionRow == [type   : ExceptionTypes,
                 status : {"PENDING", "APPROVED", "REFUSED"},
                 second : BOOLEAN]

OvertimeRow == [status  : {"PENDING", "APPROVED", "REJECTED"}, raw : Nat,
                minutes : Nat \cup {None}]

ASSUME NoRowAssumption == None \notin Log \cup ExceptionRow \cup OvertimeRow

Closed(l) == l # None /\ l.out # None

\* Mutant: a shift that passes midnight ends before it begins.
shift_window_same_day(s) == s

shift_window(s) == IF s[2] <= s[1] THEN <<s[1], s[2] + DayLength>> ELSE s

overlap(a, b) ==
    LET start == Later(a[1], b[1])
        end   == Earlier(a[2], b[2])
    IN  IF end <= start THEN 0 ELSE end - start

Regular(l) ==
    IF ~Closed(l) \/ l.out <= l.in THEN 0
    ELSE overlap(<<l.in, l.out>>, shift_window(l.shift))

OvertimeOf(l) ==
    IF ~Closed(l) \/ l.out <= l.in THEN 0 ELSE l.out - l.in - Regular(l)

\* classify_checkin_status
Late(l) == l.in > l.shift[1] + Grace

---------------------------------------------------------------------------
(* A day. *)

\* A new exception, next to the one about the other log of the day.
Exception(type, other) == [type |-> type, status |-> "PENDING", second |-> other # None]

Pending(x) == x # None /\ x.status = "PENDING"

\* _ensure_location_risk_exception
AtRisk(x, other) ==
    IF x = None THEN Exception("SUSPECTED_LOCATION_SPOOF", other)
    ELSE IF Pending(x) /\ x.type \notin {"AUTO_CLOSED", "MISSED_CHECKOUT"}
         THEN [x EXCEPT !.type = "SUSPECTED_LOCATION_SPOOF"]
         ELSE x

\* What a log makes of the exception of the session: it stays, the location is
\* suspect, or the client's clock was off.  The request may fail before.
Flagged(x, other) ==
    {x, AtRisk(x, other), IF x = None THEN Exception("LARGE_TIME_DEVIATION", other) ELSE x}

\* Work date d has begun, and its cutoff is to come, at step t of it.
Now(d, t) == today = d + (t \div DayLength)

\* The last session has ended.
CheckIn(e, d) ==
    /\ \A c \in Days : /\ c < d => log[e][c] = None \/ Closed(log[e][c])
                       /\ c >= d => log[e][c] = None
    /\ \E t \in InTimes, s \in Shifts :
         /\ Now(d, t)
         /\ log' = [log EXCEPT ![e][d] = [shift |-> s, in |-> t, out |-> None, auto |-> FALSE]]
    /\ \E x \in Flagged(exc[e][d], outExc[e][d]) : exc' = [exc EXCEPT ![e][d] = x]
    /\ UNCHANGED <<holidays, outExc, ot>>

\* auto_create_pending_ot
AutoOvertime(l) == IF OvertimeOf(l) >= Threshold
                   THEN [status |-> "PENDING", raw |-> OvertimeOf(l), minutes |-> None]
                   ELSE None

\* The overtime record is created afterwards, if nothing fails.
CheckOut(e, d) ==
    /\ log[e][d] # None
    /\ ~Closed(log[e][d])
    /\ \E t \in OutTimes :
         /\ Now(d, t)
         /\ log[e][d].in < t
         /\ log' = [log EXCEPT ![e][d].out = t]
    /\ \E x \in Flagged(exc[e][d], outExc[e][d]) : exc' = [exc EXCEPT ![e][d] = x]
    /\ ot' \in {ot, [ot EXCEPT ![e][d] = AutoOvertime(log'[e][d])]}
    /\ UNCHANGED <<holidays, outExc>>

\* _ensure_missed_checkout_exception
ReportMissed(e, d) ==
    /\ log[e][d] # None
    /\ ~Closed(log[e][d])
    /\ \/ /\ exc[e][d] = None
          /\ exc' = [exc EXCEPT ![e][d] = Exception("MISSED_CHECKOUT", outExc[e][d])]
       \/ /\ Pending(exc[e][d])
          /\ exc[e][d].type # "AUTO_CLOSED"
          /\ exc' = [exc EXCEPT ![e][d].type = "MISSED_CHECKOUT"]
    /\ UNCHANGED <<holidays, log, outExc, ot>>

\* Mutant: an exception that is there stays.
ClosedException(x, other) == IF x = None THEN Exception("AUTO_CLOSED", other) ELSE x

\* _ensure_auto_closed_exception; a decided exception stays.
AutoClosedException(x, other) ==
    IF x = None THEN Exception("AUTO_CLOSED", other)
    ELSE IF Pending(x) THEN [x EXCEPT !.type = "AUTO_CLOSED"] ELSE x

\* _auto_close_open_session_if_past_cutoff
AutoClose(e, d) ==
    /\ d < today
    /\ log[e][d] # None
    /\ ~Closed(log[e][d])
    /\ log' = [log EXCEPT ![e][d].out = DayLength + Cutoff, ![e][d].auto = TRUE]
    /\ exc' = [exc EXCEPT ![e][d] = AutoClosedException(exc[e][d], outExc[e][d])]
    /\ UNCHANGED <<holidays, outExc, ot>>

\* flag-no-camera and POST /attendance-exceptions/system, about either log.
Raise(e, d) ==
    /\ \E type \in {"FACE_NOT_CAPTURED"} \cup SystemTypes :
         \/ /\ log[e][d] # None
            /\ exc[e][d] = None
            /\ exc' = [exc EXCEPT ![e][d] = Exception(type, outExc[e][d])]
            /\ UNCHANGED outExc
         \/ /\ Closed(log[e][d])
            /\ outExc[e][d] = None
            /\ outExc' = [outExc EXCEPT ![e][d] = Exception(type, exc[e][d])]
            /\ UNCHANGED exc
    /\ UNCHANGED <<holidays, log, ot>>

\* Mutant: the time entered goes to the overtime record only.
Unresolved(l, t) == l

\* _upsert_checkout_log_from_resolution
Resolved(l, t) == [l EXCEPT !.out = t, !.auto = FALSE]

\* The administrator may enter when the employee left, and the overtime with it:
\* a time later than that of the log the exception is about, from which the
\* overtime is counted.
ResolveCheckout(e, d, from) ==
    \E t \in OutTimes :
      LET raw == OvertimeOf([log[e][d] EXCEPT !.in = from, !.out = t])
      IN  /\ from < t
          /\ log' = [log EXCEPT ![e][d] = Resolved(@, t)]
          /\ \/ UNCHANGED ot
             \/ /\ raw > 0
                /\ \E m \in Decided :
                     ot' = [ot EXCEPT ![e][d] = [status  |-> "APPROVED",
                                                 raw     |-> raw,
                                                 minutes |-> m]]

ApproveException(e, d) ==
    /\ \/ /\ Pending(exc[e][d])
          /\ exc' = [exc EXCEPT ![e][d].status = "APPROVED"]
          /\ UNCHANGED outExc
          /\ \/ UNCHANGED <<log, ot>>
             \/ /\ exc[e][d].type \in {"AUTO_CLOSED", "MISSED_CHECKOUT"}
                /\ ResolveCheckout(e, d, log[e][d].in)
       \/ /\ Pending(outExc[e][d])
          /\ outExc' = [outExc EXCEPT ![e][d].status = "APPROVED"]
          /\ UNCHANGED exc
          /\ \/ UNCHANGED <<log, ot>>
             \/ /\ outExc[e][d].type \in {"AUTO_CLOSED", "MISSED_CHECKOUT"}
                /\ ResolveCheckout(e, d, log[e][d].out)
    /\ UNCHANGED holidays

\* reject, and the expiry of the deadline
RefuseException(e, d) ==
    /\ \/ /\ Pending(exc[e][d])
          /\ exc' = [exc EXCEPT ![e][d].status = "REFUSED"]
          /\ UNCHANGED outExc
       \/ /\ Pending(outExc[e][d])
          /\ outExc' = [outExc EXCEPT ![e][d].status = "REFUSED"]
          /\ UNCHANGED exc
    /\ UNCHANGED <<holidays, log, ot>>

DecideOvertime(e, d) ==
    /\ ot[e][d] # None
    /\ ot[e][d].status = "PENDING"
    /\ ot' \in {[ot EXCEPT ![e][d].status = "REJECTED", ![e][d].minutes = 0]}
               \cup {[ot EXCEPT ![e][d].status = "APPROVED", ![e][d].minutes = m] : m \in Decided}
    /\ UNCHANGED <<holidays, log, exc, outExc>>

EditHoliday(d) ==
    /\ holidays' \in {holidays \cup {d}, holidays \ {d}} \ {holidays}
    /\ UNCHANGED <<log, exc, outExc, ot>>

---------------------------------------------------------------------------
Blank == [e \in Employees |-> [d \in Days |-> None]]

SheetInit == /\ LeaveInit
             /\ holidays = {}
             /\ log = Blank
             /\ exc = Blank
             /\ outExc = Blank
             /\ ot = Blank

DayNext == \/ \E e \in Employees, d \in Days :
                \/ CheckIn(e, d)          \/ CheckOut(e, d)
                \/ ReportMissed(e, d)     \/ AutoClose(e, d)
                \/ ApproveException(e, d) \/ RefuseException(e, d)
                \/ DecideOvertime(e, d)
           \/ \E e \in Employees, d \in Reviewed : Raise(e, d)
           \/ \E d \in Festive : EditHoliday(d)

SheetNext == \/ LeaveNext /\ UNCHANGED dayVars
             \/ DayNext /\ UNCHANGED leaveVars

SheetSpec == SheetInit /\ [][SheetNext]_sheetVars

---------------------------------------------------------------------------
(* The timesheet: export_monthly_attendance_excel. *)

\* _build_leave_map, and the leave days of the statistics
OnLeave(e, d) ==
    {i \in Present : /\ leave[i].employee = e
                     /\ leave[i].status = "APPROVED"
                     /\ Covers(leave[i], d)}

PaidLeave(e, d) == \E i \in OnLeave(e, d) : leave[i].type = "PAID"

\* _build_exception_map of api/reports.py: the exceptions of a day are read in
\* the order of their ids, a is the one the map has when b is read.
Newer(a, b) ==
    IF b = None THEN a
    ELSE IF \/ a = None
            \/ ~Pending(a)
            \/ b.type = "MISSED_CHECKOUT" /\ a.type # "MISSED_CHECKOUT"
         THEN b ELSE a

ReportException(e, d) ==
    LET x == exc[e][d]
        y == outExc[e][d]
    IN  IF x # None /\ x.second THEN Newer(y, x) ELSE Newer(x, y)

Unapproved(x) == /\ x # None
                 /\ x.type \in {"MISSED_CHECKOUT", "LARGE_TIME_DEVIATION"}
                 /\ x.status # "APPROVED"

\* Whether it is an office or a site is left out: "full" is V, S or X, "half"
\* 1/2V, 1/2S or 1/2T.
WorkedCode(e, d) ==
    LET l == log[e][d]
    IN  IF d \in holidays THEN "full"
        ELSE IF Unapproved(ReportException(e, d)) \/ Late(l) \/ Regular(l) < FullDay THEN "half"
        ELSE "full"

CellCode(e, d) ==
    CASE log[e][d] # None                          -> WorkedCode(e, d)
      [] log[e][d] = None /\ d \in Weekend         -> IF d \in holidays THEN "L" ELSE ""
      [] log[e][d] = None /\ d \notin Weekend      ->
           IF PaidLeave(e, d) THEN "P" ELSE IF d \in holidays THEN "L" ELSE "K"

Cells(e, code) == {d \in Days : CellCode(e, d) = code}

\* fetch_payable_minutes_map
payable(o) == IF o # None /\ o.status = "APPROVED" THEN o.minutes ELSE 0

\* The cell of a day; it is empty unless the session is complete.
SheetDay(e, d) ==
    IF Closed(log[e][d]) THEN Regular(log[e][d]) + payable(ot[e][d]) ELSE 0

SheetWorked(e) == MapThenSumSet(LAMBDA d : SheetDay(e, d), Days)

---------------------------------------------------------------------------
(* The statistics of the employee: my_monthly_stats. *)

\* Mutant: holidays count as working days.
WorkingWeekdays(e) == {d \in 1..today : d \notin Weekend /\ OnLeave(e, d) = {}}

WorkingDays(e) ==
    {d \in 1..today : d \notin Weekend \cup holidays /\ OnLeave(e, d) = {}}

CheckinDates(e) == {d \in Days : log[e][d] # None}

AbsentDays(e) ==
    LET working == Cardinality(WorkingDays(e))
        checkins == Cardinality(CheckinDates(e))
    IN  IF checkins > working THEN 0 ELSE working - checkins

StatsWorked(e) ==
    MapThenSumSet(LAMBDA d : Regular(log[e][d]), Days)
      + MapThenSumSet(LAMBDA d : payable(ot[e][d]), Days)

---------------------------------------------------------------------------
(* Day by day: daily_report_admin, the rows of the dashboard, the export. *)

\* is_pending_timesheet_exception
PendingTimesheet(x) == Pending(x) /\ x.type \in {"AUTO_CLOSED", "MISSED_CHECKOUT"}

\* _derive_daily_status; a day without logs has no row, and no OUT log is
\* without its IN log.
DailyStatus(l) == IF Closed(l) THEN "COMPLETE" ELSE "MISSED_CHECKOUT"

\* _apply_exception_to_attendance_state, for the exception x of the map
State(e, d, x) ==
    IF PendingTimesheet(x) THEN "PENDING_TIMESHEET" ELSE DailyStatus(log[e][d])

\* _build_exception_map of api/attendance.py: the first exception read that is
\* pending, else the last; the query has no order.
FirstPending(a, b) == IF b = None \/ Pending(a) THEN a ELSE b

DailyExceptions(e, d) == {FirstPending(exc[e][d], outExc[e][d]),
                          FirstPending(outExc[e][d], exc[e][d])}

AttendanceState(e, d) == State(e, d, ReportException(e, d))

\* The daily report splits whatever the day has, and adds the overtime approved;
\* states : what it may show, by the order in which the exceptions are read.
DailyReport(e) == [d \in CheckinDates(e) |->
    [regular  |-> Regular(log[e][d]),
     overtime |-> OvertimeOf(log[e][d]),
     payable  |-> payable(ot[e][d]),
     states   |-> {State(e, d, x) : x \in DailyExceptions(e, d)}]]

\* The dashboard leaves the time open unless there is a check-out.
DashboardRows(e) == [d \in CheckinDates(e) |->
    [worked |-> IF Closed(log[e][d]) THEN Regular(log[e][d]) + payable(ot[e][d]) ELSE None,
     state  |-> AttendanceState(e, d)]]

\* export_attendance_report_excel: the sum is in the column "gio_lam".
ExportRows(e) == [d \in CheckinDates(e) |->
    [gio_lam |-> Regular(log[e][d]) + payable(ot[e][d]),
     state   |-> AttendanceState(e, d)]]

---------------------------------------------------------------------------
(* Properties. *)

\* The minutes of a shift: they begin with it, and a shift that ends when it
\* begins lasts a day.
InShift(s, m) ==
    LET rest == (s[2] + DayLength - s[1]) % DayLength
    IN  s[1] <= m /\ m < s[1] + (IF rest = 0 THEN DayLength ELSE rest)

\* Regular time and overtime, computed from overlaps of intervals, are the
\* minutes of the session that are in the shift and those that are not, also
\* when shift or session pass midnight.
MinutesAreSplit ==
    \A e \in Employees, d \in Days :
        Closed(log[e][d]) =>
            LET l == log[e][d]
                inside == {m \in l.in..(l.out - 1) : InShift(l.shift, m)}
            IN  /\ Regular(l) = Cardinality(inside)
                /\ OvertimeOf(l) = Cardinality((l.in..(l.out - 1)) \ inside)

\* The statistics of the employee come to the time worked of the timesheet, and
\* day by day the daily report, the export and the dashboard show what the
\* timesheet does: no overtime is approved on a day that one of them leaves out
\* because its session is not complete.
WorkedAgrees ==
    \A e \in Employees :
        LET report == DailyReport(e)
            rows   == DashboardRows(e)
            export == ExportRows(e)
        IN  /\ StatsWorked(e) = SheetWorked(e)
            /\ \A d \in CheckinDates(e) :
                   /\ report[d].regular + report[d].payable = SheetDay(e, d)
                   /\ export[d].gio_lam = SheetDay(e, d)
                   /\ (IF rows[d].worked = None THEN 0 ELSE rows[d].worked) = SheetDay(e, d)

\* A check-out that the system made up is not shown as a complete day by the
\* dashboard or the export until an exception of that day is decided, whatever
\* its exceptions were about before and in whichever order they came.
InventedIsPending ==
    \A e \in Employees : \A d \in CheckinDates(e) :
        (log[e][d].auto /\ "COMPLETE" \in {DashboardRows(e)[d].state, ExportRows(e)[d].state})
            => \E x \in {exc[e][d], outExc[e][d]} : x # None /\ ~Pending(x)

\* The map of the reports lets MISSED_CHECKOUT take the place of an exception
\* that is pending when both are ("Both pending, but MISSED_CHECKOUT takes
\* priority").  It does not hold: the status of the newer one is not looked at.
OnlyPendingTakesPriority ==
    \A e \in Employees, d \in Days :
        (Pending(exc[e][d]) \/ Pending(outExc[e][d])) => Pending(ReportException(e, d))

\* The daily report shows a day that the system closed as PENDING_TIMESHEET while
\* its AUTO_CLOSED is pending, as the test of the automatic closing asks for.  It
\* does not hold: a pending FACE_NOT_CAPTURED about the OUT log may be read first.
DailyShowsPending ==
    \A e \in Employees : \A d \in CheckinDates(e) :
        log[e][d].auto /\ PendingTimesheet(exc[e][d])
            => DailyReport(e)[d].states = {"PENDING_TIMESHEET"}

\* The employee is not told of more days of absence than the timesheet marks K,
\* and of exactly these unless there were check-ins on days off.
AbsenceAgrees ==
    \A e \in Employees :
        LET unexcused == {d \in Cells(e, "K") : d <= today /\ OnLeave(e, d) = {}}
        IN  /\ AbsentDays(e) <= Cardinality(unexcused)
            /\ CheckinDates(e) \subseteq WorkingDays(e)
                 => AbsentDays(e) = Cardinality(unexcused)

\* "1/2T" is for those who "came late or forgot to check out": a check-out made
\* by the system earns no full day, unless on a holiday or approved.  It does not
\* hold: the closing at the cutoff turns MISSED_CHECKOUT into AUTO_CLOSED, which
\* the code of the cell does not look at.
ForgottenIsHalf ==
    \A e \in Employees, d \in Days \ holidays :
        log[e][d] # None /\ log[e][d].auto /\ exc[e][d].status # "APPROVED"
            => CellCode(e, d) = "half"
=============================================================================
