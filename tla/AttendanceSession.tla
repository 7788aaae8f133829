------------------------ MODULE AttendanceSession -------------------------
(***************************************************************************)
(* The working days of one employee: check-in, check-out and status        *)
(* (api/attendance.py), which open and close sessions, close the ones left *)
(* open past the cross-day cutoff and raise exceptions about them, and the *)
(* approval that gives a session its real check-out time.                  *)
(*                                                                         *)
(* Requests run in threads.  Check-in and check-out lock the employee row; *)
(* status and the administrator's requests do not; and a commit releases   *)
(* the lock, also the commit that closes an old session in the middle of a *)
(* check-in.  A step of this module is what a request does between two     *)
(* points where it depends on the database: it reads what others have      *)
(* committed, or commits.                                                  *)
(***************************************************************************)
EXTENDS Naturals, Sequences

CONSTANTS Workers,        \* threads serving requests
          NoOne,          \* the employee row is not locked
          DayLength,      \* ticks of a calendar day
          Days,           \* number of work dates, numbered from 0
          Rules,          \* time rules the employee may be under
          EditTimes,      \* when an administrator may edit them (a bound)
          DefaultCutoff,  \* DEFAULT_CROSS_DAY_CUTOFF_MINUTES
          Outcomes,       \* what assessing a request may find (see Todos)
          AdminTimes,     \* check-out times an administrator may enter
          Reviewed,       \* sessions whose exceptions are reviewed (a bound)
          SystemTypes,    \* exception types the system caller reports
          Patience,       \* ticks a request may take
          MayFail         \* requests may be cut short (crash, lost connection)

\* A time rule: the shift of a day and the cutoff of the day after, in ticks
\* from 00:00.  The check-out grace is part of end.
Rule == [start : Nat, end : Nat, cutoff : Nat]

ASSUME WorkersAssumption == NoOne \notin Workers
ASSUME TimeAssumption ==
    /\ DayLength \in Nat \ {0}
    /\ Days \in Nat \ {0}
    /\ Patience \in Nat
    /\ DefaultCutoff \in 1..(DayLength - 1)
    /\ Rules \subseteq [start : 0..(DayLength - 1), end : 0..(DayLength - 1),
                        cutoff : 0..(DayLength - 1)]
    /\ Rules # {}
    /\ EditTimes \subseteq Nat
    /\ AdminTimes \subseteq Nat
    /\ Reviewed \subseteq 0..(Days - 1)
ASSUME MayFailAssumption == MayFail \in BOOLEAN

VARIABLES now,        \* the clock, in ticks
          rule,       \* the rule _get_effective_time_rule gives
          ins,        \* ins[d] : the IN log of work date d
          outs,       \* outs[d] : the OUT log of work date d
          exc,        \* exc[d] : the exception whose source is the IN log of d
          outExc,     \* outExc[d] : the one whose source is the OUT log of d
          lock,       \* who holds the employee row FOR UPDATE
          req         \* req[w] : the request thread w is serving

\* History variables: no handler reads them, the properties do.
VARIABLES overtaken,    \* threads whose request another one has overtaken: it
                        \* has written a log since the request began
          raced,        \* a request so overtaken has written a log
          settled,      \* dates whose exception has been closed while it was
                        \* not about an automatic closing
          overwritten   \* dates whose exception got its type from a request
                        \* with an outdated copy of it

history == <<overtaken, raced, settled, overwritten>>

vars == <<now, rule, ins, outs, exc, outExc, lock, req, history>>

---------------------------------------------------------------------------
(* Dates and times (services/attendance_time.py). *)

Dates   == 0..(Days - 1)
NoDate  == Days
MaxTime == Days * DayLength     \* bound of the clock

compute_work_date(t, cutoff) == (t - cutoff) \div DayLength

work_date_cutoff(d, cutoff) == (d + 1) * DayLength + cutoff

---------------------------------------------------------------------------
(* Logs.  (employee, work_date, type) is UNIQUE. *)

\* kind : how the log came about; suspect : out of range, or a GPS risk.
NoLog == [kind |-> "NONE", time |-> 0, suspect |-> FALSE,
          rule |-> [start |-> 0, end |-> 0, cutoff |-> 0]]

Kinds == {"NONE", "REAL", "AUTO", "ADMIN"}

Log == [kind : Kinds, time : Nat, suspect : BOOLEAN, rule : Rule]

\* Mutant: the OUT log is not looked for.
DatesWithIn == {d \in Dates : ins[d] # NoLog}

OpenDates == {d \in Dates : ins[d] # NoLog /\ outs[d] = NoLog}

\* Mutant: only today's session is looked for.
LatestToday == {d \in OpenDates : d = compute_work_date(now, rule.cutoff)}

\* _get_open_session_checkin: the open session that began last.
Latest == {d \in OpenDates : \A e \in OpenDates : ins[e].time <= ins[d].time}

\* Mutant: the rule in force counts, not the one of the check-in.
CurrentCutoff(d) == IF d \in Dates THEN rule.cutoff ELSE DefaultCutoff

\* snapshot_cutoff_minutes or DEFAULT_CROSS_DAY_CUTOFF_MINUTES
SnapshotCutoff(d) == IF ins[d].rule.cutoff = 0 THEN DefaultCutoff
                                               ELSE ins[d].rule.cutoff

Cutoff(d) == work_date_cutoff(d, SnapshotCutoff(d))

\* Mutant: a session is still open at the cutoff itself.
ClosingLate == {d \in Latest : Cutoff(d) < now}

\* The open session that a request made now finds past its cutoff.
Closing == {d \in Latest : Cutoff(d) <= now}

\* _missed_checkout_threshold_utc
MissedThreshold(d) ==
    LET t == d * DayLength + ins[d].rule.end
    IN  IF t < Cutoff(d) THEN t ELSE Cutoff(d)

MissedDue(d, t) == MissedThreshold(d) <= t /\ t < Cutoff(d)

---------------------------------------------------------------------------
(* Exceptions.  source_checkin_log_id is UNIQUE: one for a log.  The      *)
(* requests of the employee look for the one of the IN log.              *)

Types == {"AUTO_CLOSED", "MISSED_CHECKOUT", "SUSPECTED_LOCATION_SPOOF",
          "LARGE_TIME_DEVIATION", "FACE_NOT_CAPTURED"}

NoException == [type |-> "NONE", closed |-> FALSE]

\* closed : the status is terminal (APPROVED, REJECTED or EXPIRED)
Exception == [type : Types \cup {"NONE"}, closed : BOOLEAN]

Checks == {"auto", "missed", "risk", "range", "deviation"}

TypeOf == [auto |-> "AUTO_CLOSED", missed |-> "MISSED_CHECKOUT",
           risk |-> "SUSPECTED_LOCATION_SPOOF",
           range |-> "SUSPECTED_LOCATION_SPOOF",
           deviation |-> "LARGE_TIME_DEVIATION"]

\* The types each _ensure_*_exception replaces by its own, in a row that is
\* not closed; of any other row it changes nothing but the note.
\* Mutant: a location risk replaces everything.
ReplacesForRisk == [auto |-> Types,
                    missed |-> Types \ {"AUTO_CLOSED"},
                    risk |-> Types, range |-> {}, deviation |-> {}]

Replaces == [auto |-> Types,
             missed |-> Types \ {"AUTO_CLOSED"},
             risk |-> Types \ {"AUTO_CLOSED", "MISSED_CHECKOUT"},
             range |-> {}, deviation |-> {}]

\* seen : the row as the request read it; row : as it is when it commits.
Ensured(check, seen, row) ==
    IF seen = NoException THEN [type |-> TypeOf[check], closed |-> FALSE]
    ELSE IF ~seen.closed /\ seen.type \in Replaces[check] \ {TypeOf[check]}
         THEN [row EXCEPT !.type = TypeOf[check]]
         ELSE row

---------------------------------------------------------------------------
(* Requests. *)

Steps == {"close", "check", "missed", "insert", "read", "write", "resolve"}

\* What a log makes the request ensure, in this order.
Todos == {<<>>, <<"risk">>, <<"range">>, <<"deviation">>,
          <<"risk", "deviation">>, <<"range", "deviation">>}

ASSUME OutcomesAssumption == Outcomes \subseteq Todos /\ Outcomes # {}
ASSUME SystemAssumption == SystemTypes \subseteq Types

Request == [op : {"idle", "checkin", "checkout", "status", "approve"},
            step : Steps \cup {"done"}, at : Nat, rule : Rule,
            date : Dates \cup {NoDate}, seen : Exception, source : {"IN", "OUT"},
            out : Log, todo : Todos]

\* source : the log the exception to approve is about
Idle == [op |-> "idle", step |-> "done", at |-> 0, rule |-> NoLog.rule,
         date |-> NoDate, seen |-> NoException, source |-> "IN",
         out |-> NoLog, todo |-> <<>>]

At(w, step) == req[w].step = step

Unlock(w) == lock' = IF lock = w THEN NoOne ELSE lock

Done(w) == req' = [req EXCEPT ![w] = Idle]

GoTo(w, step, d) == req' = [req EXCEPT ![w].step = step, ![w].date = d,
                                       ![w].seen = exc[d]]

---------------------------------------------------------------------------
(* The history of overlapping requests.  Every action ends with Overlap. *)

LogsWritten == ins' # ins \/ outs' # outs

Moves(w) == req'[w] # req[w]

\* The dates whose exception gets its type from the outdated copy of a request.
Overwrites ==
    {d \in Dates : /\ exc'[d].type # exc[d].type
                   /\ \E w \in Workers : /\ Moves(w) /\ req[w].date = d
                                         /\ req[w].seen # exc[d]}

Overlap ==
    /\ overtaken' = {w \in Workers :
                        /\ req'[w] # Idle
                        /\ w \in overtaken \/ (LogsWritten /\ ~Moves(w))}
    /\ raced' = (raced \/ (LogsWritten /\ \E w \in overtaken : Moves(w)))
    /\ settled' = settled \cup {d \in Dates : /\ exc'[d].closed
                                            /\ exc'[d].type # "AUTO_CLOSED"}
    /\ overwritten' = overwritten \cup Overwrites

---------------------------------------------------------------------------
Init == /\ now = DayLength - 1     \* so that every work date is one of Dates
        /\ rule \in Rules
        /\ ins = [d \in Dates |-> NoLog]
        /\ outs = [d \in Dates |-> NoLog]
        /\ exc = [d \in Dates |-> NoException]
        /\ outExc = [d \in Dates |-> NoException]
        /\ lock = NoOne
        /\ req = [w \in Workers |-> Idle]
        /\ overtaken = {} /\ raced = FALSE
        /\ settled = {} /\ overwritten = {}

\* Patience is the longest a request takes.
Tick == /\ now < MaxTime - 1
        /\ \A w \in Workers : req[w] # Idle => now < req[w].at + Patience
        /\ now' = now + 1
        /\ UNCHANGED <<rule, ins, outs, exc, outExc, lock, req>>
        /\ Overlap

\* An administrator edits the rule, the group or the shift of the employee.
ChangeRule == /\ now \in EditTimes
              /\ rule' \in Rules \ {rule}
              /\ UNCHANGED <<now, ins, outs, exc, outExc, lock, req>>
              /\ Overlap

---------------------------------------------------------------------------
(* /checkin, /checkout and /status. *)

\* Mutant: the employee row is read without FOR UPDATE.
ReadEmployee(w) == w \in Workers /\ UNCHANGED lock

LockEmployee(w) == lock = NoOne /\ lock' = w

\* The request takes the lock, the rule and the time, and looks for an open
\* session past its cutoff, which it will close.
Start(w, op) ==
    /\ req[w] = Idle
    /\ IF op = "status" THEN UNCHANGED lock
                        ELSE LockEmployee(w)
    /\ LET new == [Idle EXCEPT !.op = op, !.at = now, !.rule = rule]
       IN  \/ \E d \in Closing :
                req' = [req EXCEPT ![w] = [new EXCEPT !.step = "close",
                                                      !.date = d,
                                                      !.seen = exc[d]]]
           \/ /\ Latest = {} \/ Latest \ Closing # {}
              /\ req' = [req EXCEPT ![w] = [new EXCEPT !.step = "check"]]
    /\ UNCHANGED <<now, rule, ins, outs, exc, outExc>>
    /\ Overlap

\* Two requests may try to insert the same row; the second fails.
Taken(w) == exc[req[w].date] # NoException /\ req[w].seen = NoException

\* Mutant: the exception is left to a later request.
EnsureLater(w, check) == check \in Checks /\ w \in Workers /\ UNCHANGED exc

Ensure(w, check) ==
    /\ ~Taken(w)
    /\ exc' = [exc EXCEPT ![req[w].date] = Ensured(check, req[w].seen, @)]

\* The OUT log of the cutoff and its exception are one transaction; its
\* commit releases the lock.  Only a check-in goes on after it: a check-out
\* is refused, a status has nothing left to write.
AutoClose(w) ==
    LET d == req[w].date
    IN  /\ At(w, "close")
        /\ outs[d] = NoLog
        /\ outs' = [outs EXCEPT ![d] =
                       [kind |-> "AUTO", time |-> Cutoff(d),
                        suspect |-> ins[d].suspect, rule |-> ins[d].rule]]
        /\ Ensure(w, "auto")
        /\ Unlock(w)
        /\ IF req[w].op = "checkin" THEN GoTo(w, "check", d) ELSE Done(w)
        /\ UNCHANGED <<now, rule, ins, outExc>>
        /\ Overlap

\* The second look at the open session: a missed check-out is reported, a
\* check-in goes on without one and a check-out with one.
Check(w) ==
    LET r == req[w]
        d == compute_work_date(r.at, r.rule.cutoff)
    IN  /\ At(w, "check")
        /\ \/ \E e \in Latest : /\ r.op # "checkout"
                                /\ MissedDue(e, r.at)
                                /\ GoTo(w, "missed", e) /\ UNCHANGED lock
           \/ /\ r.op = "checkin"
              /\ Latest = {} /\ ins[d] = NoLog
              /\ GoTo(w, "insert", d) /\ UNCHANGED lock
           \/ \E e \in Latest : /\ r.op = "checkout"
                                /\ GoTo(w, "insert", e) /\ UNCHANGED lock
           \/ \* refused, or nothing to report
              /\ CASE r.op = "checkout" -> Latest = {}
                   [] r.op = "status"   -> Latest = {}
                                             \/ \E e \in Latest : ~MissedDue(e, r.at)
                   [] r.op = "checkin"  -> \/ Latest = {} /\ ins[d] # NoLog
                                           \/ \E e \in Latest : ~MissedDue(e, r.at)
              /\ Done(w) /\ Unlock(w)
        /\ UNCHANGED <<now, rule, ins, outs, exc, outExc>>
        /\ Overlap

\* The check-in that reports a missed check-out is refused.
ReportMissed(w) == /\ At(w, "missed")
                   /\ Ensure(w, "missed")
                   /\ Done(w) /\ Unlock(w)
                   /\ UNCHANGED <<now, rule, ins, outs, outExc>>
                   /\ Overlap

\* Where the employee stands and what the risk assessment makes of it are
\* inputs; a log out of range or at risk needs a location exception.
Suspect(todo) == todo \notin {<<>>, <<"deviation">>}

\* Mutant: the last exception is dropped.
FlagAllButOne(w, todo) ==
    IF Len(todo) <= 1
    THEN Done(w)
    ELSE req' = [req EXCEPT ![w].step = "read", ![w].todo = todo]

Flag(w, todo) == IF todo = <<>>
                 THEN Done(w)
                 ELSE req' = [req EXCEPT ![w].step = "read", ![w].todo = todo]

InsertIn(w) ==
    LET r == req[w]
    IN  /\ At(w, "insert") /\ r.op = "checkin"
        /\ ins[r.date] = NoLog
        /\ \E todo \in Outcomes :
             /\ ins' = [ins EXCEPT ![r.date] =
                           [kind |-> "REAL", time |-> r.at,
                            suspect |-> Suspect(todo), rule |-> r.rule]]
             /\ Flag(w, todo)
        /\ Unlock(w)
        /\ UNCHANGED <<now, rule, outs, exc, outExc>>
        /\ Overlap

InsertOut(w) ==
    LET r == req[w]
    IN  /\ At(w, "insert") /\ r.op = "checkout"
        /\ outs[r.date] = NoLog
        /\ \E todo \in Outcomes :
             /\ outs' = [outs EXCEPT ![r.date] =
                            [kind |-> "REAL", time |-> r.at,
                             suspect |-> Suspect(todo), rule |-> ins[r.date].rule]]
             /\ Flag(w, todo)
        /\ Unlock(w)
        /\ UNCHANGED <<now, rule, ins, exc, outExc>>
        /\ Overlap

\* The assessment says BLOCK: refused, nothing is written.
Block(w) == /\ At(w, "insert")
            /\ Done(w) /\ Unlock(w)
            /\ UNCHANGED <<now, rule, ins, outs, exc, outExc>>
            /\ Overlap

\* The log is committed; its exceptions are ensured afterwards, each in a
\* transaction of its own.
ReadException(w) == /\ At(w, "read")
                    /\ GoTo(w, "write", req[w].date)
                    /\ UNCHANGED <<now, rule, ins, outs, exc, outExc, lock>>
                    /\ Overlap

WriteException(w) == /\ At(w, "write")
                     /\ Ensure(w, Head(req[w].todo))
                     /\ Flag(w, Tail(req[w].todo))
                     /\ UNCHANGED <<now, rule, ins, outs, outExc, lock>>
                     /\ Overlap

\* An insert meets a row another request has committed: IntegrityError.
Conflict(w) ==
    LET r == req[w]
    IN  /\ CASE r.step = "close"  -> outs[r.date] # NoLog \/ Taken(w)
              [] r.step = "missed" -> Taken(w)
              [] r.step = "write"  -> Taken(w)
              [] r.step = "insert" -> IF r.op = "checkin"
                                      THEN ins[r.date] # NoLog
                                      ELSE outs[r.date] # NoLog
              [] r.step = "resolve" -> outs[r.date] # NoLog /\ r.out = NoLog
              [] OTHER -> FALSE
        /\ Done(w) /\ Unlock(w)
        /\ UNCHANGED <<now, rule, ins, outs, exc, outExc>>
        /\ Overlap

---------------------------------------------------------------------------
(* Requests about exceptions, seen from the session. *)

\* A new exception about a log of the employee that has none.
Raise(d, type) ==
    /\ \/ /\ ins[d] # NoLog /\ exc[d] = NoException
          /\ exc' = [exc EXCEPT ![d].type = type]
          /\ UNCHANGED outExc
       \/ /\ outs[d] # NoLog /\ outExc[d] = NoException
          /\ outExc' = [outExc EXCEPT ![d].type = type]
          /\ UNCHANGED exc
    /\ UNCHANGED <<now, rule, ins, outs, lock, req>>
    /\ Overlap

\* flag-no-camera
FlagFace(d) == Raise(d, "FACE_NOT_CAPTURED")

\* POST /attendance-exceptions/system: of any type, whatever the session.
CreateSystem(d) == \E type \in SystemTypes : Raise(d, type)

\* Decisions and expiries close a row, an extension may reopen an expired one.
Settle(d) ==
    /\ \/ /\ exc[d] # NoException
          /\ exc' = [exc EXCEPT ![d].closed = ~@]
          /\ UNCHANGED outExc
       \/ /\ outExc[d] # NoException
          /\ outExc' = [outExc EXCEPT ![d].closed = ~@]
          /\ UNCHANGED exc
    /\ UNCHANGED <<now, rule, ins, outs, lock, req>>
    /\ Overlap

\* approve, with the actual check-out time: the OUT log is looked up, then
\* updated or inserted.
BeginApprove(w, d) ==
    /\ req[w] = Idle
    /\ \E source \in {"IN", "OUT"} :
         LET row == IF source = "IN" THEN exc[d] ELSE outExc[d]
         IN  /\ row.type \in {"AUTO_CLOSED", "MISSED_CHECKOUT"}
             /\ req' = [req EXCEPT ![w] = [Idle EXCEPT !.op = "approve",
                            !.at = now, !.step = "resolve", !.date = d,
                            !.seen = row, !.source = source, !.out = outs[d]]]
    /\ UNCHANGED <<now, rule, ins, outs, exc, outExc, lock>>
    /\ Overlap

\* The time must be later than the log the exception is about.
Approve(w) ==
    LET r == req[w]
        d == r.date
    IN  /\ At(w, "resolve")
        /\ r.out = NoLog => outs[d] = NoLog
        /\ \E t \in AdminTimes :
             /\ (IF r.source = "IN" THEN ins[d].time ELSE r.out.time) < t
             /\ outs' = [outs EXCEPT ![d] =
                           IF r.out = NoLog
                           THEN [kind |-> "ADMIN", time |-> t,
                                 suspect |-> ins[d].suspect, rule |-> ins[d].rule]
                           ELSE [@ EXCEPT !.kind = "ADMIN", !.time = t]]
        /\ IF r.source = "IN"
           THEN exc' = [exc EXCEPT ![d].closed = TRUE] /\ UNCHANGED outExc
           ELSE outExc' = [outExc EXCEPT ![d].closed = TRUE] /\ UNCHANGED exc
        /\ Done(w)
        /\ UNCHANGED <<now, rule, ins, lock>>
        /\ Overlap

---------------------------------------------------------------------------
Fail(w) == /\ MayFail
           /\ req[w] # Idle
           /\ Done(w) /\ Unlock(w)
           /\ UNCHANGED <<now, rule, ins, outs, exc, outExc>>
           /\ Overlap

Proceed(w) ==
    \/ AutoClose(w) \/ Check(w) \/ ReportMissed(w)
    \/ InsertIn(w) \/ InsertOut(w) \/ Block(w)
    \/ ReadException(w) \/ WriteException(w) \/ Approve(w) \/ Conflict(w)

Next ==
    \/ Tick \/ ChangeRule
    \/ \E w \in Workers, op \in {"checkin", "checkout", "status"} : Start(w, op)
    \/ \E w \in Workers : Proceed(w) \/ Fail(w)
    \/ \E d \in Reviewed : FlagFace(d) \/ CreateSystem(d) \/ Settle(d)
    \/ \E w \in Workers, d \in Reviewed : BeginApprove(w, d)

Spec == Init /\ [][Next]_vars

\* A thread that has begun a request runs to its end.
FairSpec == Spec /\ \A w \in Workers : WF_vars(Proceed(w))

---------------------------------------------------------------------------
(* Properties. *)

TypeOK ==
    /\ now \in Nat
    /\ rule \in Rules
    /\ ins \in [Dates -> Log]
    /\ outs \in [Dates -> Log]
    /\ exc \in [Dates -> Exception]
    /\ outExc \in [Dates -> Exception]
    /\ lock \in Workers \cup {NoOne}
    /\ req \in [Workers -> Request]
    /\ \A w \in Workers : req[w].step \in Steps \ {"check"} => req[w].date \in Dates
    /\ overtaken \subseteq Workers
    /\ raced \in BOOLEAN
    /\ settled \subseteq Dates
    /\ overwritten \subseteq Dates

\* A session ends after it began, whoever closes it: the time of an OUT log
\* is read before the session it closes is looked for.
OutAfterIn ==
    \A d \in Dates : outs[d] # NoLog => /\ ins[d] # NoLog
                                        /\ ins[d].time <= outs[d].time

\* A day the system has closed is reported as such: its exception says
\* AUTO_CLOSED, pending or decided, unless the exception of the session had
\* been closed before for another reason (then the code leaves it alone), or a
\* request with an outdated copy took the row over.
AutoClosedIsReported ==
    \A d \in Dates \ (settled \cup overwritten) :
        outs[d].kind = "AUTO" => exc[d].type = "AUTO_CLOSED"

\* The employee has one session at a time ("still blocks second checkin"), as
\* long as no request writes a log after another one has overtaken it.
AtMostOneOpenSession ==
    ~raced => \A d, e \in OpenDates : d = e

\* A second session gets opened only around a commit that closed an old one,
\* and released the lock, in the middle of a request: without it the lock
\* keeps even the requests apart that a cutoff falls between.
SecondOpenAfterClosing ==
    (\E d, e \in OpenDates : d # e) => \E d \in Dates : outs[d].kind \in {"AUTO", "ADMIN"}

\* Sessions do not overlap: no minute is worked twice.  (An administrator
\* may give a session any end; an overtaken request may write what it likes.)
SessionsDisjoint ==
    \A d, e \in Dates :
        (/\ ~raced /\ d # e /\ ins[d] # NoLog /\ ins[e] # NoLog
         /\ ins[d].time < ins[e].time)
          => outs[d] # NoLog /\ (outs[d].kind = "ADMIN" \/ outs[d].time <= ins[e].time)

\* A real check-out falls before the cutoff that closes the session, unless
\* the request was overtaken by the one that opened it.
RealOutBeforeCutoff ==
    ~raced => \A d \in Dates : outs[d].kind = "REAL" => outs[d].time < Cutoff(d)

\* What /status answers and what /checkin does, were they to run now: both
\* close the latest session when it is past its cutoff; then /status looks for
\* an OUT log of today, /checkin for an open session and an IN log of today.
Today   == compute_work_date(now, rule.cutoff)

\* Mutant: a session past its cutoff still forbids the button.
can_checkin_unless_open == OpenDates = {} /\ outs[Today] = NoLog

can_checkin     == /\ OpenDates = {} \/ Closing # {}
                   /\ outs[Today] = NoLog /\ Today \notin Closing
CheckinAccepted == /\ OpenDates \subseteq Closing
                   /\ ins[Today] = NoLog

\* The button that /status enables is the one the handler accepts, as long as
\* no overtaken request has written a log.
StatusTellsTheTruth == ~raced => (can_checkin <=> CheckinAccepted)

\* The exception types have an order of precedence: an exception about a
\* session is never taken over by a type of lower precedence, except by a
\* request whose copy of the row is outdated.
Precedence == <<"FACE_NOT_CAPTURED", "LARGE_TIME_DEVIATION",
                "SUSPECTED_LOCATION_SPOOF", "MISSED_CHECKOUT", "AUTO_CLOSED">>

Rank(type) == CHOOSE n \in 1..5 : Precedence[n] = type

PrecedenceKept ==
    [][\A d \in Dates \ Overwrites :
          (exc[d] # NoException /\ exc'[d] # NoException)
            => Rank(exc[d].type) <= Rank(exc'[d].type)]_exc

\* A request of the employee reports a missed check-out.
Reports(w) == At(w, "missed") /\ Moves(w) /\ exc' # exc

\* It is reported of a session without a check-out ("no real OUT log after
\* checkout threshold").  Not so when the employee checks out while /status,
\* which takes no lock, is about to report.
MissedIsMissing ==
    [][\A w \in Workers : Reports(w) => outs[req[w].date] = NoLog]_vars

\* ... and once the shift is over; the end of a night shift falls on the next
\* calendar day.  The code takes the work date's day: it does not hold for a
\* rule that ends after midnight.
ShiftEnd(d) ==
    LET r == ins[d].rule
    IN  d * DayLength + r.end + (IF r.end < r.start THEN DayLength ELSE 0)

MissedAfterShiftEnd ==
    [][\A w \in Workers : Reports(w) => ShiftEnd(req[w].date) <= now]_vars

\* A log out of range or at risk gets an exception ("still needs an
\* exception"), although it is ensured after the log has been committed.
SuspectIsFlagged ==
    \A d \in Dates :
        (ins[d].suspect \/ outs[d].suspect) ~> (exc[d] # NoException)
===========================================================================
