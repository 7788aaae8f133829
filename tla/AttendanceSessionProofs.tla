---------------------- MODULE AttendanceSessionProofs ---------------------
(***************************************************************************)
(* Theorems about AttendanceSession, for every set of rules, any length of *)
(* the day and any number of threads: what holds always, and what holds as *)
(* long as no request writes a log after another one has overtaken it.     *)
(***************************************************************************)
EXTENDS AttendanceSession, TLAPS

---------------------------------------------------------------------------
(* Dates and times. *)

LEMMA DivMul ==
    ASSUME NEW L \in Nat \ {0}, NEW x \in Nat
    PROVE  /\ x \div L \in Nat
           /\ (x \div L) * L <= x
           /\ x < (x \div L + 1) * L
OBVIOUS

LEMMA MulMono ==
    ASSUME NEW L \in Nat \ {0}, NEW a \in Nat, NEW b \in Nat, a * L < b * L
    PROVE  a < b
OBVIOUS

LEMMA RuleType ==
    ASSUME NEW r \in Rules
    PROVE  /\ r \in Rule
           /\ r.cutoff \in Nat /\ r.cutoff <= DayLength - 1
BY TimeAssumption DEF Rule

\* The work date of a request falls on one of Dates, and the request comes
\* before the cutoff of that date.
LEMMA WorkDate ==
    ASSUME NEW t \in Nat, NEW r \in Rules, DayLength - 1 <= t, t < MaxTime
    PROVE  /\ compute_work_date(t, r.cutoff) \in Dates
           /\ t < work_date_cutoff(compute_work_date(t, r.cutoff), r.cutoff)
<1> DEFINE x == t - r.cutoff
           d == x \div DayLength
<1>1. DayLength \in Nat \ {0} /\ Days \in Nat \ {0}
  BY TimeAssumption
<1>2. x \in Nat /\ x < Days * DayLength /\ r.cutoff \in Nat /\ x + r.cutoff = t
  BY <1>1, RuleType DEF MaxTime
<1> HIDE DEF x
<1>3. d \in Nat /\ d * DayLength <= x /\ x < (d + 1) * DayLength
  BY <1>1, <1>2, DivMul
<1> HIDE DEF d
<1>4. d < Days
  <2>1. d * DayLength \in Nat /\ Days * DayLength \in Nat
    BY <1>1, <1>3
  <2>2. d * DayLength < Days * DayLength
    BY <1>2, <1>3, <2>1
  <2> QED BY <1>1, <1>3, <2>2, MulMono
<1>5. d \in Dates
  BY <1>1, <1>3, <1>4 DEF Dates
<1>6. t < (d + 1) * DayLength + r.cutoff
  <2>1. (d + 1) * DayLength \in Nat
    BY <1>1, <1>3
  <2> QED BY <1>2, <1>3, <2>1
<1> QED BY <1>5, <1>6 DEF x, d, compute_work_date, work_date_cutoff

LEMMA CutoffType ==
    ASSUME TypeOK, NEW d \in Dates
    PROVE  Cutoff(d) \in Nat
<1>1. SnapshotCutoff(d) \in Nat
  BY TimeAssumption DEF SnapshotCutoff, TypeOK, Log, Rule
<1>2. (d + 1) * DayLength \in Nat
  BY TimeAssumption DEF Dates
<1> QED BY <1>1, <1>2 DEF Cutoff, work_date_cutoff

---------------------------------------------------------------------------
(* Types of the records the requests build. *)

LEMMA NoLogType == NoLog \in Log /\ NoLog.kind = "NONE" /\ NoLog.time = 0
BY DEF NoLog, Log, Kinds, Rule

LEMMA NoExceptionType == NoException \in Exception /\ NoException.type = "NONE"
BY DEF NoException, Exception

LEMMA IdleType ==
    /\ Idle \in Request
    /\ Idle.op = "idle" /\ Idle.step = "done" /\ Idle.at = 0
    /\ Idle.date = NoDate /\ Idle.seen = NoException /\ Idle.source = "IN"
BY NoLogType, NoExceptionType DEF Idle, Request, Todos, NoDate, Dates, Log

LEMMA NoDateIsNoDate == NoDate \notin Dates
BY TimeAssumption DEF NoDate, Dates

LEMMA TodoType ==
    ASSUME NEW todo \in Todos, todo # <<>>
    PROVE  /\ Head(todo) \in {"risk", "range", "deviation"}
           /\ Head(todo) \in Checks
           /\ Tail(todo) \in Todos
<1>1. CASE todo = <<"risk">>
  BY <1>1 DEF Todos, Checks
<1>2. CASE todo = <<"range">>
  BY <1>2 DEF Todos, Checks
<1>3. CASE todo = <<"deviation">>
  BY <1>3 DEF Todos, Checks
<1>4. CASE todo = <<"risk", "deviation">>
  BY <1>4 DEF Todos, Checks
<1>5. CASE todo = <<"range", "deviation">>
  BY <1>5 DEF Todos, Checks
<1> QED BY <1>1, <1>2, <1>3, <1>4, <1>5 DEF Todos

LEMMA TypeOfType == \A check \in Checks : TypeOf[check] \in Types
BY DEF Checks, TypeOf, Types

\* An exception that is ensured is there afterwards.
LEMMA EnsuredType ==
    ASSUME NEW check \in Checks, NEW seen, NEW row \in Exception,
           seen # NoException => row # NoException,
           row # NoException => row.type # "NONE"
    PROVE  /\ Ensured(check, seen, row) \in Exception
           /\ Ensured(check, seen, row) # NoException
           /\ Ensured(check, seen, row).type # "NONE"
<1>1. TypeOf[check] \in Types /\ "NONE" \notin Types
  BY TypeOfType DEF Types
<1>2. CASE seen = NoException
  BY <1>1, <1>2, NoExceptionType DEF Ensured, Exception
<1>3. CASE seen # NoException
  <2>1. [row EXCEPT !.type = TypeOf[check]] \in Exception
    BY <1>1 DEF Exception
  <2>2. [row EXCEPT !.type = TypeOf[check]].type = TypeOf[check]
    BY DEF Exception
  <2>3. Ensured(check, seen, row) \in {row, [row EXCEPT !.type = TypeOf[check]]}
    BY <1>3 DEF Ensured
  <2> QED BY <1>1, <1>3, <2>1, <2>2, <2>3, NoExceptionType
<1> QED BY <1>2, <1>3

---------------------------------------------------------------------------
(* The inductive invariant, for any number of threads.                      *)

Employee == {"checkin", "checkout", "status"}

\* What a request in progress has learned, and what it will rely on.
Sound(r) ==
    /\ r.at <= now
    /\ r.op \in Employee => r.rule \in Rules /\ DayLength - 1 <= r.at
    /\ r.step \in {"close", "check", "missed"} => r.op \in Employee
    /\ r.step = "insert" => r.op \in {"checkin", "checkout"}
    /\ r.step \in {"read", "write"} => r.todo # <<>>
    /\ r.step \in {"close", "missed", "read", "write", "resolve"}
         => ins[r.date] # NoLog
    /\ (r.step = "insert" /\ r.op = "checkout") => ins[r.date] # NoLog
    /\ (r.step = "insert" /\ r.op = "checkin")
         => r.date = compute_work_date(r.at, r.rule.cutoff)
    /\ r.step = "close" => Cutoff(r.date) <= r.at
    /\ r.step # "resolve" => r.source = "IN"
    /\ r.step = "resolve" => r.seen # NoException
    /\ (r.date \in Dates /\ r.seen # NoException /\ r.source = "IN")
         => exc[r.date] # NoException /\ r.seen.type # "NONE"
    /\ (r.step = "resolve" /\ r.source = "OUT")
         => r.out # NoLog /\ ins[r.date].time <= r.out.time

RequestsSound == \A w \in Workers : Sound(req[w])

ClockInv == DayLength - 1 <= now /\ now < MaxTime

\* A check-in comes before the cutoff of its work date; exceptions are about
\* sessions.
SessionsSound ==
    \A d \in Dates :
        /\ ins[d] # NoLog => ins[d].time < Cutoff(d)
        /\ ins[d].time <= now
        /\ exc[d] # NoException => ins[d] # NoLog /\ exc[d].type # "NONE"
        /\ outExc[d] # NoException => outs[d] # NoLog

Before == {"close", "check", "missed", "insert"}

\* A check-out holds the employee row until it writes.  Whoever holds it
\* looks at check-ins that are not later than its own time: those to come
\* were begun before it took the lock.
Locked ==
    \A w \in Workers :
        /\ (req[w].op = "checkout" /\ req[w].step \in Before) => lock = w
        /\ lock = w =>
             /\ req[w].op \in {"checkin", "checkout"} /\ req[w].step \in Before
             /\ \A v \in Workers : req[v].op = "checkin" => req[v].at <= req[w].at
             /\ \A d \in Dates : ins[d].time <= req[w].at

IInv == /\ TypeOK
        /\ ClockInv
        /\ RequestsSound
        /\ SessionsSound
        /\ Locked
        /\ OutAfterIn

---------------------------------------------------------------------------
(* What the pieces of the actions do to the requests. *)

LEMMA RequestUpdate ==
    ASSUME TypeOK, NEW w \in Workers, NEW r \in Request,
           req' = [req EXCEPT ![w] = r],
           r.step \in Steps \ {"check"} => r.date \in Dates
    PROVE  /\ req' \in [Workers -> Request]
           /\ \A v \in Workers : req'[v].step \in Steps \ {"check"}
                                   => req'[v].date \in Dates
           /\ req'[w] = r
           /\ \A v \in Workers \ {w} : req'[v] = req[v]
BY DEF TypeOK

LEMMA DoneEffect ==
    ASSUME TypeOK, NEW w \in Workers, Done(w)
    PROVE  /\ req' \in [Workers -> Request]
           /\ \A v \in Workers : req'[v].step \in Steps \ {"check"}
                                   => req'[v].date \in Dates
           /\ req'[w] = Idle
           /\ \A v \in Workers \ {w} : req'[v] = req[v]
<1>1. Idle.step \notin Steps
  BY IdleType DEF Steps
<1> QED BY <1>1, IdleType, RequestUpdate DEF Done

LEMMA GoToEffect ==
    ASSUME TypeOK, NEW w \in Workers, NEW step \in Steps, NEW d \in Dates,
           GoTo(w, step, d)
    PROVE  /\ req' \in [Workers -> Request]
           /\ \A v \in Workers : req'[v].step \in Steps \ {"check"}
                                   => req'[v].date \in Dates
           /\ \A v \in Workers \ {w} : req'[v] = req[v]
           /\ req'[w].step = step /\ req'[w].date = d /\ req'[w].seen = exc[d]
           /\ req'[w].op = req[w].op /\ req'[w].at = req[w].at
           /\ req'[w].rule = req[w].rule /\ req'[w].todo = req[w].todo
           /\ req'[w].source = req[w].source
<1> DEFINE r == [req[w] EXCEPT !.step = step, !.date = d, !.seen = exc[d]]
<1>1. req[w] \in Request /\ exc[d] \in Exception
  BY DEF TypeOK
<1>2. /\ r \in Request
      /\ r.step = step /\ r.date = d /\ r.seen = exc[d] /\ r.op = req[w].op
      /\ r.at = req[w].at /\ r.rule = req[w].rule /\ r.todo = req[w].todo
      /\ r.source = req[w].source
  BY <1>1 DEF Request
<1>3. req' = [req EXCEPT ![w] = r]
  BY DEF GoTo, TypeOK
<1> HIDE DEF r
<1>4. /\ req' \in [Workers -> Request]
      /\ \A v \in Workers : req'[v].step \in Steps \ {"check"}
                              => req'[v].date \in Dates
      /\ req'[w] = r
      /\ \A v \in Workers \ {w} : req'[v] = req[v]
  BY <1>2, <1>3, RequestUpdate
<1> QED BY <1>2, <1>4 DEF r

LEMMA FlagEffect ==
    ASSUME TypeOK, NEW w \in Workers, NEW todo \in Todos, Flag(w, todo),
           req[w].date \in Dates
    PROVE  /\ req' \in [Workers -> Request]
           /\ \A v \in Workers : req'[v].step \in Steps \ {"check"}
                                   => req'[v].date \in Dates
           /\ \A v \in Workers \ {w} : req'[v] = req[v]
           /\ \/ req'[w] = Idle
              \/ /\ req'[w].step = "read"
                 /\ req'[w].todo = todo /\ todo # <<>>
                 /\ req'[w].op = req[w].op /\ req'[w].at = req[w].at
                 /\ req'[w].rule = req[w].rule /\ req'[w].date = req[w].date
                 /\ req'[w].seen = req[w].seen
                 /\ req'[w].source = req[w].source
<1>1. CASE todo = <<>>
  BY <1>1, DoneEffect DEF Flag
<1>2. CASE todo # <<>>
  <2> DEFINE r == [req[w] EXCEPT !.step = "read", !.todo = todo]
  <2>1. req[w] \in Request
    BY DEF TypeOK
  <2>2. /\ r \in Request /\ r.step = "read" /\ r.todo = todo
        /\ r.op = req[w].op /\ r.at = req[w].at /\ r.rule = req[w].rule
        /\ r.date = req[w].date /\ r.seen = req[w].seen
        /\ r.source = req[w].source
    BY <2>1 DEF Request, Steps
  <2>3. req' = [req EXCEPT ![w] = r]
    BY <1>2 DEF Flag, TypeOK
  <2> HIDE DEF r
  <2>4. /\ req' \in [Workers -> Request]
        /\ \A v \in Workers : req'[v].step \in Steps \ {"check"}
                                => req'[v].date \in Dates
        /\ req'[w] = r
        /\ \A v \in Workers \ {w} : req'[v] = req[v]
    BY <2>2, <2>3, RequestUpdate
  <2> QED BY <1>2, <2>2, <2>4
<1> QED BY <1>1, <1>2

LEMMA StartEffect ==
    ASSUME TypeOK, NEW w \in Workers, NEW op \in Employee, Start(w, op)
    PROVE  /\ req' \in [Workers -> Request]
           /\ \A v \in Workers : req'[v].step \in Steps \ {"check"}
                                   => req'[v].date \in Dates
           /\ \A v \in Workers \ {w} : req'[v] = req[v]
           /\ req'[w].op = op /\ req'[w].at = now /\ req'[w].rule = rule
           /\ req'[w].source = "IN"
           /\ \/ /\ req'[w].step = "close" /\ req'[w].date \in Closing
                 /\ req'[w].seen = exc[req'[w].date]
              \/ /\ Latest = {} \/ Latest \ Closing # {}
                 /\ req'[w].step = "check" /\ req'[w].date = NoDate
                 /\ req'[w].seen = NoException
<1> DEFINE new == [Idle EXCEPT !.op = op, !.at = now, !.rule = rule]
<1>1. now \in Nat /\ rule \in Rule
  BY RuleType DEF TypeOK
<1>2. /\ new \in Request /\ new.op = op /\ new.at = now /\ new.rule = rule
      /\ new.date = NoDate /\ new.seen = NoException /\ new.source = "IN"
  BY <1>1, IdleType DEF Request, Employee
<1> HIDE DEF new
<1>3. ASSUME NEW d \in Closing,
             req' = [req EXCEPT ![w] = [new EXCEPT !.step = "close",
                                                   !.date = d, !.seen = exc[d]]]
      PROVE  /\ req' \in [Workers -> Request]
             /\ \A v \in Workers : req'[v].step \in Steps \ {"check"}
                                     => req'[v].date \in Dates
             /\ \A v \in Workers \ {w} : req'[v] = req[v]
             /\ req'[w].op = op /\ req'[w].at = now /\ req'[w].rule = rule
             /\ req'[w].source = "IN"
             /\ req'[w].step = "close" /\ req'[w].date = d
             /\ req'[w].seen = exc[d]
  <2> DEFINE r == [new EXCEPT !.step = "close", !.date = d, !.seen = exc[d]]
  <2>1. d \in Dates /\ exc[d] \in Exception
    BY DEF Closing, Latest, OpenDates, TypeOK
  <2>2. /\ r \in Request /\ r.op = op /\ r.at = now /\ r.rule = rule
        /\ r.step = "close" /\ r.date = d /\ r.seen = exc[d] /\ r.source = "IN"
    BY <1>2, <2>1 DEF Request, Steps
  <2>3. req' = [req EXCEPT ![w] = r]
    BY <1>3
  <2> HIDE DEF r
  <2> QED BY <2>1, <2>2, <2>3, RequestUpdate
<1>4. ASSUME req' = [req EXCEPT ![w] = [new EXCEPT !.step = "check"]]
      PROVE  /\ req' \in [Workers -> Request]
             /\ \A v \in Workers : req'[v].step \in Steps \ {"check"}
                                     => req'[v].date \in Dates
             /\ \A v \in Workers \ {w} : req'[v] = req[v]
             /\ req'[w].op = op /\ req'[w].at = now /\ req'[w].rule = rule
             /\ req'[w].source = "IN"
             /\ req'[w].step = "check" /\ req'[w].date = NoDate
             /\ req'[w].seen = NoException
  <2> DEFINE r == [new EXCEPT !.step = "check"]
  <2>1. /\ r \in Request /\ r.op = op /\ r.at = now /\ r.rule = rule
        /\ r.step = "check" /\ r.date = NoDate /\ r.seen = NoException
        /\ r.source = "IN"
    BY <1>2 DEF Request, Steps
  <2>2. req' = [req EXCEPT ![w] = r]
    BY <1>4
  <2> HIDE DEF r
  <2> QED BY <2>1, <2>2, RequestUpdate
<1>5. \/ \E d \in Closing :
            req' = [req EXCEPT ![w] = [new EXCEPT !.step = "close",
                                                  !.date = d, !.seen = exc[d]]]
      \/ /\ Latest = {} \/ Latest \ Closing # {}
         /\ req' = [req EXCEPT ![w] = [new EXCEPT !.step = "check"]]
  BY DEF Start, new
<1> QED BY <1>3, <1>4, <1>5

LEMMA BeginApproveEffect ==
    ASSUME TypeOK, NEW w \in Workers, NEW d \in Dates, BeginApprove(w, d)
    PROVE  /\ req' \in [Workers -> Request]
           /\ \A v \in Workers : req'[v].step \in Steps \ {"check"}
                                   => req'[v].date \in Dates
           /\ \A v \in Workers \ {w} : req'[v] = req[v]
           /\ req'[w].op = "approve" /\ req'[w].at = now
           /\ req'[w].step = "resolve" /\ req'[w].date = d
           /\ req'[w].seen # NoException /\ req'[w].out = outs[d]
           /\ \/ req'[w].source = "IN" /\ req'[w].seen = exc[d]
              \/ req'[w].source = "OUT" /\ req'[w].seen = outExc[d]
<1>1. PICK source \in {"IN", "OUT"} :
        LET row == IF source = "IN" THEN exc[d] ELSE outExc[d]
        IN  /\ row.type \in {"AUTO_CLOSED", "MISSED_CHECKOUT"}
            /\ req' = [req EXCEPT ![w] = [Idle EXCEPT !.op = "approve",
                           !.at = now, !.step = "resolve", !.date = d,
                           !.seen = row, !.source = source, !.out = outs[d]]]
  BY DEF BeginApprove
<1> DEFINE row == IF source = "IN" THEN exc[d] ELSE outExc[d]
           r == [Idle EXCEPT !.op = "approve", !.at = now, !.step = "resolve",
                             !.date = d, !.seen = row, !.source = source,
                             !.out = outs[d]]
<1>2. row \in {exc[d], outExc[d]} /\ (source = "IN" => row = exc[d])
                                  /\ (source = "OUT" => row = outExc[d])
  OBVIOUS
<1>3. row.type \in {"AUTO_CLOSED", "MISSED_CHECKOUT"} /\ req' = [req EXCEPT ![w] = r]
  BY <1>1
<1> HIDE DEF row
<1>4. now \in Nat /\ row \in Exception /\ outs[d] \in Log
  BY <1>2 DEF TypeOK
<1>5. /\ r \in Request /\ r.op = "approve" /\ r.at = now
      /\ r.step = "resolve" /\ r.date = d /\ r.seen = row
      /\ r.source = source /\ r.out = outs[d]
  BY <1>4, IdleType DEF Request, Steps
<1> HIDE DEF r
<1>6. row # NoException
  BY <1>3, NoExceptionType
<1> QED BY <1>2, <1>3, <1>5, <1>6, RequestUpdate

---------------------------------------------------------------------------
(* What a step can do to each variable. *)

LEMMA InsWritten ==
    ASSUME [Next]_vars
    PROVE  ins' = ins \/ \E w \in Workers : InsertIn(w)
BY DEF Next, vars, Tick, ChangeRule, Start, Proceed, AutoClose, Check,
       ReportMissed, InsertOut, Block, ReadException, WriteException,
       Approve, Conflict, Fail, FlagFace, CreateSystem, Raise, Settle,
       BeginApprove

LEMMA OutsWritten ==
    ASSUME [Next]_vars
    PROVE  \/ outs' = outs
           \/ \E w \in Workers : AutoClose(w) \/ InsertOut(w) \/ Approve(w)
BY DEF Next, vars, Tick, ChangeRule, Start, Proceed, Check,
       ReportMissed, InsertIn, Block, ReadException, WriteException,
       Conflict, Fail, FlagFace, CreateSystem, Raise, Settle,
       BeginApprove

LEMMA ExcWritten ==
    ASSUME [Next]_vars
    PROVE  \/ exc' = exc
           \/ \E w \in Workers : \/ AutoClose(w) \/ ReportMissed(w)
                                 \/ WriteException(w) \/ Approve(w)
           \/ \E d \in Reviewed : FlagFace(d) \/ CreateSystem(d) \/ Settle(d)
BY DEF Next, vars, Tick, ChangeRule, Start, Proceed, Check,
       InsertIn, InsertOut, Block, ReadException, Conflict, Fail, BeginApprove

LEMMA RequestsWritten ==
    ASSUME [Next]_vars
    PROVE  \/ req' = req /\ lock' = lock
           \/ \E w \in Workers : \/ \E op \in Employee : Start(w, op)
                                 \/ Proceed(w) \/ Fail(w)
                                 \/ \E d \in Reviewed : BeginApprove(w, d)
BY DEF Next, vars, Tick, ChangeRule, FlagFace, CreateSystem, Raise, Settle,
       Employee

LEMMA OutExcWritten ==
    ASSUME [Next]_vars
    PROVE  \/ outExc' = outExc
           \/ \E w \in Workers : Approve(w)
           \/ \E d \in Reviewed : FlagFace(d) \/ CreateSystem(d) \/ Settle(d)
BY DEF Next, vars, Tick, ChangeRule, Start, Proceed, AutoClose, Check,
       ReportMissed, InsertIn, InsertOut, Block, ReadException, WriteException,
       Conflict, Fail, BeginApprove

\* The history variables follow.
LEMMA HistoryStep ==
    ASSUME [Next]_vars
    PROVE  Overlap \/ UNCHANGED vars
BY DEF Next, Tick, ChangeRule, Start, Proceed, AutoClose, Check,
       ReportMissed, InsertIn, InsertOut, Block, ReadException, WriteException,
       Approve, Conflict, Fail, FlagFace, CreateSystem, Raise, Settle, BeginApprove

LEMMA ClockWritten ==
    ASSUME [Next]_vars
    PROVE  now' = now \/ Tick
BY DEF Next, vars, Tick, ChangeRule, Start, Proceed, AutoClose, Check,
       ReportMissed, InsertIn, InsertOut, Block, ReadException, WriteException,
       Approve, Conflict, Fail, FlagFace, CreateSystem, Raise, Settle,
       BeginApprove

LEMMA RuleWritten ==
    ASSUME TypeOK, [Next]_vars
    PROVE  rule' \in Rules
BY DEF TypeOK, Next, vars, Tick, ChangeRule, Start, Proceed, AutoClose, Check,
       ReportMissed, InsertIn, InsertOut, Block, ReadException, WriteException,
       Approve, Conflict, Fail, FlagFace, CreateSystem, Raise, Settle,
       BeginApprove

LEMMA ClockStep ==
    ASSUME TypeOK, ClockInv, [Next]_vars
    PROVE  /\ now' \in Nat /\ now <= now'
           /\ ClockInv'
<1>1. now \in Nat
  BY DEF TypeOK
<1>2. MaxTime \in Nat
  BY TimeAssumption DEF MaxTime
<1> QED BY <1>1, <1>2, ClockWritten, TimeAssumption DEF Tick, ClockInv

---------------------------------------------------------------------------
(* Rows of the three tables, for one work date each. *)

\* A check-in is inserted for its work date, if that has none.
LEMMA InsertInEffect ==
    ASSUME TypeOK, RequestsSound, NEW w \in Workers, InsertIn(w)
    PROVE  /\ req[w].date \in Dates
           /\ req[w].op = "checkin" /\ req[w].step = "insert"
           /\ ins[req[w].date] = NoLog
           /\ \A d \in Dates \ {req[w].date} : ins'[d] = ins[d]
           /\ ins'[req[w].date] \in Log
           /\ ins'[req[w].date] # NoLog
           /\ ins'[req[w].date].time = req[w].at
           /\ ins'[req[w].date].rule = req[w].rule
<1>1. /\ req[w].date \in Dates
      /\ req[w].op = "checkin" /\ req[w].step = "insert"
      /\ ins[req[w].date] = NoLog
  BY DEF InsertIn, At, TypeOK, Steps
<1>2. PICK b \in BOOLEAN :
        ins' = [ins EXCEPT ![req[w].date] =
                  [kind |-> "REAL", time |-> req[w].at,
                   suspect |-> b, rule |-> req[w].rule]]
  BY DEF InsertIn, Suspect
<1>3. req[w].at \in Nat /\ req[w].rule \in Rule
  BY DEF TypeOK, Request
<1> DEFINE log == [kind |-> "REAL", time |-> req[w].at,
                   suspect |-> b, rule |-> req[w].rule]
<1>4. log \in Log /\ log # NoLog
  BY <1>3 DEF Log, Kinds, NoLog
<1>5. ins'[req[w].date] = log /\ \A d \in Dates \ {req[w].date} : ins'[d] = ins[d]
  BY <1>1, <1>2 DEF TypeOK
<1> QED BY <1>1, <1>4, <1>5

\* A check-out is written for a work date that has none, or an administrator
\* replaces its time.
OutInserted(w, d) ==
    /\ At(w, "insert") /\ req[w].op = "checkout"
    /\ d = req[w].date
    /\ outs[d] = NoLog
    /\ outs'[d].kind = "REAL"
    /\ outs'[d].time = req[w].at

OutClosed(w, d) ==
    /\ At(w, "close")
    /\ d = req[w].date
    /\ outs[d] = NoLog
    /\ outs'[d].kind = "AUTO"
    /\ outs'[d].time = Cutoff(d)
    /\ exc' = [exc EXCEPT ![d] = Ensured("auto", req[w].seen, @)]

OutGiven(w, d) ==
    /\ At(w, "resolve")
    /\ d = req[w].date
    /\ outs'[d].kind = "ADMIN"
    /\ ins[d].time < outs'[d].time

OutEffect(d) ==
    \/ outs'[d] = outs[d]
    \/ \E w \in Workers : OutInserted(w, d) \/ OutClosed(w, d) \/ OutGiven(w, d)

LEMMA InsertOutEffect ==
    ASSUME TypeOK, NEW w \in Workers, InsertOut(w), NEW d \in Dates
    PROVE  outs'[d] \in Log /\ (outs'[d] = outs[d] \/ OutInserted(w, d))
<1>1. req[w].date \in Dates
  BY DEF InsertOut, At, TypeOK, Steps
<1>2. PICK b \in BOOLEAN :
        outs' = [outs EXCEPT ![req[w].date] =
                   [kind |-> "REAL", time |-> req[w].at,
                    suspect |-> b, rule |-> ins[req[w].date].rule]]
  BY DEF InsertOut, Suspect
<1>3. req[w].at \in Nat /\ ins[req[w].date].rule \in Rule
  BY <1>1 DEF TypeOK, Request, Log
<1> DEFINE log == [kind |-> "REAL", time |-> req[w].at,
                   suspect |-> b, rule |-> ins[req[w].date].rule]
<1>4. log \in Log
  BY <1>3 DEF Log, Kinds
<1>5. CASE d # req[w].date
  BY <1>2, <1>5 DEF TypeOK
<1>6. CASE d = req[w].date
  <2>1. outs'[d] = log
    BY <1>2, <1>6 DEF TypeOK
  <2> QED BY <1>4, <1>6, <2>1 DEF OutInserted, InsertOut
<1> QED BY <1>5, <1>6

LEMMA AutoCloseEffect ==
    ASSUME TypeOK, NEW w \in Workers, AutoClose(w), NEW d \in Dates
    PROVE  outs'[d] \in Log /\ (outs'[d] = outs[d] \/ OutClosed(w, d))
<1>1. req[w].date \in Dates
  BY DEF AutoClose, At, TypeOK, Steps
<1> DEFINE log == [kind |-> "AUTO", time |-> Cutoff(req[w].date),
                   suspect |-> ins[req[w].date].suspect,
                   rule |-> ins[req[w].date].rule]
<1>2. outs' = [outs EXCEPT ![req[w].date] = log]
  BY DEF AutoClose
<1>3. ins[req[w].date] \in Log /\ Cutoff(req[w].date) \in Nat
  BY <1>1, CutoffType DEF TypeOK
<1>4. log \in Log
  BY <1>3 DEF Log, Kinds
<1>5. CASE d # req[w].date
  BY <1>2, <1>5 DEF TypeOK
<1>6. CASE d = req[w].date
  <2>1. outs'[d] = log
    BY <1>2, <1>6 DEF TypeOK
  <2>2. outs'[d].kind = "AUTO" /\ outs'[d].time = Cutoff(d)
    BY <1>6, <2>1
  <2> QED BY <1>4, <1>6, <2>1, <2>2 DEF OutClosed, AutoClose, Ensure
<1> QED BY <1>5, <1>6

LEMMA ApproveEffect ==
    ASSUME TypeOK, RequestsSound, NEW w \in Workers, Approve(w), NEW d \in Dates
    PROVE  outs'[d] \in Log /\ (outs'[d] = outs[d] \/ OutGiven(w, d))
<1>1. req[w].date \in Dates /\ At(w, "resolve")
  BY DEF Approve, At, TypeOK, Steps
<1>2. PICK t \in AdminTimes :
        /\ (IF req[w].source = "IN" THEN ins[req[w].date].time
                                    ELSE req[w].out.time) < t
        /\ outs' = [outs EXCEPT ![req[w].date] =
                      IF req[w].out = NoLog
                      THEN [kind |-> "ADMIN", time |-> t,
                            suspect |-> ins[req[w].date].suspect,
                            rule |-> ins[req[w].date].rule]
                      ELSE [outs[req[w].date] EXCEPT !.kind = "ADMIN", !.time = t]]
  BY DEF Approve
<1>3. /\ t \in Nat /\ ins[req[w].date] \in Log /\ outs[req[w].date] \in Log
      /\ ins[req[w].date].time \in Nat /\ req[w].out.time \in Nat
      /\ req[w].source \in {"IN", "OUT"}
  BY <1>1, TimeAssumption DEF TypeOK, Log, Request
<1>6. ins[req[w].date].time < t
  <2>1. req[w].source = "OUT" => ins[req[w].date].time <= req[w].out.time
    BY <1>1 DEF RequestsSound, Sound, At
  <2>2. CASE req[w].source = "IN"
    BY <1>2, <2>2
  <2>3. CASE req[w].source = "OUT"
    <3>1. req[w].out.time < t
      BY <1>2, <2>3
    <3> QED BY <1>3, <2>1, <2>3, <3>1
  <2> QED BY <1>3, <2>2, <2>3
<1>4. CASE d # req[w].date
  BY <1>2, <1>4 DEF TypeOK
<1>5. CASE d = req[w].date
  <2>1. outs'[d] \in {[kind |-> "ADMIN", time |-> t,
                       suspect |-> ins[d].suspect, rule |-> ins[d].rule],
                      [outs[d] EXCEPT !.kind = "ADMIN", !.time = t]}
    BY <1>2, <1>5 DEF TypeOK
  <2>2. outs'[d] \in Log /\ outs'[d].kind = "ADMIN" /\ outs'[d].time = t
    <3>1. CASE outs'[d] = [kind |-> "ADMIN", time |-> t,
                           suspect |-> ins[d].suspect, rule |-> ins[d].rule]
      <4>1. ins[d].suspect \in BOOLEAN /\ ins[d].rule \in Rule
        BY <1>3, <1>5 DEF Log
      <4> QED BY <1>3, <3>1, <4>1 DEF Log, Kinds
    <3>2. CASE outs'[d] = [outs[d] EXCEPT !.kind = "ADMIN", !.time = t]
      <4>1. outs[d] \in Log
        BY <1>3, <1>5
      <4> QED BY <1>3, <3>2, <4>1 DEF Log, Kinds
    <3> QED BY <2>1, <3>1, <3>2
  <2> QED BY <1>1, <1>5, <1>6, <2>2 DEF OutGiven
<1> QED BY <1>4, <1>5

LEMMA OutStep ==
    ASSUME TypeOK, RequestsSound, [Next]_vars, NEW d \in Dates
    PROVE  outs'[d] \in Log /\ OutEffect(d)
<1>1. CASE outs' = outs
  BY <1>1 DEF OutEffect, TypeOK
<1> QED BY <1>1, OutsWritten, InsertOutEffect, AutoCloseEffect, ApproveEffect
        DEF OutEffect

\* An exception is there once it has been ensured; its type is that of a
\* check, or of flag-no-camera, or what the system caller says.
ExcEnsured(w, d) ==
    /\ At(w, "close") \/ At(w, "missed") \/ At(w, "write")
    /\ Moves(w)
    /\ d = req[w].date
    /\ req[w].seen = NoException => exc[d] = NoException
    /\ \E check \in Checks :
         /\ At(w, "close") => check = "auto"
         /\ At(w, "missed") => check = "missed"
         /\ At(w, "write") => check = Head(req[w].todo)
         /\ exc'[d] = Ensured(check, req[w].seen, exc[d])

ExcSettled(d) ==
    /\ exc[d] # NoException
    /\ exc'[d].type = exc[d].type

ExcFlagged(d) ==
    /\ ins[d] # NoLog
    /\ exc[d] = NoException
    /\ exc'[d].type \in Types

ExcEffect(d) ==
    \/ exc'[d] = exc[d]
    \/ \E w \in Workers : ExcEnsured(w, d)
    \/ ExcSettled(d)
    \/ ExcFlagged(d)

LEMMA EnsureEffect ==
    ASSUME TypeOK, RequestsSound, SessionsSound,
           NEW w \in Workers, NEW check \in Checks, Ensure(w, check),
           At(w, "close") \/ At(w, "missed") \/ At(w, "write"), Moves(w),
           At(w, "close") => check = "auto",
           At(w, "missed") => check = "missed",
           At(w, "write") => check = Head(req[w].todo),
           NEW d \in Dates
    PROVE  exc'[d] \in Exception /\ (exc'[d] = exc[d] \/ ExcEnsured(w, d))
<1>1. req[w].date \in Dates /\ exc \in [Dates -> Exception]
  BY DEF At, TypeOK, Steps
<1>2. CASE d # req[w].date
  BY <1>1, <1>2 DEF Ensure
<1>3. CASE d = req[w].date
  <2>1. exc'[d] = Ensured(check, req[w].seen, exc[d])
    BY <1>1, <1>3 DEF Ensure
  <2>2. /\ req[w].seen # NoException => exc[d] # NoException
        /\ exc[d] # NoException => exc[d].type # "NONE"
    BY <1>1, <1>3 DEF RequestsSound, Sound, SessionsSound, At
  <2>3. exc'[d] \in Exception
    BY <1>1, <2>1, <2>2, EnsuredType
  <2>4. req[w].seen = NoException => exc[d] = NoException
    BY <1>3 DEF Ensure, Taken
  <2> QED BY <1>3, <2>1, <2>3, <2>4 DEF ExcEnsured
<1> QED BY <1>2, <1>3

LEMMA ApproveSettles ==
    ASSUME TypeOK, RequestsSound, SessionsSound, NEW w \in Workers,
           Approve(w), NEW d \in Dates
    PROVE  exc'[d] \in Exception /\ (exc'[d] = exc[d] \/ ExcSettled(d))
<1>1. exc[d] \in Exception
  BY DEF TypeOK
<1>2. CASE exc' = exc
  BY <1>1, <1>2
<1>3. CASE exc' # exc
  <2>1. req[w].source = "IN" /\ exc' = [exc EXCEPT ![req[w].date].closed = TRUE]
    BY <1>3 DEF Approve
  <2>2. CASE d # req[w].date
    BY <1>1, <2>1, <2>2 DEF TypeOK
  <2>3. CASE d = req[w].date
    <3>1. exc'[d] = [exc[d] EXCEPT !.closed = TRUE]
      BY <1>1, <2>1, <2>3 DEF TypeOK
    <3>2. exc'[d] \in Exception /\ exc'[d].type = exc[d].type
      BY <1>1, <3>1 DEF Exception
    <3>3. Sound(req[w])
      BY DEF RequestsSound
    <3>4. exc[d] # NoException
      BY <2>1, <2>3, <3>3 DEF Approve, At, Sound
    <3> QED BY <3>2, <3>4 DEF ExcSettled
  <2> QED BY <2>2, <2>3
<1> QED BY <1>2, <1>3

LEMMA RaiseEffect ==
    ASSUME TypeOK, NEW e \in Dates, NEW type \in Types, Raise(e, type),
           NEW d \in Dates
    PROVE  /\ exc'[d] \in Exception
           /\ exc'[d] = exc[d] \/ ExcFlagged(d)
<1>1. exc[d] \in Exception /\ exc \in [Dates -> Exception]
  BY DEF TypeOK
<1>2. CASE exc' = exc
  BY <1>1, <1>2
<1>3. CASE exc' # exc
  <2>1. /\ ins[e] # NoLog /\ exc[e] = NoException
        /\ exc' = [exc EXCEPT ![e].type = type]
    BY <1>3 DEF Raise
  <2>2. CASE d # e
    BY <1>1, <2>1, <2>2
  <2>3. CASE d = e
    <3>1. exc'[d] = [exc[d] EXCEPT !.type = type]
      BY <1>1, <2>1, <2>3
    <3>2. exc'[d] \in Exception /\ exc'[d].type = type
      BY <1>1, <3>1 DEF Exception
    <3> QED BY <2>1, <2>3, <3>2 DEF ExcFlagged
  <2> QED BY <2>2, <2>3
<1> QED BY <1>2, <1>3

LEMMA Raised ==
    ASSUME NEW e, FlagFace(e) \/ CreateSystem(e)
    PROVE  \E type \in Types : Raise(e, type)
BY SystemAssumption DEF FlagFace, CreateSystem, Types

LEMMA SettleEffect ==
    ASSUME TypeOK, NEW e \in Dates, Settle(e), NEW d \in Dates
    PROVE  /\ exc'[d] \in Exception
           /\ exc'[d] = exc[d] \/ ExcSettled(d)
<1>1. exc[d] \in Exception /\ exc \in [Dates -> Exception]
  BY DEF TypeOK
<1>2. CASE exc' = exc
  BY <1>1, <1>2
<1>3. CASE exc' # exc
  <2>1. exc[e] # NoException /\ exc' = [exc EXCEPT ![e].closed = ~exc[e].closed]
    BY <1>1, <1>3 DEF Settle
  <2>2. CASE d # e
    BY <1>1, <2>1, <2>2
  <2>3. CASE d = e
    <3>1. exc'[d] = [exc[d] EXCEPT !.closed = ~exc[d].closed]
      BY <1>1, <2>1, <2>3
    <3>2. exc'[d] \in Exception /\ exc'[d].type = exc[d].type
      BY <1>1, <3>1 DEF Exception
    <3> QED BY <2>1, <2>3, <3>2 DEF ExcSettled
  <2> QED BY <2>2, <2>3
<1> QED BY <1>2, <1>3

LEMMA ReviewEffect ==
    ASSUME TypeOK, NEW e \in Reviewed,
           FlagFace(e) \/ CreateSystem(e) \/ Settle(e), NEW d \in Dates
    PROVE  /\ exc'[d] \in Exception
           /\ exc'[d] = exc[d] \/ ExcSettled(d) \/ ExcFlagged(d)
<1>1. e \in Dates
  BY TimeAssumption DEF Dates
<1> QED BY <1>1, Raised, RaiseEffect, SettleEffect

\* The exception about an OUT log: there is one.
LEMMA OutExcStep ==
    ASSUME TypeOK, RequestsSound, SessionsSound, [Next]_vars, NEW d \in Dates
    PROVE  /\ outExc'[d] \in Exception
           /\ outExc'[d] # NoException => outs'[d] # NoLog
<1>1. outExc[d] \in Exception /\ outExc \in [Dates -> Exception]
  BY DEF TypeOK
<1>2. outs[d] # NoLog => outs'[d] # NoLog
  <2>1. OutEffect(d)
    BY OutStep
  <2> QED BY <2>1, NoLogType DEF OutEffect, OutInserted, OutClosed, OutGiven
<1>3. CASE outExc'[d] = outExc[d]
  BY <1>1, <1>2, <1>3 DEF SessionsSound
<1>4. ASSUME NEW w \in Workers, Approve(w), outExc'[d] # outExc[d]
      PROVE  /\ outExc'[d] \in Exception
             /\ outs'[d] # NoLog
  <2>1. /\ outExc' = [outExc EXCEPT ![req[w].date].closed = TRUE]
        /\ At(w, "resolve") /\ req[w].source # "IN"
    BY <1>4 DEF Approve
  <2>2. d = req[w].date /\ outExc'[d] = [outExc[d] EXCEPT !.closed = TRUE]
    BY <1>1, <1>4, <2>1
  <2>3. req[w].source = "OUT"
    BY <2>1 DEF TypeOK, Request
  <2>4. req[w].out # NoLog
    BY <2>1, <2>3 DEF RequestsSound, Sound, At
  <2>5. PICK t \in AdminTimes :
          outs' = [outs EXCEPT ![d] = [outs[d] EXCEPT !.kind = "ADMIN", !.time = t]]
    BY <1>4, <2>2, <2>4 DEF Approve
  <2>6. outs'[d].kind = "ADMIN"
    BY <2>5 DEF TypeOK, Log
  <2>7. outExc'[d] \in Exception
    BY <1>1, <2>2 DEF Exception
  <2> QED BY <2>6, <2>7, NoLogType
<1>5. ASSUME NEW e \in Reviewed, FlagFace(e) \/ CreateSystem(e) \/ Settle(e),
             outExc'[d] # outExc[d]
      PROVE  /\ outExc'[d] \in Exception
             /\ outs'[d] # NoLog
  <2>1. ASSUME NEW type \in Types, Raise(e, type)
        PROVE  /\ outExc'[d] \in Exception
               /\ outs'[d] # NoLog
    <3>1. outs[e] # NoLog /\ outExc' = [outExc EXCEPT ![e].type = type] /\ outs' = outs
      BY <1>5, <2>1 DEF Raise
    <3>2. d = e /\ outExc'[d] = [outExc[d] EXCEPT !.type = type]
      BY <1>1, <1>5, <3>1
    <3> QED BY <1>1, <3>1, <3>2 DEF Exception
  <2>2. ASSUME Settle(e)
        PROVE  /\ outExc'[d] \in Exception
               /\ outs'[d] # NoLog
    <3>1. /\ outExc[e] # NoException /\ outs' = outs
          /\ outExc' = [outExc EXCEPT ![e].closed = ~outExc[e].closed]
      BY <1>1, <1>5, <2>2 DEF Settle
    <3>2. d = e /\ outExc'[d] = [outExc[d] EXCEPT !.closed = ~outExc[d].closed]
      BY <1>1, <1>5, <3>1
    <3>3. outs'[d] # NoLog
      BY <3>1, <3>2 DEF SessionsSound
    <3> QED BY <1>1, <3>2, <3>3 DEF Exception
  <2> QED BY <1>5, <2>1, <2>2, Raised
<1> QED BY <1>3, <1>4, <1>5, OutExcWritten

\* A request that writes an exception goes on, or ends.
LEMMA EnsurerMoves ==
    ASSUME TypeOK, RequestsSound, NEW w \in Workers,
           AutoClose(w) \/ ReportMissed(w) \/ WriteException(w)
    PROVE  Moves(w)
<1>1. /\ req[w].date \in Dates /\ req[w].step \in {"close", "missed", "write"}
      /\ "check" \in Steps /\ Idle.step = "done"
  BY IdleType DEF AutoClose, ReportMissed, WriteException, At, TypeOK, Steps
<1>2. CASE Done(w)
  BY <1>1, <1>2, DoneEffect DEF Moves
<1>3. CASE GoTo(w, "check", req[w].date)
  <2>1. req'[w].step = "check"
    BY <1>1, <1>3, GoToEffect
  <2> QED BY <1>1, <2>1 DEF Moves
<1>4. CASE WriteException(w)
  <2>1. Sound(req[w]) /\ req[w] \in Request /\ req[w].step = "write"
    BY <1>4 DEF RequestsSound, TypeOK, WriteException, At
  <2>2. Tail(req[w].todo) \in Todos
    BY <2>1, TodoType DEF Sound, Request
  <2>3. req'[w] = Idle \/ req'[w].step = "read"
    BY <1>1, <1>4, <2>2, FlagEffect DEF WriteException
  <2> QED BY <1>1, <2>1, <2>3 DEF Moves
<1> QED BY <1>2, <1>3, <1>4 DEF AutoClose, ReportMissed

LEMMA ExcStep ==
    ASSUME TypeOK, RequestsSound, SessionsSound, [Next]_vars, NEW d \in Dates
    PROVE  exc'[d] \in Exception /\ ExcEffect(d)
<1>1. CASE exc' = exc
  BY <1>1 DEF ExcEffect, TypeOK
<1>2. ASSUME NEW w \in Workers, AutoClose(w) \/ ReportMissed(w) \/ WriteException(w)
      PROVE  exc'[d] \in Exception /\ (exc'[d] = exc[d] \/ ExcEnsured(w, d))
  <2>4. Moves(w)
    BY <1>2, EnsurerMoves
  <2>1. CASE AutoClose(w)
    BY <2>1, <2>4, EnsureEffect DEF AutoClose, At, Checks
  <2>2. CASE ReportMissed(w)
    BY <2>2, <2>4, EnsureEffect DEF ReportMissed, At, Checks
  <2>3. CASE WriteException(w)
    <3>1. Sound(req[w]) /\ req[w] \in Request /\ req[w].step = "write"
      BY <2>3 DEF RequestsSound, TypeOK, WriteException, At
    <3>2. Head(req[w].todo) \in Checks
      BY <3>1, TodoType DEF Sound, Request
    <3> QED BY <2>3, <2>4, <3>1, <3>2, EnsureEffect DEF WriteException, At
  <2> QED BY <1>2, <2>1, <2>2, <2>3
<1> QED BY <1>1, <1>2, ExcWritten, ApproveSettles, ReviewEffect DEF ExcEffect

\* Rows are never deleted, and a check-in never changes.
Kept(d) ==
    /\ ins[d] # NoLog => ins'[d] = ins[d]
    /\ outs[d] # NoLog => outs'[d] # NoLog
    /\ exc[d] # NoException => exc'[d] # NoException /\ exc'[d].type # "NONE"

LEMMA InsKept ==
    ASSUME TypeOK, RequestsSound, [Next]_vars, NEW d \in Dates, ins[d] # NoLog
    PROVE  ins'[d] = ins[d]
BY InsWritten, InsertInEffect

LEMMA RowsKept ==
    ASSUME TypeOK, RequestsSound, SessionsSound, [Next]_vars, NEW d \in Dates
    PROVE  Kept(d)
<1>1. ins[d] # NoLog => ins'[d] = ins[d]
  BY InsKept
<1>2. outs[d] # NoLog => outs'[d] # NoLog
  <2>1. OutEffect(d)
    BY OutStep
  <2> QED BY <2>1, NoLogType DEF OutEffect, OutInserted, OutClosed, OutGiven
<1>3. exc[d] # NoException => exc'[d] # NoException /\ exc'[d].type # "NONE"
  <2>1. ExcEffect(d) /\ exc[d] \in Exception
    BY ExcStep DEF TypeOK
  <2>2. exc[d] # NoException => exc[d].type # "NONE"
    BY DEF SessionsSound
  <2>3. ASSUME NEW w \in Workers, ExcEnsured(w, d), exc[d] # NoException
        PROVE  exc'[d] # NoException /\ exc'[d].type # "NONE"
    BY <2>1, <2>2, <2>3, EnsuredType DEF ExcEnsured
  <2>4. ExcFlagged(d) => exc[d] = NoException
    BY DEF ExcFlagged
  <2>5. ExcSettled(d) => exc'[d].type = exc[d].type
    BY DEF ExcSettled
  <2> QED BY <2>1, <2>2, <2>3, <2>4, <2>5, NoExceptionType DEF ExcEffect
<1> QED BY <1>1, <1>2, <1>3 DEF Kept

LEMMA ExcSound ==
    ASSUME TypeOK, RequestsSound, SessionsSound, [Next]_vars, NEW d \in Dates,
           exc'[d] # NoException
    PROVE  ins'[d] # NoLog /\ exc'[d].type # "NONE"
<1>1. ExcEffect(d) /\ Kept(d) /\ exc[d] \in Exception
  BY ExcStep, RowsKept DEF TypeOK
<1>2. CASE exc[d] # NoException
  BY <1>1, <1>2 DEF SessionsSound, Kept
<1>3. ASSUME NEW w \in Workers, ExcEnsured(w, d), exc[d] = NoException
      PROVE  ins[d] # NoLog /\ exc'[d].type # "NONE"
  <2>1. Sound(req[w])
    BY DEF RequestsSound
  <2>2. ins[d] # NoLog
    BY <1>3, <2>1 DEF ExcEnsured, Sound, At
  <2>3. req[w].seen = NoException
    BY <1>3, <2>1 DEF ExcEnsured, Sound, At
  <2> QED BY <1>1, <1>3, <2>2, <2>3, EnsuredType DEF ExcEnsured
<1>4. ExcFlagged(d) => ins[d] # NoLog /\ exc'[d].type # "NONE"
  BY DEF ExcFlagged, Types
<1>5. ExcSettled(d) => exc[d] # NoException
  BY DEF ExcSettled
<1> QED BY <1>1, <1>2, <1>3, <1>4, <1>5 DEF ExcEffect, Kept

---------------------------------------------------------------------------
(* Requests stay sound. *)

\* What a request relies on is not undone by anybody's step.
LEMMA SoundStays ==
    ASSUME IInv, [Next]_vars, NEW r \in Request, Sound(r),
           r.step \in Steps \ {"check"} => r.date \in Dates
    PROVE  Sound(r)'
<1> USE DEF IInv
<1>1. now \in Nat /\ now' \in Nat /\ now <= now' /\ r.at \in Nat
  BY ClockStep DEF TypeOK, Request
<1>2. r.date \in Dates => Kept(r.date)
  BY RowsKept
<1>3. r.step \in {"close", "missed", "read", "write", "resolve", "insert"}
        => r.date \in Dates
  BY DEF Steps
<1>4. ASSUME r.step = "close" PROVE Cutoff(r.date)' <= r.at
  <2>1. ins[r.date] # NoLog /\ Cutoff(r.date) <= r.at
    BY <1>4 DEF Sound
  <2>2. ins'[r.date] = ins[r.date]
    BY <1>2, <1>3, <1>4, <2>1 DEF Kept
  <2> QED BY <2>1, <2>2 DEF Cutoff, SnapshotCutoff
<1>5. r.step \in {"close", "missed", "read", "write", "resolve"}
        => ins'[r.date] # NoLog
  BY <1>2, <1>3 DEF Sound, Kept
<1>6. (r.step = "insert" /\ r.op = "checkout") => ins'[r.date] # NoLog
  BY <1>2, <1>3 DEF Sound, Kept
<1>7. (r.date \in Dates /\ r.seen # NoException /\ r.source = "IN")
        => exc'[r.date] # NoException /\ r.seen.type # "NONE"
  BY <1>2 DEF Sound, Kept
<1>8. (r.step = "resolve" /\ r.source = "OUT")
        => r.out # NoLog /\ ins'[r.date].time <= r.out.time
  BY <1>2, <1>3 DEF Sound, Kept
<1> QED BY <1>1, <1>4, <1>5, <1>6, <1>7, <1>8 DEF Sound

LEMMA IdleSound ==
    ASSUME IInv, [Next]_vars
    PROVE  Sound(Idle)'
<1>1. now' \in Nat
  BY ClockStep DEF IInv
<1> QED BY <1>1, IdleType, NoDateIsNoDate DEF Sound, Employee

\* How a step of thread w leaves the lock and what Locked says of w.
LockEffect(w) ==
    /\ lock' = lock \/ (lock = w /\ lock' = NoOne)
    /\ lock' = w => /\ req'[w].op \in {"checkin", "checkout"}
                    /\ req'[w].step \in Before
                    /\ req'[w].at = req[w].at
    /\ (req'[w].op = "checkout" /\ req'[w].step \in Before) => lock' = w
    /\ req'[w].op = "checkin" => /\ req[w].op = "checkin"
                                 /\ req'[w].at = req[w].at

\* A step of thread w: requests of the others are left alone.
Acts(w) ==
    /\ req' \in [Workers -> Request]
    /\ \A v \in Workers : req'[v].step \in Steps \ {"check"}
                            => req'[v].date \in Dates
    /\ \A v \in Workers \ {w} : req'[v] = req[v]
    /\ Sound(req[w])'
    /\ LockEffect(w)

LEMMA DoneActs ==
    ASSUME IInv, [Next]_vars, NEW w \in Workers, Done(w),
           Unlock(w) \/ (UNCHANGED lock /\ req[w].step \notin Before)
    PROVE  Acts(w)
<1>1. /\ req' \in [Workers -> Request]
      /\ \A v \in Workers : req'[v].step \in Steps \ {"check"}
                              => req'[v].date \in Dates
      /\ req'[w] = Idle
      /\ \A v \in Workers \ {w} : req'[v] = req[v]
  BY DoneEffect DEF IInv
<1>2. Sound(req[w])'
  BY <1>1, IdleSound DEF Sound, Cutoff, SnapshotCutoff
<1>3. lock' = lock \/ (lock = w /\ lock' = NoOne)
  BY DEF Unlock
<1>4. lock' # w
  BY WorkersAssumption DEF Unlock, IInv, Locked
<1> QED BY <1>1, <1>2, <1>3, <1>4, IdleType DEF Acts, LockEffect

LEMMA AutoCloseActs ==
    ASSUME IInv, [Next]_vars, NEW w \in Workers, AutoClose(w)
    PROVE  Acts(w)
<1>1. CASE req[w].op # "checkin"
  BY <1>1, DoneActs DEF AutoClose
<1>2. CASE req[w].op = "checkin"
  <2> USE DEF IInv
  <2>1. req[w].date \in Dates /\ req[w].step = "close" /\ Sound(req[w])
    BY DEF AutoClose, At, TypeOK, Steps, RequestsSound
  <2>2. GoTo(w, "check", req[w].date)
    BY <1>2 DEF AutoClose
  <2>3. /\ req' \in [Workers -> Request]
        /\ \A v \in Workers : req'[v].step \in Steps \ {"check"}
                                => req'[v].date \in Dates
        /\ \A v \in Workers \ {w} : req'[v] = req[v]
        /\ req'[w].step = "check" /\ req'[w].date = req[w].date
        /\ req'[w].seen = exc[req[w].date]
        /\ req'[w].op = req[w].op /\ req'[w].at = req[w].at
        /\ req'[w].rule = req[w].rule /\ req'[w].source = req[w].source
    <3>1. "check" \in Steps /\ TypeOK
      BY DEF Steps
    <3> HIDE DEF IInv
    <3> QED BY <2>1, <2>2, <3>1, GoToEffect
  <2>4. now \in Nat /\ now' \in Nat /\ now <= now' /\ req[w].at \in Nat
    BY ClockStep DEF TypeOK, Request
  <2>5. /\ Kept(req[w].date)
        /\ exc[req[w].date] # NoException => exc[req[w].date].type # "NONE"
    BY <2>1, RowsKept DEF SessionsSound
  <2>6. Sound(req[w])'
    BY <1>2, <2>1, <2>3, <2>4, <2>5 DEF Sound, Employee, Kept
  <2>7. LockEffect(w)
    BY <1>2, <2>3, WorkersAssumption DEF AutoClose, Unlock, LockEffect
  <2> QED BY <2>3, <2>6, <2>7 DEF Acts
<1> QED BY <1>1, <1>2

LEMMA CheckActs ==
    ASSUME IInv, [Next]_vars, NEW w \in Workers, Check(w)
    PROVE  Acts(w)
<1> DEFINE d == compute_work_date(req[w].at, req[w].rule.cutoff)
<1> USE DEF IInv
<1>1. /\ req[w].step = "check" /\ Sound(req[w]) /\ req[w] \in Request
      /\ req[w].op \in Employee /\ req[w].rule \in Rules
      /\ DayLength - 1 <= req[w].at /\ req[w].at <= now
  BY DEF Check, At, TypeOK, RequestsSound, Sound
<1>2. now \in Nat /\ now' \in Nat /\ now <= now' /\ req[w].at \in Nat
  BY <1>1, ClockStep DEF TypeOK, Request
<1>3. d \in Dates
  <2>1. MaxTime \in Nat /\ now < MaxTime
    BY TimeAssumption DEF MaxTime, ClockInv
  <2> QED BY <1>1, <1>2, <2>1, WorkDate
<1> HIDE DEF d
<1>4. ASSUME NEW step \in {"missed", "insert"}, NEW e \in Dates,
             GoTo(w, step, e), UNCHANGED lock,
             step = "missed" => req[w].op # "checkout",
             step = "insert" => req[w].op # "status",
             (step = "missed" \/ req[w].op = "checkout") => ins[e] # NoLog,
             (step = "insert" /\ req[w].op = "checkin") => e = d
      PROVE  Acts(w)
  <2>1. /\ req' \in [Workers -> Request]
        /\ \A v \in Workers : req'[v].step \in Steps \ {"check"}
                                => req'[v].date \in Dates
        /\ \A v \in Workers \ {w} : req'[v] = req[v]
        /\ req'[w].step = step /\ req'[w].date = e /\ req'[w].seen = exc[e]
        /\ req'[w].op = req[w].op /\ req'[w].at = req[w].at
        /\ req'[w].rule = req[w].rule /\ req'[w].source = req[w].source
    BY <1>4, GoToEffect DEF Steps
  <2>2. /\ Kept(e)
        /\ exc[e] # NoException => exc[e].type # "NONE"
    BY RowsKept DEF SessionsSound
  <2>3. Sound(req[w])'
    BY <1>1, <1>2, <1>4, <2>1, <2>2 DEF Sound, Employee, Kept, d
  <2>4. LockEffect(w)
    BY <1>1, <1>4, <2>1 DEF LockEffect, Locked, Before
  <2> QED BY <2>1, <2>3, <2>4 DEF Acts
<1>5. \A e \in Latest : e \in Dates /\ ins[e] # NoLog
  BY DEF Latest, OpenDates
<1>6. CASE Done(w) /\ Unlock(w)
  BY <1>6, DoneActs
<1>7. CASE \E e \in Latest : /\ req[w].op # "checkout"
                             /\ GoTo(w, "missed", e) /\ UNCHANGED lock
  BY <1>4, <1>5, <1>7
<1>8. CASE req[w].op = "checkin" /\ GoTo(w, "insert", d) /\ UNCHANGED lock
  BY <1>3, <1>4, <1>8
<1>9. CASE \E e \in Latest : /\ req[w].op = "checkout"
                             /\ GoTo(w, "insert", e) /\ UNCHANGED lock
  BY <1>4, <1>5, <1>9
<1> QED BY <1>6, <1>7, <1>8, <1>9 DEF Check, d

LEMMA InsertActs ==
    ASSUME IInv, [Next]_vars, NEW w \in Workers, InsertIn(w) \/ InsertOut(w)
    PROVE  Acts(w)
<1> USE DEF IInv
<1>1. /\ req[w].date \in Dates /\ req[w].step = "insert" /\ Sound(req[w])
      /\ req[w] \in Request /\ Unlock(w)
  BY DEF InsertIn, InsertOut, At, TypeOK, Steps, RequestsSound
<1>2. PICK todo \in Todos : Flag(w, todo)
  BY OutcomesAssumption DEF InsertIn, InsertOut
<1>3. /\ req' \in [Workers -> Request]
      /\ \A v \in Workers : req'[v].step \in Steps \ {"check"}
                              => req'[v].date \in Dates
      /\ \A v \in Workers \ {w} : req'[v] = req[v]
      /\ \/ req'[w] = Idle
         \/ /\ req'[w].step = "read"
            /\ req'[w].todo = todo /\ todo # <<>>
            /\ req'[w].op = req[w].op /\ req'[w].at = req[w].at
            /\ req'[w].rule = req[w].rule /\ req'[w].date = req[w].date
            /\ req'[w].seen = req[w].seen
            /\ req'[w].source = req[w].source
  <2>1. TypeOK
    OBVIOUS
  <2> HIDE DEF IInv
  <2> QED BY <1>1, <1>2, <2>1, FlagEffect
<1>4. CASE req'[w] = Idle
  <2>1. Sound(req[w])'
    BY <1>4, IdleSound DEF Sound, Cutoff, SnapshotCutoff
  <2>2. LockEffect(w)
    BY <1>1, <1>4, IdleType, WorkersAssumption DEF Unlock, LockEffect
  <2> QED BY <1>3, <2>1, <2>2 DEF Acts
<1>5. CASE req'[w].step = "read"
  <2>1. now \in Nat /\ now' \in Nat /\ now <= now' /\ req[w].at \in Nat
    BY <1>1, ClockStep DEF TypeOK, Request
  <2>2. Kept(req[w].date)
    BY <1>1, RowsKept
  <2>3. ins'[req[w].date] # NoLog
    <3>1. CASE InsertIn(w)
      BY <3>1, InsertInEffect
    <3>2. CASE InsertOut(w)
      BY <1>1, <2>2, <3>2 DEF InsertOut, Sound, Kept
    <3> QED BY <3>1, <3>2
  <2>4. req'[w] # Idle
    BY <1>5, IdleType
  <2>5. /\ req[w].at <= now
        /\ req[w].op \in Employee => req[w].rule \in Rules /\ DayLength - 1 <= req[w].at
        /\ req[w].source = "IN"
        /\ req[w].seen # NoException
             => exc[req[w].date] # NoException /\ req[w].seen.type # "NONE"
    BY <1>1 DEF Sound
  <2>6. Sound(req[w])'
    BY <1>1, <1>3, <1>5, <2>1, <2>2, <2>3, <2>4, <2>5 DEF Sound, Kept
  <2>7. LockEffect(w)
    BY <1>1, <1>3, <1>5, <2>4, WorkersAssumption DEF Unlock, LockEffect, Before
  <2> QED BY <1>3, <2>6, <2>7 DEF Acts
<1> QED BY <1>3, <1>4, <1>5

LEMMA ReadActs ==
    ASSUME IInv, [Next]_vars, NEW w \in Workers, ReadException(w)
    PROVE  Acts(w)
<1>1. /\ req[w].date \in Dates /\ req[w].step = "read" /\ Sound(req[w])
      /\ req[w] \in Request /\ TypeOK /\ SessionsSound
      /\ GoTo(w, "write", req[w].date) /\ UNCHANGED lock
      /\ "write" \in Steps
  BY DEF ReadException, At, IInv, TypeOK, Steps, RequestsSound
<1>2. /\ req' \in [Workers -> Request]
      /\ \A v \in Workers : req'[v].step \in Steps \ {"check"}
                              => req'[v].date \in Dates
      /\ \A v \in Workers \ {w} : req'[v] = req[v]
      /\ req'[w].step = "write" /\ req'[w].date = req[w].date
      /\ req'[w].seen = exc[req[w].date]
      /\ req'[w].op = req[w].op /\ req'[w].at = req[w].at
      /\ req'[w].rule = req[w].rule /\ req'[w].todo = req[w].todo
      /\ req'[w].source = req[w].source
  <2>1. PICK d \in Dates, step \in Steps : d = req[w].date /\ step = "write"
    BY <1>1
  <2>2. /\ req' \in [Workers -> Request]
        /\ \A v \in Workers : req'[v].step \in Steps \ {"check"}
                                => req'[v].date \in Dates
        /\ \A v \in Workers \ {w} : req'[v] = req[v]
        /\ req'[w].step = step /\ req'[w].date = d
        /\ req'[w].seen = exc[d]
        /\ req'[w].op = req[w].op /\ req'[w].at = req[w].at
        /\ req'[w].rule = req[w].rule /\ req'[w].todo = req[w].todo
        /\ req'[w].source = req[w].source
    <3>1. GoTo(w, step, d) /\ TypeOK
      BY <1>1, <2>1
    <3> HIDE <2>1
    <3> QED BY <3>1, GoToEffect
  <2> QED BY <2>1, <2>2
<1>3. now \in Nat /\ now' \in Nat /\ now <= now' /\ req[w].at \in Nat
  BY <1>1, ClockStep DEF IInv, Request, TypeOK
<1>4. /\ Kept(req[w].date)
      /\ exc[req[w].date] # NoException => exc[req[w].date].type # "NONE"
  BY <1>1, RowsKept DEF IInv, SessionsSound
<1>5. Sound(req[w])'
  BY <1>1, <1>2, <1>3, <1>4 DEF Sound, Kept
<1>6. lock # w
  BY <1>1 DEF IInv, Locked, Before
<1>7. LockEffect(w)
  BY <1>1, <1>2, <1>6 DEF LockEffect, Before
<1> QED BY <1>2, <1>5, <1>7 DEF Acts

LEMMA WriteActs ==
    ASSUME IInv, [Next]_vars, NEW w \in Workers, WriteException(w)
    PROVE  Acts(w)
<1>1. /\ req[w].date \in Dates /\ req[w].step = "write" /\ Sound(req[w])
      /\ req[w] \in Request /\ TypeOK
      /\ Flag(w, Tail(req[w].todo)) /\ UNCHANGED lock
  BY DEF WriteException, At, IInv, TypeOK, Steps, RequestsSound
<1>2. Tail(req[w].todo) \in Todos
  BY <1>1, TodoType DEF Sound, Request
<1> DEFINE todo == Tail(req[w].todo)
<1> HIDE DEF todo
<1>3. /\ req' \in [Workers -> Request]
      /\ \A v \in Workers : req'[v].step \in Steps \ {"check"}
                              => req'[v].date \in Dates
      /\ \A v \in Workers \ {w} : req'[v] = req[v]
      /\ \/ req'[w] = Idle
         \/ /\ req'[w].step = "read"
            /\ req'[w].todo = todo /\ todo # <<>>
            /\ req'[w].op = req[w].op /\ req'[w].at = req[w].at
            /\ req'[w].rule = req[w].rule /\ req'[w].date = req[w].date
            /\ req'[w].seen = req[w].seen
            /\ req'[w].source = req[w].source
  <2>1. todo \in Todos /\ Flag(w, todo)
    BY <1>1, <1>2 DEF todo
  <2> QED BY <1>1, <2>1, FlagEffect
<1>4. lock # w
  BY <1>1 DEF IInv, Locked, Before
<1>5. CASE req'[w] = Idle
  <2>1. Sound(req[w])'
    BY <1>5, IdleSound DEF Sound, Cutoff, SnapshotCutoff
  <2>2. LockEffect(w)
    BY <1>1, <1>4, <1>5, IdleType DEF LockEffect
  <2> QED BY <1>3, <2>1, <2>2 DEF Acts
<1>6. CASE req'[w] # Idle
  <2>1. now \in Nat /\ now' \in Nat /\ now <= now' /\ req[w].at \in Nat
    BY <1>1, ClockStep DEF IInv, Request, TypeOK
  <2>2. Kept(req[w].date)
    BY <1>1, RowsKept DEF IInv
  <2>3. Sound(req[w])'
    BY <1>1, <1>3, <1>6, <2>1, <2>2 DEF Sound, Kept
  <2>4. LockEffect(w)
    BY <1>1, <1>3, <1>4, <1>6 DEF LockEffect, Before
  <2> QED BY <1>3, <2>3, <2>4 DEF Acts
<1> QED BY <1>5, <1>6

\* Every step of a thread that serves a request already begun.
LEMMA ProceedActs ==
    ASSUME IInv, [Next]_vars, NEW w \in Workers, Proceed(w) \/ Fail(w)
    PROVE  Acts(w)
<1>1. CASE ReportMissed(w) \/ Block(w) \/ Conflict(w) \/ Fail(w)
  BY <1>1, DoneActs DEF ReportMissed, Block, Conflict, Fail
<1>2. CASE Approve(w)
  BY <1>2, DoneActs DEF Approve, At, Before
<1> QED BY <1>1, <1>2, AutoCloseActs, CheckActs, InsertActs, ReadActs, WriteActs
        DEF Proceed

LEMMA BeginApproveActs ==
    ASSUME IInv, [Next]_vars, NEW w \in Workers, NEW d \in Reviewed,
           BeginApprove(w, d)
    PROVE  Acts(w)
<1>1. d \in Dates /\ TypeOK /\ RequestsSound /\ SessionsSound /\ req[w] = Idle
  BY TimeAssumption DEF Dates, IInv, BeginApprove
<1>2. /\ req' \in [Workers -> Request]
      /\ \A v \in Workers : req'[v].step \in Steps \ {"check"}
                              => req'[v].date \in Dates
      /\ \A v \in Workers \ {w} : req'[v] = req[v]
      /\ req'[w].op = "approve" /\ req'[w].at = now
      /\ req'[w].step = "resolve" /\ req'[w].date = d
      /\ req'[w].seen # NoException /\ req'[w].out = outs[d]
      /\ \/ req'[w].source = "IN" /\ req'[w].seen = exc[d]
         \/ req'[w].source = "OUT" /\ req'[w].seen = outExc[d]
  BY <1>1, BeginApproveEffect
<1>3. now \in Nat /\ now' \in Nat /\ now <= now'
  BY <1>1, ClockStep DEF IInv, TypeOK
<1>4. ins[d] # NoLog /\ ins' = ins
  <2>1. ins' = ins
    BY DEF BeginApprove
  <2>2. CASE req'[w].source = "IN"
    BY <1>1, <1>2, <2>1, <2>2 DEF SessionsSound
  <2>3. CASE req'[w].source = "OUT"
    BY <1>1, <1>2, <2>1, <2>3 DEF SessionsSound, IInv, OutAfterIn
  <2> QED BY <1>2, <2>1, <2>2, <2>3
<1>5. req'[w].source = "IN" => exc'[d] # NoException /\ req'[w].seen.type # "NONE"
  <2>1. exc' = exc
    BY DEF BeginApprove
  <2> QED BY <1>1, <1>2, <2>1 DEF SessionsSound
<1>6. req'[w].source = "OUT" => outs[d] # NoLog /\ ins[d].time <= outs[d].time
  BY <1>1, <1>2 DEF SessionsSound, IInv, OutAfterIn
<1>7. Sound(req[w])'
  BY <1>1, <1>2, <1>3, <1>4, <1>5, <1>6 DEF Sound, Employee
<1>8. lock # w /\ lock' = lock
  BY <1>1, IdleType DEF IInv, Locked, Before, BeginApprove
<1>9. LockEffect(w)
  BY <1>2, <1>8 DEF LockEffect
<1> QED BY <1>2, <1>7, <1>9 DEF Acts

\* A request begins: it has taken the lock, or is a status request.
Begins(w) ==
    /\ req' \in [Workers -> Request]
    /\ \A v \in Workers : req'[v].step \in Steps \ {"check"}
                            => req'[v].date \in Dates
    /\ \A v \in Workers \ {w} : req'[v] = req[v]
    /\ Sound(req[w])'
    /\ UNCHANGED <<now, ins, outs, exc>>
    /\ req[w] = Idle
    /\ req'[w].at = now
    /\ req'[w].step \in Before
    /\ \/ lock = NoOne /\ lock' = w /\ req'[w].op \in {"checkin", "checkout"}
       \/ lock' = lock /\ req'[w].op = "status"

LEMMA StartBegins ==
    ASSUME IInv, [Next]_vars, NEW w \in Workers, NEW op \in Employee,
           Start(w, op)
    PROVE  Begins(w)
<1>1. TypeOK /\ SessionsSound /\ ClockInv /\ now \in Nat
  BY DEF IInv, TypeOK
<1>2. /\ req' \in [Workers -> Request]
      /\ \A v \in Workers : req'[v].step \in Steps \ {"check"}
                              => req'[v].date \in Dates
      /\ \A v \in Workers \ {w} : req'[v] = req[v]
      /\ req'[w].op = op /\ req'[w].at = now /\ req'[w].rule = rule
      /\ req'[w].source = "IN"
      /\ \/ /\ req'[w].step = "close" /\ req'[w].date \in Closing
            /\ req'[w].seen = exc[req'[w].date]
         \/ /\ req'[w].step = "check" /\ req'[w].date = NoDate
            /\ req'[w].seen = NoException
  BY <1>1, StartEffect
<1>3. UNCHANGED <<now, ins, outs, exc>> /\ req[w] = Idle
  BY DEF Start
<1>4. rule \in Rules /\ DayLength - 1 <= now /\ NoDate \notin Dates
  BY <1>1, NoDateIsNoDate DEF TypeOK, ClockInv
<1>5. ASSUME req'[w].step = "check" PROVE Sound(req[w])'
  BY <1>2, <1>3, <1>4, <1>5, <1>1 DEF Sound, Employee
<1>6. ASSUME req'[w].step = "close" PROVE Sound(req[w])'
  <2>1. /\ req'[w].date \in Dates /\ ins[req'[w].date] # NoLog
        /\ Cutoff(req'[w].date) <= now
    BY <1>2, <1>6 DEF Closing, Latest, OpenDates
  <2>2. exc[req'[w].date] # NoException => exc[req'[w].date].type # "NONE"
    BY <1>1, <2>1 DEF SessionsSound
  <2> QED BY <1>1, <1>2, <1>3, <1>4, <1>6, <2>1, <2>2
          DEF Sound, Employee, Cutoff, SnapshotCutoff
<1>7. Sound(req[w])' /\ req'[w].step \in Before
  BY <1>2, <1>5, <1>6 DEF Before
<1>8. \/ lock = NoOne /\ lock' = w /\ req'[w].op \in {"checkin", "checkout"}
      \/ lock' = lock /\ req'[w].op = "status"
  BY <1>2 DEF Start, LockEmployee, Employee
<1> QED BY <1>2, <1>3, <1>7, <1>8 DEF Begins

---------------------------------------------------------------------------
(* The invariant is inductive. *)

LEMMA SomebodyActs ==
    ASSUME IInv, [Next]_vars
    PROVE  \/ req' = req /\ lock' = lock
           \/ \E w \in Workers : Acts(w) \/ Begins(w)
BY RequestsWritten, ProceedActs, BeginApproveActs, StartBegins

LEMMA TypeStep ==
    ASSUME IInv, [Next]_vars
    PROVE  TypeOK'
<1> USE DEF IInv
<1>1. now' \in Nat /\ rule' \in Rules
  BY ClockStep, RuleWritten
<1>2. ins' \in [Dates -> Log]
  <2>1. \A d \in Dates : ins'[d] \in Log
    <3>1. CASE ins' = ins
      BY <3>1 DEF TypeOK
    <3> QED BY <3>1, InsWritten, InsertInEffect DEF TypeOK
  <2>2. ins' = ins \/ \E w \in Workers : \E log : ins' = [ins EXCEPT ![req[w].date] = log]
    BY InsWritten DEF InsertIn
  <2> QED BY <2>1, <2>2 DEF TypeOK
<1>3. outs' \in [Dates -> Log]
  <2>1. \A d \in Dates : outs'[d] \in Log
    BY OutStep
  <2>2. outs' = outs \/ \E w \in Workers : \E log : outs' = [outs EXCEPT ![req[w].date] = log]
    BY OutsWritten DEF AutoClose, InsertOut, Approve
  <2> QED BY <2>1, <2>2 DEF TypeOK
<1>4. exc' \in [Dates -> Exception]
  <2>1. \A d \in Dates : exc'[d] \in Exception
    BY ExcStep
  <2>2. exc' = exc \/ \E d, row : exc' = [exc EXCEPT ![d] = row]
    BY ExcWritten
       DEF AutoClose, ReportMissed, WriteException, Approve, Ensure, FlagFace,
           CreateSystem, Raise, Settle
  <2> QED BY <2>1, <2>2 DEF TypeOK
<1>7. outExc' \in [Dates -> Exception]
  <2>1. \A d \in Dates : outExc'[d] \in Exception
    BY OutExcStep
  <2>2. outExc' = outExc \/ \E d, row : outExc' = [outExc EXCEPT ![d] = row]
    BY OutExcWritten DEF Approve, FlagFace, CreateSystem, Raise, Settle
  <2> QED BY <2>1, <2>2 DEF TypeOK
<1>8. /\ overtaken' \subseteq Workers /\ raced' \in BOOLEAN
      /\ settled' \subseteq Dates /\ overwritten' \subseteq Dates
  <2>1. CASE UNCHANGED vars
    BY <2>1 DEF TypeOK, vars, history
  <2>2. CASE Overlap
    BY <2>2 DEF Overlap, Overwrites, TypeOK
  <2> QED BY <2>1, <2>2, HistoryStep
<1>5. lock' \in Workers \cup {NoOne}
  BY SomebodyActs DEF Acts, Begins, LockEffect, TypeOK
<1>6. /\ req' \in [Workers -> Request]
      /\ \A v \in Workers : req'[v].step \in Steps \ {"check"}
                              => req'[v].date \in Dates
  BY SomebodyActs DEF Acts, Begins, TypeOK
<1> QED BY <1>1, <1>2, <1>3, <1>4, <1>5, <1>6, <1>7, <1>8 DEF TypeOK

LEMMA SoundStep ==
    ASSUME IInv, [Next]_vars
    PROVE  RequestsSound'
<1> SUFFICES ASSUME NEW w \in Workers PROVE Sound(req[w])'
  BY DEF RequestsSound
<1>1. CASE req'[w] = req[w]
  <2>1. /\ req[w] \in Request /\ Sound(req[w])
        /\ req[w].step \in Steps \ {"check"} => req[w].date \in Dates
    BY DEF IInv, TypeOK, RequestsSound
  <2> DEFINE r == req[w]
  <2>2. ASSUME NEW q, q = r PROVE Sound(q)'
    BY <2>1, <2>2, SoundStays
  <2> QED BY <1>1, <2>2 DEF Sound, Cutoff, SnapshotCutoff
<1>2. CASE req'[w] # req[w]
  BY <1>2, SomebodyActs DEF Acts, Begins
<1> QED BY <1>1, <1>2

LEMMA SessionsStep ==
    ASSUME IInv, [Next]_vars
    PROVE  SessionsSound'
<1> USE DEF IInv
<1> SUFFICES ASSUME NEW d \in Dates
             PROVE  /\ ins'[d] # NoLog => ins'[d].time < Cutoff(d)'
                    /\ ins'[d].time <= now'
                    /\ exc'[d] # NoException
                         => ins'[d] # NoLog /\ exc'[d].type # "NONE"
                    /\ outExc'[d] # NoException => outs'[d] # NoLog
  BY DEF SessionsSound
<1>1. now \in Nat /\ now' \in Nat /\ now <= now' /\ now < MaxTime /\ MaxTime \in Nat
  BY ClockStep, TimeAssumption DEF TypeOK, ClockInv, MaxTime
<1>2. exc'[d] # NoException => ins'[d] # NoLog /\ exc'[d].type # "NONE"
  BY ExcSound
<1>3. ASSUME ins'[d] = ins[d]
      PROVE  /\ ins'[d] # NoLog => ins'[d].time < Cutoff(d)'
             /\ ins'[d].time <= now'
  <2>1. ins[d].time \in Nat
    BY DEF TypeOK, Log
  <2> QED BY <1>1, <1>3, <2>1 DEF SessionsSound, Cutoff, SnapshotCutoff
<1>4. ASSUME NEW w \in Workers, InsertIn(w), d = req[w].date
      PROVE  /\ ins'[d].time < Cutoff(d)'
             /\ ins'[d].time <= now'
  <2>1. /\ req[w].op = "checkin" /\ req[w].step = "insert"
        /\ ins'[d].time = req[w].at /\ ins'[d].rule = req[w].rule
    BY <1>4, InsertInEffect
  <2>2. Sound(req[w]) /\ req[w].at \in Nat
    BY DEF RequestsSound, TypeOK, Request
  <2>3. /\ req[w].rule \in Rules /\ DayLength - 1 <= req[w].at
        /\ req[w].at <= now
        /\ d = compute_work_date(req[w].at, req[w].rule.cutoff)
    BY <1>4, <2>1, <2>2 DEF Sound, Employee
  <2>4. req[w].at < work_date_cutoff(d, req[w].rule.cutoff)
    BY <1>1, <2>2, <2>3, WorkDate
  <2>5. req[w].at < Cutoff(d)'
    <3>1. req[w].rule.cutoff \in Nat /\ (d + 1) * DayLength \in Nat
      BY <2>3, RuleType, TimeAssumption DEF Dates
    <3>2. Cutoff(d)' = (d + 1) * DayLength
            + (IF req[w].rule.cutoff = 0 THEN DefaultCutoff ELSE req[w].rule.cutoff)
      BY <2>1 DEF Cutoff, SnapshotCutoff, work_date_cutoff
    <3> QED BY <2>2, <2>4, <3>1, <3>2, TimeAssumption DEF work_date_cutoff
  <2> QED BY <1>1, <2>1, <2>2, <2>3, <2>5
<1>5. ins'[d] = ins[d] \/ \E w \in Workers : InsertIn(w) /\ d = req[w].date
  BY InsWritten, InsertInEffect
<1>6. outExc'[d] # NoException => outs'[d] # NoLog
  BY OutExcStep
<1> QED BY <1>2, <1>3, <1>4, <1>5, <1>6

LEMMA LockedStep ==
    ASSUME IInv, [Next]_vars
    PROVE  Locked'
<1> USE DEF IInv
<1> SUFFICES ASSUME NEW w \in Workers
             PROVE  /\ (req'[w].op = "checkout" /\ req'[w].step \in Before)
                         => lock' = w
                    /\ lock' = w =>
                         /\ req'[w].op \in {"checkin", "checkout"}
                         /\ req'[w].step \in Before
                         /\ \A v \in Workers : req'[v].op = "checkin"
                                                 => req'[v].at <= req'[w].at
                         /\ \A d \in Dates : ins'[d].time <= req'[w].at
  BY DEF Locked
<1>1. \A d \in Dates :
        \/ ins'[d] = ins[d]
        \/ \E v \in Workers : /\ req[v].op = "checkin" /\ req[v].at = ins'[d].time
  BY InsWritten, InsertInEffect
<1>2. ASSUME lock = w
      PROVE  \A d \in Dates : ins'[d].time <= req[w].at
  BY <1>1, <1>2 DEF Locked
<1>3. CASE req' = req /\ lock' = lock
  BY <1>2, <1>3 DEF Locked
<1>4. ASSUME NEW v \in Workers, Acts(v)
      PROVE  /\ (req'[w].op = "checkout" /\ req'[w].step \in Before)
                  => lock' = w
             /\ lock' = w =>
                  /\ req'[w].op \in {"checkin", "checkout"}
                  /\ req'[w].step \in Before
                  /\ \A u \in Workers : req'[u].op = "checkin"
                                          => req'[u].at <= req'[w].at
                  /\ \A d \in Dates : ins'[d].time <= req'[w].at
  <2>1. /\ lock' = lock \/ (lock = v /\ lock' = NoOne)
        /\ lock' = v => /\ req'[v].op \in {"checkin", "checkout"}
                        /\ req'[v].step \in Before
                        /\ req'[v].at = req[v].at
        /\ (req'[v].op = "checkout" /\ req'[v].step \in Before) => lock' = v
        /\ req'[v].op = "checkin" => /\ req[v].op = "checkin"
                                     /\ req'[v].at = req[v].at
        /\ \A u \in Workers \ {v} : req'[u] = req[u]
    BY <1>4 DEF Acts, LockEffect
  <2>2. \A u \in Workers : req'[u].op = "checkin" =>
          req[u].op = "checkin" /\ req'[u].at = req[u].at
    BY <2>1
  <2>3. (req'[w].op = "checkout" /\ req'[w].step \in Before) => lock' = w
    BY <2>1 DEF Locked
  <2>4. ASSUME lock' = w
        PROVE  /\ req'[w].op \in {"checkin", "checkout"}
               /\ req'[w].step \in Before
               /\ req'[w].at = req[w].at /\ lock = w
    <3>1. lock = w
      BY <2>1, <2>4, WorkersAssumption
    <3> QED BY <2>1, <2>4, <3>1 DEF Locked
  <2> QED BY <1>2, <2>2, <2>3, <2>4 DEF Locked
<1>5. ASSUME NEW v \in Workers, Begins(v)
      PROVE  /\ (req'[w].op = "checkout" /\ req'[w].step \in Before)
                  => lock' = w
             /\ lock' = w =>
                  /\ req'[w].op \in {"checkin", "checkout"}
                  /\ req'[w].step \in Before
                  /\ \A u \in Workers : req'[u].op = "checkin"
                                          => req'[u].at <= req'[w].at
                  /\ \A d \in Dates : ins'[d].time <= req'[w].at
  <2>1. /\ \A u \in Workers \ {v} : req'[u] = req[u]
        /\ req'[v].at = now /\ ins' = ins
        /\ req'[v].step \in Before /\ req[v] = Idle
        /\ \/ lock = NoOne /\ lock' = v /\ req'[v].op \in {"checkin", "checkout"}
           \/ lock' = lock /\ req'[v].op = "status"
    BY <1>5 DEF Begins
  <2>2. \A u \in Workers : req[u].at <= now /\ req[u].at \in Nat
    BY DEF RequestsSound, Sound, TypeOK, Request
  <2>3. \A d \in Dates : ins[d].time <= now
    BY DEF SessionsSound
  <2>4. now \in Nat
    BY DEF TypeOK
  <2>5. CASE lock = NoOne /\ lock' = v /\ req'[v].op \in {"checkin", "checkout"}
    <3>1. (req'[w].op = "checkout" /\ req'[w].step \in Before) => w = v
      BY <2>1, <2>5, WorkersAssumption DEF Locked
    <3>2. \A u \in Workers : req'[u].at <= now
      BY <2>1, <2>2, <2>4
    <3> QED BY <2>1, <2>3, <2>5, <3>1, <3>2
  <2>6. CASE lock' = lock /\ req'[v].op = "status"
    <3>1. lock # v
      BY <2>1, IdleType DEF Locked
    <3> QED BY <2>1, <2>6, <3>1 DEF Locked
  <2> QED BY <2>1, <2>5, <2>6
<1> QED BY <1>3, <1>4, <1>5, SomebodyActs

LEMMA OutStepOrder ==
    ASSUME IInv, [Next]_vars
    PROVE  OutAfterIn'
<1> USE DEF IInv
<1> SUFFICES ASSUME NEW d \in Dates, outs'[d] # NoLog
             PROVE  ins'[d] # NoLog /\ ins'[d].time <= outs'[d].time
  BY DEF OutAfterIn
<1>1. OutEffect(d) /\ Kept(d) /\ ins[d].time \in Nat
  BY OutStep, RowsKept DEF TypeOK, Log
<1>2. CASE outs'[d] = outs[d]
  BY <1>1, <1>2 DEF OutAfterIn, Kept
<1>3. ASSUME NEW w \in Workers, OutInserted(w, d)
      PROVE  ins[d] # NoLog /\ ins[d].time <= outs'[d].time
  <2>1. /\ req[w].op = "checkout" /\ req[w].step = "insert"
        /\ d = req[w].date /\ outs'[d].time = req[w].at
    BY <1>3 DEF OutInserted, At
  <2>2. ins[d] # NoLog
    BY <2>1 DEF RequestsSound, Sound
  <2>3. lock = w
    BY <2>1 DEF Locked, Before
  <2> QED BY <2>1, <2>2, <2>3 DEF Locked
<1>4. ASSUME NEW w \in Workers, OutClosed(w, d)
      PROVE  ins[d] # NoLog /\ ins[d].time <= outs'[d].time
  <2>1. ins[d] # NoLog
    BY <1>4 DEF OutClosed, At, RequestsSound, Sound
  <2>2. ins[d].time < Cutoff(d) /\ Cutoff(d) \in Nat
    BY <2>1, CutoffType DEF SessionsSound
  <2> QED BY <1>1, <1>4, <2>1, <2>2 DEF OutClosed
<1>5. ASSUME NEW w \in Workers, OutGiven(w, d)
      PROVE  ins[d] # NoLog /\ ins[d].time <= outs'[d].time
  <2>1. ins[d] # NoLog
    BY <1>5 DEF OutGiven, At, RequestsSound, Sound
  <2>2. outs'[d].time \in Nat
    BY OutStep DEF Log
  <2> QED BY <1>1, <1>5, <2>1, <2>2 DEF OutGiven
<1> QED BY <1>1, <1>2, <1>3, <1>4, <1>5 DEF OutEffect, Kept

LEMMA InvStep == IInv /\ [Next]_vars => IInv'
BY TypeStep, ClockStep, SoundStep, SessionsStep, LockedStep, OutStepOrder
   DEF IInv

LEMMA InvInit == Init => IInv
<1> SUFFICES ASSUME Init PROVE IInv
  OBVIOUS
<1>1. now \in Nat /\ ClockInv
  <2>1. DayLength * 1 <= DayLength * Days /\ DayLength * 1 = DayLength
    BY TimeAssumption
  <2>2. Days * DayLength = DayLength * Days /\ DayLength * Days \in Nat
    BY TimeAssumption
  <2> QED BY <2>1, <2>2, TimeAssumption DEF Init, ClockInv, MaxTime
<1>2. TypeOK
  BY <1>1, NoLogType, NoExceptionType, IdleType DEF Init, TypeOK, Steps
<1>3. RequestsSound
  <2>1. Sound(Idle)
    BY <1>1, IdleType, NoDateIsNoDate DEF Sound, Employee
  <2>2. \A w \in Workers : req[w] = Idle
    BY DEF Init
  <2> QED BY <2>1, <2>2 DEF RequestsSound
<1>4. SessionsSound /\ OutAfterIn
  BY <1>1, NoLogType DEF Init, SessionsSound, OutAfterIn
<1>5. Locked
  BY IdleType, WorkersAssumption DEF Init, Locked, Before
<1> QED BY <1>1, <1>2, <1>3, <1>4, <1>5 DEF IInv

(***************************************************************************)
(* Every reachable state of the working days is well typed; in particular   *)
(* compute_work_date never leaves the dates of the model.                   *)
(***************************************************************************)
THEOREM TypeCorrect == Spec => []TypeOK
<1>1. IInv => TypeOK
  BY DEF IInv
<1> QED BY <1>1, InvInit, InvStep, PTL DEF Spec

(***************************************************************************)
(* A session never ends before it began, however requests interleave: a     *)
(* check-out reads its time when it takes the employee's lock, and no       *)
(* check-in of a later time can commit before it lets go; the closing at    *)
(* the cutoff comes after every check-in of the work date.                  *)
(***************************************************************************)
THEOREM SessionsEndAfterTheyBegin == Spec => []OutAfterIn
<1>1. IInv => OutAfterIn
  BY DEF IInv
<1> QED BY <1>1, InvInit, InvStep, PTL DEF Spec

---------------------------------------------------------------------------
(* How a request goes on. *)

SameRequest(w) == /\ req'[w].op = req[w].op
                  /\ req'[w].at = req[w].at

\* From the second look at the open session.
Checked(w) ==
    /\ At(w, "check") /\ SameRequest(w)
    /\ ins' = ins /\ outs' = outs /\ exc' = exc /\ lock' = lock
    /\ req'[w].seen = exc[req'[w].date]
    /\ \/ /\ req'[w].step = "missed" /\ req[w].op # "checkout"
          /\ req'[w].date \in Latest /\ MissedDue(req'[w].date, req[w].at)
       \/ /\ req'[w].step = "insert" /\ req[w].op = "checkin" /\ Latest = {}
       \/ /\ req'[w].step = "insert" /\ req[w].op = "checkout"
          /\ req'[w].date \in Latest

\* A check-in that has closed an old session goes on.
ClosedAndGoesOn(w) ==
    /\ AutoClose(w) /\ SameRequest(w)
    /\ req[w].op = "checkin" /\ req'[w].step = "check"

\* From a log or an exception to the next exception.
Flagged(w) ==
    /\ SameRequest(w)
    /\ \/ /\ InsertIn(w) \/ InsertOut(w) \/ WriteException(w)
          /\ req'[w].step = "read"
       \/ /\ ReadException(w)
          /\ req'[w].step = "write"
          /\ req'[w].seen = exc[req'[w].date]

Started(w) ==
    /\ UNCHANGED <<now, ins, outs, exc>>
    /\ req[w] = Idle
    /\ req'[w].op \in Employee /\ req'[w].at = now
    /\ \/ req'[w].step = "close" /\ req'[w].seen = exc[req'[w].date]
       \/ req'[w].step = "check" /\ (Latest = {} \/ Latest \ Closing # {})

Resolving(w) ==
    /\ UNCHANGED <<now, ins, outs, exc>>
    /\ req'[w].op = "approve" /\ req'[w].step = "resolve"

RequestMove(w) ==
    \/ req'[w] = Idle
    \/ Started(w) \/ ClosedAndGoesOn(w) \/ Checked(w) \/ Flagged(w)
    \/ Resolving(w)

LEMMA GoesOn ==
    ASSUME TypeOK, NEW w \in Workers, NEW step \in Steps, NEW d \in Dates,
           GoTo(w, step, d)
    PROVE  /\ SameRequest(w)
           /\ req'[w].step = step /\ req'[w].date = d
           /\ req'[w].seen = exc[req'[w].date]
<1> DEFINE r == [req[w] EXCEPT !.step = step, !.date = d, !.seen = exc[d]]
<1>1. /\ r.step = step /\ r.date = d /\ r.seen = exc[d]
      /\ r.op = req[w].op /\ r.at = req[w].at
  BY DEF TypeOK, Request
<1>2. req'[w] = r
  BY DEF GoTo, TypeOK
<1> HIDE DEF r
<1> QED BY <1>1, <1>2 DEF SameRequest

LEMMA CheckMove ==
    ASSUME IInv, NEW w \in Workers, Check(w), req'[w] # Idle
    PROVE  Checked(w)
<1> DEFINE d == compute_work_date(req[w].at, req[w].rule.cutoff)
<1>1. TypeOK /\ At(w, "check") /\ ins' = ins /\ outs' = outs /\ exc' = exc
  BY DEF IInv, Check
<1>2. ~Done(w)
  BY <1>1, DoneEffect
<1>3. Latest \subseteq Dates
  BY DEF Latest, OpenDates
<1>4. ASSUME req[w].op = "checkin" PROVE d \in Dates
  <2>1. /\ req[w].rule \in Rules /\ DayLength - 1 <= req[w].at
        /\ req[w].at <= now /\ req[w].at \in Nat /\ now \in Nat
    BY <1>4 DEF IInv, RequestsSound, Sound, Employee, TypeOK, Request
  <2>2. now < MaxTime /\ MaxTime \in Nat
    BY TimeAssumption DEF IInv, ClockInv, MaxTime
  <2> QED BY <2>1, <2>2, WorkDate
<1> HIDE DEF d
<1>5. "missed" \in Steps /\ "insert" \in Steps
  BY DEF Steps
<1>6. CASE \E e \in Latest : /\ req[w].op # "checkout"
                             /\ MissedDue(e, req[w].at)
                             /\ GoTo(w, "missed", e) /\ UNCHANGED lock
  BY <1>1, <1>3, <1>5, <1>6, GoesOn DEF Checked
<1>7. CASE /\ req[w].op = "checkin" /\ Latest = {}
           /\ GoTo(w, "insert", d) /\ UNCHANGED lock
  BY <1>1, <1>4, <1>5, <1>7, GoesOn DEF Checked
<1>8. CASE \E e \in Latest : /\ req[w].op = "checkout"
                             /\ GoTo(w, "insert", e) /\ UNCHANGED lock
  BY <1>1, <1>3, <1>5, <1>8, GoesOn DEF Checked
<1> QED BY <1>2, <1>6, <1>7, <1>8 DEF Check, d

LEMMA FlagMove ==
    ASSUME IInv, NEW w \in Workers,
           InsertIn(w) \/ InsertOut(w) \/ WriteException(w), req'[w] # Idle
    PROVE  Flagged(w)
<1>1. TypeOK /\ req[w].date \in Dates
  BY DEF IInv, InsertIn, InsertOut, WriteException, At, TypeOK, Steps
<1>2. PICK todo \in Todos : Flag(w, todo)
  <2>1. CASE WriteException(w)
    <3>1. req[w].todo \in Todos /\ req[w].todo # <<>>
      BY <2>1 DEF IInv, RequestsSound, Sound, WriteException, At, TypeOK, Request
    <3> QED BY <2>1, <3>1, TodoType DEF WriteException
  <2> QED BY <2>1, OutcomesAssumption DEF InsertIn, InsertOut
<1> QED BY <1>1, <1>2, FlagEffect DEF Flagged, SameRequest

\* Whose step it is.
ActsAs(w) ==
    \/ \E op \in Employee : Start(w, op)
    \/ Proceed(w) \/ Fail(w)
    \/ \E d \in Reviewed : BeginApprove(w, d)

LEMMA Actors ==
    ASSUME [Next]_vars
    PROVE  \/ /\ UNCHANGED <<ins, outs, lock, req>>
              /\ exc' = exc \/ \E d \in Reviewed : \/ FlagFace(d)
                                                  \/ CreateSystem(d) \/ Settle(d)
           \/ \E w \in Workers : ActsAs(w)
BY DEF Next, vars, Tick, ChangeRule, FlagFace, CreateSystem, Raise, Settle,
       Employee, ActsAs

LEMMA ActorActs ==
    ASSUME IInv, [Next]_vars, NEW w \in Workers, ActsAs(w)
    PROVE  /\ Acts(w) \/ Begins(w)
           /\ ins' = ins \/ InsertIn(w)
           /\ outs' = outs \/ AutoClose(w) \/ InsertOut(w) \/ Approve(w)
<1>1. Acts(w) \/ Begins(w)
  BY ProceedActs, BeginApproveActs, StartBegins DEF ActsAs
<1>2. ins' = ins \/ InsertIn(w)
  BY DEF ActsAs, Start, Proceed, AutoClose, Check, ReportMissed, InsertOut, Block,
         ReadException, WriteException, Approve, Conflict, Fail, BeginApprove
<1>3. outs' = outs \/ AutoClose(w) \/ InsertOut(w) \/ Approve(w)
  BY DEF ActsAs, Start, Proceed, Check, ReportMissed, InsertIn, Block,
         ReadException, WriteException, Conflict, Fail, BeginApprove
<1> QED BY <1>1, <1>2, <1>3

LEMMA StartMove ==
    ASSUME TypeOK, NEW w \in Workers, NEW op \in Employee, Start(w, op)
    PROVE  Started(w)
<1>1. /\ req'[w].op = op /\ req'[w].at = now
      /\ \/ req'[w].step = "close" /\ req'[w].seen = exc[req'[w].date]
         \/ req'[w].step = "check" /\ (Latest = {} \/ Latest \ Closing # {})
  <2>1. /\ req'[w].op = op /\ req'[w].at = now
        /\ \/ /\ req'[w].step = "close" /\ req'[w].date \in Closing
              /\ req'[w].seen = exc[req'[w].date]
           \/ /\ Latest = {} \/ Latest \ Closing # {}
              /\ req'[w].step = "check" /\ req'[w].date = NoDate
              /\ req'[w].seen = NoException
    BY StartEffect
  <2> QED BY <2>1
<1>2. req[w] = Idle /\ UNCHANGED <<now, ins, outs, exc>>
  BY DEF Start
<1> QED BY <1>1, <1>2 DEF Started

LEMMA RequestMoves ==
    ASSUME IInv, [Next]_vars, NEW w \in Workers, ActsAs(w)
    PROVE  RequestMove(w)
<1>1. TypeOK
  BY DEF IInv
<1>2. ASSUME NEW d \in Reviewed, BeginApprove(w, d) PROVE Resolving(w)
  <2>1. d \in Dates
    BY TimeAssumption DEF Dates
  <2>2. req'[w].op = "approve" /\ req'[w].step = "resolve"
    BY <1>1, <1>2, <2>1, BeginApproveEffect
  <2> QED BY <1>2, <2>2 DEF Resolving, BeginApprove
<1>3. CASE ReportMissed(w) \/ Block(w) \/ Approve(w) \/ Conflict(w) \/ Fail(w)
  <2>1. Done(w)
    BY <1>3 DEF ReportMissed, Block, Approve, Conflict, Fail
  <2> QED BY <1>1, <2>1, DoneEffect DEF RequestMove
<1>4. CASE AutoClose(w)
  <2>1. req[w].date \in Dates /\ "check" \in Steps
    BY <1>1, <1>4 DEF AutoClose, At, TypeOK, Steps
  <2>2. CASE req[w].op = "checkin"
    <3>1. GoTo(w, "check", req[w].date)
      BY <1>4, <2>2 DEF AutoClose
    <3>2. SameRequest(w) /\ req'[w].step = "check"
      BY <1>1, <2>1, <3>1, GoesOn
    <3> QED BY <1>4, <2>2, <3>2 DEF ClosedAndGoesOn, RequestMove
  <2>3. CASE req[w].op # "checkin"
    BY <1>1, <1>4, <2>3, DoneEffect DEF AutoClose, RequestMove
  <2> QED BY <2>2, <2>3
<1>5. CASE ReadException(w)
  <2>1. req[w].date \in Dates /\ "write" \in Steps
    BY <1>1, <1>5 DEF ReadException, At, TypeOK, Steps
  <2>2. GoTo(w, "write", req[w].date)
    BY <1>5 DEF ReadException
  <2>3. /\ SameRequest(w) /\ req'[w].step = "write"
        /\ req'[w].seen = exc[req'[w].date]
    BY <1>1, <2>1, <2>2, GoesOn
  <2> QED BY <1>5, <2>3 DEF Flagged, RequestMove
<1> QED BY <1>1, <1>2, <1>3, <1>4, <1>5, CheckMove, FlagMove, StartMove
        DEF ActsAs, Proceed, RequestMove

LEMMA OpenGrows ==
    ASSUME IInv, [Next]_vars, NEW d \in OpenDates'
    PROVE  d \in OpenDates \/ (d \in Dates /\ ins'[d] # ins[d])
<1>1. d \in Dates /\ ins'[d] # NoLog /\ outs'[d] = NoLog
  BY DEF OpenDates
<1>2. outs[d] = NoLog
  BY <1>1, RowsKept DEF IInv, Kept
<1> QED BY <1>1, <1>2 DEF OpenDates

OneOpen == \A d, e \in OpenDates : d = e

\* The latest open session is the only one, where there is only one.
LEMMA LatestIsOpen ==
    ASSUME TypeOK, OneOpen
    PROVE  Latest = OpenDates
<1>1. \A d \in OpenDates : ins[d].time \in Nat
  BY DEF OpenDates, TypeOK, Log
<1> QED BY <1>1 DEF Latest, OneOpen

---------------------------------------------------------------------------
(* Two open sessions. *)

\* Nothing but the closing at a cutoff, or an administrator, ends a session
\* without a check-out.
NoneClosed == \A d \in Dates : outs[d].kind \notin {"AUTO", "ADMIN"}

\* A check-in keeps the lock from its first look at the sessions to its
\* insert, and before the insert it has seen that no session is open.
OneByOne ==
    /\ \A w \in Workers :
         (req[w].op = "checkin" /\ req[w].step \in Before) => lock = w
    /\ \A w \in Workers :
         (req[w].op = "checkin" /\ req[w].step = "insert") => OpenDates = {}
    /\ OneOpen

SecondInv == NoneClosed => OneByOne

LEMMA ClosedStaysClosed ==
    ASSUME IInv, [Next]_vars, NoneClosed'
    PROVE  NoneClosed
<1> SUFFICES ASSUME NEW d \in Dates, outs[d].kind \in {"AUTO", "ADMIN"}
             PROVE  FALSE
  BY DEF NoneClosed
<1>1. OutEffect(d) /\ outs'[d].kind \notin {"AUTO", "ADMIN"}
  BY OutStep DEF IInv, NoneClosed
<1> QED BY <1>1, NoLogType DEF OutEffect, OutInserted, OutClosed, OutGiven

\* The commit that closes a session would close it for NoneClosed, too.
LEMMA NobodyCloses ==
    ASSUME IInv, NEW w \in Workers, AutoClose(w), NoneClosed'
    PROVE  FALSE
<1>1. req[w].date \in Dates
  BY DEF AutoClose, At, IInv, TypeOK, Steps
<1>2. outs'[req[w].date].kind = "AUTO"
  BY <1>1 DEF AutoClose, IInv, TypeOK
<1> QED BY <1>1, <1>2 DEF NoneClosed

LEMMA OneByOneStep ==
    ASSUME IInv, OneByOne, [Next]_vars, NoneClosed'
    PROVE  OneByOne'
<1>1. CASE UNCHANGED <<ins, outs, lock, req>>
  BY <1>1 DEF OneByOne, OneOpen, OpenDates
<1>2. ASSUME NEW w \in Workers, ActsAs(w) PROVE OneByOne'
  <2>1. /\ \A v \in Workers \ {w} : req'[v] = req[v]
        /\ ins' = ins \/ InsertIn(w)
        /\ \/ lock' = lock
           \/ lock = w /\ lock' = NoOne
           \/ lock = NoOne /\ lock' = w
    BY <1>2, ActorActs DEF Acts, Begins, LockEffect
  <2>2. InsertIn(w) => /\ req[w].op = "checkin" /\ req[w].step = "insert"
                       /\ req[w].date \in Dates
                       /\ \A d \in Dates \ {req[w].date} : ins'[d] = ins[d]
    BY InsertInEffect DEF IInv
  <2>3. RequestMove(w)
    BY <1>2, RequestMoves
  <2>4. /\ Idle.step \notin Before /\ Idle.op = "idle"
        /\ "insert" \in Before /\ "check" \in Before
        /\ "read" \notin Before /\ "write" \notin Before /\ "resolve" \notin Before
    BY IdleType DEF Before
  <2>5. ~ClosedAndGoesOn(w)
    BY NobodyCloses DEF ClosedAndGoesOn
  <2>6. InsertIn(w) => lock = w /\ OpenDates = {}
    BY <2>2, <2>4 DEF OneByOne
  <2>7. OpenDates' \subseteq OpenDates \/ (InsertIn(w) /\ OpenDates' \subseteq {req[w].date})
    BY <2>1, <2>2, <2>6, OpenGrows
  <2>8. OneOpen'
    BY <2>7 DEF OneByOne, OneOpen
  <2>9. ASSUME req'[w].op = "checkin", req'[w].step \in Before PROVE lock' = w
    <3>1. CASE Started(w)
      BY <1>2, <2>4, <2>9, <3>1, ActorActs DEF Acts, LockEffect, Begins, Started
    <3>2. CASE Checked(w)
      BY <2>4, <2>9, <3>2 DEF Checked, SameRequest, OneByOne, At
    <3> QED BY <2>3, <2>4, <2>5, <2>9, <3>1, <3>2 DEF RequestMove, Flagged, Resolving
  <2>10. ASSUME req'[w].op = "checkin", req'[w].step = "insert" PROVE OpenDates' = {}
    <3>1. CASE Checked(w)
      <4>1. Latest = {} /\ OpenDates' = OpenDates
        BY <2>10, <3>1 DEF Checked, SameRequest, OpenDates
      <4>2. TypeOK /\ OneOpen
        BY DEF IInv, OneByOne
      <4> QED BY <4>1, <4>2, LatestIsOpen
    <3> QED BY <2>3, <2>4, <2>5, <2>10, <3>1 DEF RequestMove, Flagged, Resolving, Started
  <2>11. ASSUME NEW v \in Workers \ {w}, req'[v].op = "checkin"
         PROVE  /\ req'[v].step \in Before => lock' = v
                /\ req'[v].step = "insert" => OpenDates' = {}
    <3>1. ASSUME req[v].step \in Before PROVE lock = v
      BY <2>1, <2>11, <3>1 DEF OneByOne
    <3>2. ASSUME req[v].step = "insert" PROVE OpenDates' = {}
      BY <2>1, <2>4, <2>6, <2>7, <2>11, <3>1, <3>2 DEF OneByOne
    <3> QED BY <2>1, <2>11, <3>1, <3>2, WorkersAssumption
  <2>12. ASSUME NEW v \in Workers, req'[v].op = "checkin"
         PROVE  /\ req'[v].step \in Before => lock' = v
                /\ req'[v].step = "insert" => OpenDates' = {}
    BY <2>9, <2>10, <2>11, <2>12
  <2> QED BY <2>8, <2>12 DEF OneByOne
<1> QED BY <1>1, <1>2, Actors

(***************************************************************************)
(* A second session is opened beside an open one only after a commit that   *)
(* closed a session has released the lock (or an administrator has ended    *)
(* one): until then the lock on the employee row keeps any number of        *)
(* check-ins apart.                                                         *)
(***************************************************************************)
THEOREM SecondSessionNeedsAClosing == Spec => []SecondOpenAfterClosing
<1>1. Init => SecondInv
  <2> SUFFICES ASSUME Init PROVE SecondInv
    OBVIOUS
  <2>1. \A w \in Workers : req[w].op # "checkin"
    BY IdleType DEF Init
  <2>2. OpenDates = {}
    BY DEF Init, OpenDates
  <2> QED BY <2>1, <2>2 DEF SecondInv, OneByOne, OneOpen
<1>2. IInv /\ SecondInv /\ [Next]_vars => SecondInv'
  BY ClosedStaysClosed, OneByOneStep DEF SecondInv
<1>3. SecondInv => SecondOpenAfterClosing
  BY DEF SecondInv, NoneClosed, OneByOne, OneOpen,
         SecondOpenAfterClosing
<1> QED BY <1>1, <1>2, <1>3, InvInit, InvStep, PTL DEF Spec
---------------------------------------------------------------------------
(* When a check-out is reported missing. *)

\* A request that reports a missed check-out came after its threshold, and a
\* check-in carries one of the rules.
DueInv ==
    /\ \A w \in Workers :
         req[w].step = "missed" => MissedThreshold(req[w].date) <= req[w].at
    /\ \A d \in Dates : ins[d] # NoLog => ins[d].rule \in Rules

LEMMA DueStep ==
    ASSUME IInv, DueInv, [Next]_vars
    PROVE  DueInv'
<1>1. ASSUME NEW d \in Dates, ins'[d] # NoLog PROVE ins'[d].rule \in Rules
  <2>1. CASE ins'[d] = ins[d]
    BY <1>1, <2>1 DEF DueInv
  <2>2. CASE ins'[d] # ins[d]
    <3>1. PICK w \in Workers : InsertIn(w) /\ d = req[w].date
      BY <2>2, InsWritten, InsertInEffect DEF IInv
    <3>2. /\ ins'[d].rule = req[w].rule
          /\ req[w].op = "checkin" /\ req[w].step = "insert"
      BY <3>1, InsertInEffect DEF IInv
    <3> QED BY <3>2 DEF IInv, RequestsSound, Sound, Employee
  <2> QED BY <2>1, <2>2
<1>2. ASSUME NEW d \in Dates, ins[d] # NoLog
      PROVE  MissedThreshold(d)' = MissedThreshold(d)
  <2>1. ins'[d] = ins[d]
    BY <1>2, InsKept DEF IInv
  <2> QED BY <2>1 DEF MissedThreshold, Cutoff, SnapshotCutoff
<1>3. ASSUME NEW w \in Workers, req'[w] = req[w], req'[w].step = "missed"
      PROVE  MissedThreshold(req[w].date)' <= req'[w].at
  <2>1. /\ req[w].date \in Dates /\ ins[req[w].date] # NoLog
        /\ MissedThreshold(req[w].date) <= req[w].at
    BY <1>3 DEF IInv, TypeOK, Steps, RequestsSound, Sound, DueInv
  <2>2. ins'[req[w].date] = ins[req[w].date]
    BY <2>1, InsKept DEF IInv
  <2> QED BY <1>3, <2>1, <2>2 DEF MissedThreshold, Cutoff, SnapshotCutoff
<1>4. ASSUME NEW w \in Workers, ActsAs(w), req'[w].step = "missed"
      PROVE  MissedThreshold(req[w].date)' <= req'[w].at
  <2>1. Checked(w)
    BY <1>4, IdleType, RequestMoves
       DEF RequestMove, Started, ClosedAndGoesOn, Flagged, Resolving
  <2>2. /\ ins' = ins /\ req'[w].at = req[w].at
        /\ MissedThreshold(req'[w].date) <= req'[w].at
    BY <1>4, <2>1 DEF Checked, SameRequest, MissedDue
  <2> QED BY <2>2 DEF MissedThreshold, Cutoff, SnapshotCutoff
<1>5. ASSUME NEW w \in Workers, req'[w].step = "missed"
      PROVE  MissedThreshold(req[w].date)' <= req'[w].at
  <2>1. CASE req'[w] = req[w]
    BY <1>3, <1>5, <2>1
  <2>2. CASE req'[w] # req[w]
    <3>1. PICK v \in Workers : ActsAs(v)
      BY <2>2, Actors
    <3>2. v = w
      BY <2>2, <3>1, ActorActs DEF Acts, Begins
    <3> QED BY <1>4, <1>5, <3>1, <3>2
  <2> QED BY <2>1, <2>2
<1>6. ASSUME NEW w \in Workers
      PROVE  (req[w].step = "missed" => MissedThreshold(req[w].date) <= req[w].at)'
  BY <1>5
<1> QED BY <1>1, <1>6 DEF DueInv

\* No rule ends after midnight.
DayShifts == \A r \in Rules : r.start <= r.end

LEMMA DayShiftEnds ==
    ASSUME IInv, DueInv, DayShifts, NEW w \in Workers, At(w, "missed")
    PROVE  ShiftEnd(req[w].date) <= now
<1> DEFINE d == req[w].date
           r == ins[d].rule
<1>1. d \in Dates /\ ins[d] # NoLog /\ req[w].at <= now
  BY DEF At, IInv, TypeOK, Steps, RequestsSound, Sound
<1>2. r \in Rules /\ MissedThreshold(d) <= req[w].at
  BY <1>1 DEF DueInv, At
<1>3. /\ r.start \in Nat /\ r.end \in Nat /\ r.end < DayLength
      /\ r.cutoff \in Nat /\ r.start <= r.end
  BY <1>2, TimeAssumption DEF DayShifts
<1>4. req[w].at \in Nat /\ now \in Nat
  BY DEF IInv, TypeOK, Request
<1>5. /\ DayLength \in Nat /\ DefaultCutoff \in Nat /\ d \in Nat
      /\ d * DayLength \in Nat
      /\ (d + 1) * DayLength = d * DayLength + DayLength
  BY <1>1, TimeAssumption DEF Dates
<1>6. Cutoff(d) \in Nat /\ d * DayLength + r.end < Cutoff(d)
  <2>1. SnapshotCutoff(d) \in Nat
    BY <1>3, <1>5 DEF SnapshotCutoff
  <2>2. Cutoff(d) = d * DayLength + DayLength + SnapshotCutoff(d)
    BY <1>5 DEF Cutoff, work_date_cutoff
  <2> HIDE DEF d, r
  <2> QED BY <1>3, <1>5, <2>1, <2>2
<1>7. MissedThreshold(d) = d * DayLength + r.end
  BY <1>6 DEF MissedThreshold
<1>8. ShiftEnd(d) = d * DayLength + r.end
  <2>1. ~(r.end < r.start)
    BY <1>3
  <2>2. ShiftEnd(d) = d * DayLength + r.end + 0
    BY <2>1 DEF ShiftEnd
  <2> HIDE DEF d, r
  <2> QED BY <1>3, <1>5, <2>2
<1> HIDE DEF d, r
<1>9. ShiftEnd(d) <= now
  BY <1>1, <1>2, <1>3, <1>4, <1>5, <1>7, <1>8
<1> QED BY <1>9 DEF d

(***************************************************************************)
(* With rules that do not end after midnight, a missed check-out is         *)
(* reported only after the end of the shift, by any number of threads.      *)
(* (With others it is not so: the threshold takes the work date's day.)     *)
(***************************************************************************)
THEOREM ReportsComeAfterTheShift ==
    ASSUME DayShifts
    PROVE  Spec => MissedAfterShiftEnd
<1>1. Init => DueInv
  <2> SUFFICES ASSUME Init PROVE DueInv
    OBVIOUS
  <2> QED BY IdleType DEF Init, DueInv
<1>2. IInv /\ DueInv /\ [Next]_vars => DueInv'
  BY DueStep
<1>3. IInv /\ DueInv
        => [\A w \in Workers : Reports(w) => ShiftEnd(req[w].date) <= now]_vars
  BY DayShiftEnds DEF Reports
<1> QED BY <1>1, <1>2, <1>3, InvInit, InvStep, PTL DEF Spec, MissedAfterShiftEnd
---------------------------------------------------------------------------
(* Requests that are not overtaken. *)

\* What a request has learned from the logs still holds as long as nobody else
\* has written one.
Current(r) ==
    /\ r.op \in Employee =>
         \A d \in Dates : /\ ins[d].time <= r.at
                          /\ outs[d].kind \in {"REAL", "AUTO"} => outs[d].time <= r.at
    /\ (r.step = "insert" /\ r.op = "checkin") => OpenDates = {}
    /\ (r.step = "insert" /\ r.op = "checkout") => r.at < Cutoff(r.date)
    /\ (r.step = "check" /\ r.op = "checkout") => \A d \in OpenDates : r.at < Cutoff(d)

RequestsCurrent == \A w \in Workers \ overtaken : Current(req[w])

OutsSound ==
    \A d \in Dates :
        /\ outs[d].kind \in {"REAL", "AUTO"} => outs[d].time <= now
        /\ outs[d].kind = "NONE" => outs[d] = NoLog

Disjoint ==
    \A d, e \in Dates :
        (/\ d # e /\ ins[d] # NoLog /\ ins[e] # NoLog
         /\ ins[d].time < ins[e].time)
          => outs[d] # NoLog /\ (outs[d].kind = "ADMIN" \/ outs[d].time <= ins[e].time)

RealInTime == \A d \in Dates : outs[d].kind = "REAL" => outs[d].time < Cutoff(d)

\* Before any request that has been overtaken writes a log.
Orderly == RequestsCurrent /\ OneOpen /\ Disjoint /\ RealInTime

OrderlyInv == OutsSound /\ (~raced => Orderly)

\* The cutoff of a session does not move.
LEMMA CutoffStays ==
    ASSUME IInv, [Next]_vars, NEW d \in Dates, ins[d] # NoLog
    PROVE  Cutoff(d)' = Cutoff(d)
<1>1. ins'[d] = ins[d]
  BY InsKept DEF IInv
<1> QED BY <1>1 DEF Cutoff, SnapshotCutoff

LEMMA OutsStep ==
    ASSUME IInv, OutsSound, [Next]_vars
    PROVE  OutsSound'
<1> SUFFICES ASSUME NEW d \in Dates
             PROVE  /\ outs'[d].kind \in {"REAL", "AUTO"} => outs'[d].time <= now'
                    /\ outs'[d].kind = "NONE" => outs'[d] = NoLog
  BY DEF OutsSound
<1>1. now \in Nat /\ now' \in Nat /\ now <= now' /\ outs[d].time \in Nat
  BY ClockStep DEF IInv, TypeOK, Log
<1>2. CASE outs'[d] = outs[d]
  BY <1>1, <1>2 DEF OutsSound
<1>3. ASSUME NEW w \in Workers, OutInserted(w, d) \/ OutClosed(w, d) \/ OutGiven(w, d)
      PROVE  /\ outs'[d].kind \in {"REAL", "AUTO"} => outs'[d].time <= now'
             /\ outs'[d].kind # "NONE"
  <2>1. Sound(req[w]) /\ req[w].at \in Nat /\ req[w].at <= now
    BY DEF IInv, RequestsSound, Sound, TypeOK, Request
  <2>2. OutClosed(w, d) => Cutoff(d) <= req[w].at /\ Cutoff(d) \in Nat
    BY <2>1, CutoffType DEF OutClosed, At, Sound, IInv
  <2> QED BY <1>1, <1>3, <2>1, <2>2 DEF OutInserted, OutClosed, OutGiven
<1>4. outs'[d] = outs[d] \/ \E w \in Workers : OutInserted(w, d) \/ OutClosed(w, d)
                                                \/ OutGiven(w, d)
  BY OutStep DEF IInv, OutEffect
<1> QED BY <1>2, <1>3, <1>4

\* Who writes a log goes on with its request, or ends it.
LEMMA WriterMoves ==
    ASSUME IInv, NEW w \in Workers,
           InsertIn(w) \/ InsertOut(w) \/ AutoClose(w) \/ Approve(w)
    PROVE  Moves(w)
<1>1. /\ TypeOK /\ req[w].date \in Dates
      /\ req[w].step \in {"insert", "close", "resolve"}
      /\ Idle.step = "done"
  BY IdleType DEF IInv, InsertIn, InsertOut, AutoClose, Approve, At, TypeOK, Steps
<1>2. CASE Done(w)
  BY <1>1, <1>2, DoneEffect DEF Moves
<1>3. CASE AutoClose(w)
  BY <1>1, <1>3, EnsurerMoves DEF IInv
<1>4. ASSUME NEW todo \in Outcomes, Flag(w, todo) PROVE Moves(w)
  <2>1. req'[w] = Idle \/ req'[w].step = "read"
    BY <1>1, <1>4, OutcomesAssumption, FlagEffect
  <2> QED BY <1>1, <2>1 DEF Moves
<1> QED BY <1>2, <1>3, <1>4 DEF InsertIn, InsertOut, Approve

LEMMA RacedStays ==
    ASSUME [Next]_vars, ~raced'
    PROVE  /\ ~raced
           /\ (ins' # ins \/ outs' # outs)
                => \A w \in Workers : Moves(w) => w \notin overtaken
<1>1. CASE UNCHANGED vars
  BY <1>1 DEF vars, history
<1>2. CASE Overlap
  <2>1. raced' = (raced \/ (LogsWritten /\ \E w \in overtaken : Moves(w)))
    BY <1>2 DEF Overlap
  <2> QED BY <2>1 DEF LogsWritten
<1> QED BY <1>1, <1>2, HistoryStep

\* A request that has not been overtaken after the step was not before it, and
\* no other has written a log.
LEMMA NotOvertaken ==
    ASSUME [Next]_vars, NEW w \in Workers \ overtaken', req'[w] # Idle
    PROVE  /\ w \notin overtaken
           /\ (ins' = ins /\ outs' = outs) \/ Moves(w)
<1>1. CASE UNCHANGED vars
  BY <1>1 DEF vars, history
<1>2. CASE Overlap
  BY <1>2 DEF Overlap, LogsWritten
<1> QED BY <1>1, <1>2, HistoryStep

\* A check-in that writes has not been overtaken: it meets no open session,
\* and comes after all logs.
LEMMA InsertMeetsNone ==
    ASSUME IInv, ~raced', Orderly, [Next]_vars, NEW d \in Dates, ins'[d] # ins[d]
    PROVE  /\ OpenDates = {} /\ outs' = outs
           /\ ins[d] = NoLog
           /\ \A e \in Dates \ {d} : ins'[e] = ins[e]
           /\ \A e \in Dates :
                 /\ ins[e].time <= ins'[d].time
                 /\ outs[e].kind \in {"REAL", "AUTO"} => outs[e].time <= ins'[d].time
<1>1. PICK w \in Workers : InsertIn(w)
  BY InsWritten
<1>2. d = req[w].date
  BY <1>1, InsertInEffect DEF IInv
<1>3. /\ req[w].op = "checkin" /\ req[w].step = "insert"
      /\ ins[d] = NoLog /\ ins'[d].time = req[w].at
      /\ \A e \in Dates \ {d} : ins'[e] = ins[e]
  BY <1>1, <1>2, InsertInEffect DEF IInv
<1>4. w \notin overtaken
  BY <1>1, RacedStays, WriterMoves
<1>5. Current(req[w])
  BY <1>4 DEF Orderly, RequestsCurrent
<1>6. outs' = outs
  BY <1>1 DEF InsertIn
<1> QED BY <1>3, <1>5, <1>6 DEF Current, Employee

LEMMA OpenStep ==
    ASSUME IInv, ~raced', Orderly, [Next]_vars
    PROVE  OneOpen'
<1>1. \A d \in OpenDates' : \/ d \in OpenDates
                            \/ /\ OpenDates = {}
                               /\ \A e \in Dates \ {d} : ins'[e] = ins[e]
  BY OpenGrows, InsertMeetsNone
<1>2. \A d \in OpenDates' : d \in Dates /\ (d \in OpenDates \/ ins'[d] # ins[d])
  BY OpenGrows DEF OpenDates
<1> QED BY <1>1, <1>2 DEF Orderly, OneOpen

LEMMA DisjointStep ==
    ASSUME IInv, OutsSound, ~raced', Orderly, [Next]_vars
    PROVE  Disjoint'
<1> SUFFICES ASSUME NEW d \in Dates, NEW e \in Dates, d # e,
                    ins'[d] # NoLog, ins'[e] # NoLog, ins'[d].time < ins'[e].time
             PROVE  /\ outs'[d] # NoLog
                    /\ outs'[d].kind = "ADMIN" \/ outs'[d].time <= ins'[e].time
  BY DEF Disjoint
<1>1. /\ ins[d].time \in Nat /\ ins[e].time \in Nat
      /\ outs[d].kind \in Kinds /\ outs[d].time \in Nat
  BY DEF IInv, TypeOK, Log
<1>2. CASE ins'[d] = ins[d] /\ ins'[e] = ins[e]
  <2>1. outs[d] # NoLog /\ (outs[d].kind = "ADMIN" \/ outs[d].time <= ins[e].time)
    BY <1>2 DEF Orderly, Disjoint
  <2>2. OutEffect(d)
    BY OutStep DEF IInv
  <2> QED BY <1>2, <2>1, <2>2, NoLogType
          DEF OutEffect, OutInserted, OutClosed, OutGiven
<1>3. CASE ins'[d] # ins[d]
  \* the latest check-in comes after all others
  <2>1. ins'[e] = ins[e] /\ ins[e].time <= ins'[d].time
    BY <1>3, InsertMeetsNone
  <2>2. ins'[d].time \in Nat
    BY TypeStep DEF TypeOK, Log
  <2> QED BY <1>1, <2>1, <2>2
<1>4. CASE ins'[e] # ins[e]
  <2>1. /\ ins'[d] = ins[d] /\ OpenDates = {} /\ outs' = outs
        /\ outs[d].kind \in {"REAL", "AUTO"} => outs[d].time <= ins'[e].time
    BY <1>4, InsertMeetsNone
  <2>2. outs[d] # NoLog
    BY <2>1 DEF OpenDates
  <2>3. outs[d].kind # "NONE"
    BY <2>2 DEF OutsSound
  <2> QED BY <1>1, <2>1, <2>2, <2>3 DEF Kinds
<1> QED BY <1>2, <1>3, <1>4

LEMMA RealOutStep ==
    ASSUME IInv, ~raced', Orderly, [Next]_vars
    PROVE  RealInTime'
<1> SUFFICES ASSUME NEW d \in Dates, outs'[d].kind = "REAL"
             PROVE  outs'[d].time < Cutoff(d)'
  BY DEF RealInTime
<1>1. CASE outs'[d] = outs[d]
  <2>1. outs[d] # NoLog /\ outs[d].time < Cutoff(d)
    BY <1>1, NoLogType DEF Orderly, RealInTime
  <2>2. ins[d] # NoLog
    BY <2>1 DEF IInv, OutAfterIn
  <2> QED BY <1>1, <2>1, <2>2, CutoffStays
<1>2. CASE outs'[d] # outs[d]
  <2>1. PICK w \in Workers : AutoClose(w) \/ InsertOut(w) \/ Approve(w)
    BY <1>2, OutsWritten
  <2>2. OutInserted(w, d)
    BY <1>2, <2>1, InsertOutEffect, AutoCloseEffect, ApproveEffect
       DEF IInv, OutClosed, OutGiven
  <2>3. /\ req[w].step = "insert" /\ req[w].op = "checkout"
        /\ d = req[w].date /\ outs'[d].time = req[w].at
    BY <2>2 DEF OutInserted, At
  <2>4. w \notin overtaken
    BY <1>2, <2>1, RacedStays, WriterMoves
  <2>5. req[w].at < Cutoff(d) /\ ins[d] # NoLog
    BY <2>3, <2>4 DEF Orderly, RequestsCurrent, Current, IInv, RequestsSound, Sound
  <2> QED BY <2>3, <2>5, CutoffStays
<1> QED BY <1>1, <1>2

\* The first look: a check-out finds a session past its cutoff, or none.
LEMMA StartedCurrent ==
    ASSUME IInv, OutsSound, OneOpen, [Next]_vars, NEW w \in Workers, Started(w)
    PROVE  Current(req[w])'
<1>1. /\ now' = now /\ ins' = ins /\ outs' = outs /\ exc' = exc
      /\ req'[w].at = now /\ req'[w].step \in {"close", "check"}
      /\ req'[w].step = "check" => Latest = {} \/ Latest \ Closing # {}
  BY DEF Started
<1>2. \A d \in Dates : /\ ins[d].time <= now
                       /\ outs[d].kind \in {"REAL", "AUTO"} => outs[d].time <= now
  BY DEF IInv, SessionsSound, OutsSound
<1>3. ASSUME req'[w].step = "check", NEW d \in OpenDates
      PROVE  now < Cutoff(d)'
  <2>1. Latest = OpenDates
    BY LatestIsOpen DEF IInv
  <2>2. PICK e \in Latest : e \notin Closing
    BY <1>1, <1>3, <2>1
  <2>3. d = e
    BY <2>1 DEF OneOpen
  <2>4. d \in Dates /\ ins[d] # NoLog
    BY DEF OpenDates
  <2>5. Cutoff(d) \in Nat /\ now \in Nat
    BY <2>4, CutoffType DEF IInv, TypeOK
  <2>6. now < Cutoff(d)
    BY <2>2, <2>3, <2>5 DEF Closing
  <2> QED BY <2>4, <2>6, CutoffStays
<1>4. OpenDates' = OpenDates
  BY <1>1 DEF OpenDates
<1> QED BY <1>1, <1>2, <1>3, <1>4 DEF Current

\* The second look.
LEMMA CheckedCurrent ==
    ASSUME IInv, OneOpen, [Next]_vars, NEW w \in Workers, Checked(w),
           Current(req[w])
    PROVE  Current(req[w])'
<1>1. /\ req[w].step = "check" /\ SameRequest(w)
      /\ ins' = ins /\ outs' = outs
      /\ \/ /\ req'[w].step = "missed" /\ req'[w].date \in Latest
         \/ /\ req'[w].step = "insert" /\ req[w].op = "checkin" /\ Latest = {}
         \/ /\ req'[w].step = "insert" /\ req[w].op = "checkout"
            /\ req'[w].date \in Latest
  BY DEF Checked, At
<1>2. req'[w].op = req[w].op /\ req'[w].at = req[w].at
  BY <1>1 DEF SameRequest
<1>3. Latest = OpenDates /\ OpenDates' = OpenDates
  BY <1>1, LatestIsOpen DEF IInv, OpenDates
<1>4. ASSUME req'[w].step = "insert", req'[w].op = "checkout"
      PROVE  req'[w].at < Cutoff(req[w].date)'
  <2> DEFINE d == req'[w].date
  <2>1. d \in OpenDates
    BY <1>1, <1>2, <1>3, <1>4
  <2>2. req[w].at < Cutoff(d)
    BY <1>1, <1>2, <1>4, <2>1 DEF Current
  <2>3. req'[w].at < Cutoff(d)
    BY <1>2, <2>2
  <2> QED BY <1>1, <2>3 DEF Cutoff, SnapshotCutoff
<1>5. \A d \in Dates : /\ ins'[d].time = ins[d].time /\ outs'[d] = outs[d]
  BY <1>1
<1>6. req'[w].op \in Employee =>
         \A d \in Dates : /\ ins'[d].time <= req'[w].at
                          /\ outs'[d].kind \in {"REAL", "AUTO"}
                               => outs'[d].time <= req'[w].at
  BY <1>2, <1>5 DEF Current
<1>7. (req'[w].step = "insert" /\ req'[w].op = "checkin") => OpenDates' = {}
  BY <1>1, <1>2, <1>3
<1>8. req'[w].step # "check"
  BY <1>1
<1> QED BY <1>4, <1>6, <1>7, <1>8 DEF Current

\* The times of the logs are not later than the request that writes one.
LEMMA TimesStay ==
    ASSUME IInv, [Next]_vars, NEW w \in Workers, ActsAs(w), Current(req[w]),
           req[w].op \in Employee, NEW d \in Dates
    PROVE  /\ ins'[d].time <= req[w].at
           /\ outs'[d].kind \in {"REAL", "AUTO"} => outs'[d].time <= req[w].at
<1>1. /\ ins[d].time <= req[w].at /\ req[w].at \in Nat
      /\ outs[d].kind \in {"REAL", "AUTO"} => outs[d].time <= req[w].at
  BY DEF Current, IInv, TypeOK, Request
<1>2. ins' = ins \/ InsertIn(w)
  BY ActorActs
<1>3. ins'[d] = ins[d] \/ ins'[d].time = req[w].at
  BY <1>2, InsertInEffect DEF IInv
<1>4. outs' = outs \/ AutoClose(w) \/ InsertOut(w) \/ Approve(w)
  BY ActorActs
<1>5. outs'[d] = outs[d] \/ OutInserted(w, d) \/ OutClosed(w, d) \/ OutGiven(w, d)
  BY <1>4, InsertOutEffect, AutoCloseEffect, ApproveEffect DEF IInv
<1>6. OutClosed(w, d) => Cutoff(d) <= req[w].at
  BY DEF IInv, RequestsSound, Sound, OutClosed, At
<1> QED BY <1>1, <1>3, <1>5, <1>6 DEF OutInserted, OutClosed, OutGiven

LEMMA MovedCurrent ==
    ASSUME IInv, OutsSound, OneOpen, [Next]_vars, NEW w \in Workers, ActsAs(w),
           Current(req[w])
    PROVE  Current(req[w])'
<1>1. ASSUME SameRequest(w), req'[w].op \in Employee, NEW d \in Dates
      PROVE  /\ ins'[d].time <= req'[w].at
             /\ outs'[d].kind \in {"REAL", "AUTO"} => outs'[d].time <= req'[w].at
  BY <1>1, TimesStay DEF SameRequest
<1>2. CASE req'[w] = Idle
  BY <1>2, IdleType DEF Current, Employee
<1>3. CASE ClosedAndGoesOn(w)
  BY <1>1, <1>3 DEF ClosedAndGoesOn, SameRequest, Current
<1>4. CASE Flagged(w)
  <2>1. SameRequest(w) /\ req'[w].step \in {"read", "write"}
    BY <1>4 DEF Flagged
  <2> QED BY <1>1, <2>1 DEF Current
<1>5. CASE Resolving(w)
  BY <1>5 DEF Resolving, Current, Employee
<1> QED BY <1>2, <1>3, <1>4, <1>5, RequestMoves, StartedCurrent, CheckedCurrent
        DEF RequestMove

LEMMA CurrentStep ==
    ASSUME IInv, OutsSound, ~raced', Orderly, [Next]_vars
    PROVE  RequestsCurrent'
<1> SUFFICES ASSUME NEW w \in Workers \ overtaken' PROVE Current(req[w])'
  BY DEF RequestsCurrent
<1>1. CASE req'[w] = Idle
  BY <1>1, IdleType DEF Current, Employee
<1>2. CASE req'[w] # Idle
  <2>1. /\ w \notin overtaken
        /\ (ins' = ins /\ outs' = outs) \/ Moves(w)
    BY <1>2, NotOvertaken
  <2>2. Current(req[w]) /\ OneOpen
    BY <2>1 DEF Orderly, RequestsCurrent
  <2>3. CASE Moves(w)
    <3>1. PICK v \in Workers : ActsAs(v)
      BY <2>3, Actors DEF Moves
    <3>2. v = w
      BY <2>3, <3>1, ActorActs DEF Acts, Begins, Moves
    <3> QED BY <2>2, <3>1, <3>2, MovedCurrent
  <2>4. CASE ~Moves(w)
    <3>1. req'[w] = req[w] /\ ins' = ins /\ outs' = outs
      BY <2>1, <2>4 DEF Moves
    <3> QED BY <2>2, <3>1 DEF Current, OpenDates, Cutoff, SnapshotCutoff
  <2> QED BY <2>3, <2>4
<1> QED BY <1>1, <1>2

LEMMA OrderlyStep == IInv /\ OrderlyInv /\ [Next]_vars => OrderlyInv'
<1> SUFFICES ASSUME IInv, OrderlyInv, [Next]_vars PROVE OrderlyInv'
  OBVIOUS
<1>1. OutsSound /\ OutsSound'
  BY OutsStep DEF OrderlyInv
<1>2. ASSUME ~raced' PROVE Orderly'
  <2>1. Orderly
    BY <1>2, RacedStays DEF OrderlyInv
  <2> QED BY <1>1, <1>2, <2>1, CurrentStep, OpenStep, DisjointStep, RealOutStep
          DEF Orderly
<1> QED BY <1>1, <1>2 DEF OrderlyInv

LEMMA OrderlyInit == Init => OrderlyInv
<1> SUFFICES ASSUME Init PROVE OrderlyInv
  OBVIOUS
<1>1. RequestsCurrent
  BY IdleType DEF Init, RequestsCurrent, Current, Employee
<1>2. OpenDates = {} /\ \A d \in Dates : ins[d] = NoLog /\ outs[d] = NoLog
  BY DEF Init, OpenDates
<1> QED BY <1>1, <1>2, NoLogType
        DEF OrderlyInv, Orderly, OutsSound, OneOpen, Disjoint, RealInTime

(***************************************************************************)
(* Whatever the threads do, two sessions are open only after a request that *)
(* another one had overtaken has written a log: cutting requests short,     *)
(* changing the rule between two steps, or reviewing exceptions meanwhile   *)
(* is not enough.                                                           *)
(***************************************************************************)
THEOREM OneSessionAtATime == Spec => []AtMostOneOpenSession
<1>1. OrderlyInv => AtMostOneOpenSession
  BY DEF OrderlyInv, Orderly, OneOpen, AtMostOneOpenSession
<1> QED BY <1>1, OrderlyInit, OrderlyStep, InvInit, InvStep, PTL DEF Spec

(***************************************************************************)
(* No minute is recorded as worked twice before an overtaken request has    *)
(* written a log: a session that began before another has ended when the    *)
(* other begins, unless an administrator gave it its end.                   *)
(***************************************************************************)
THEOREM NoMinuteTwice == Spec => []SessionsDisjoint
<1>1. OrderlyInv => SessionsDisjoint
  BY DEF OrderlyInv, Orderly, Disjoint, SessionsDisjoint
<1> QED BY <1>1, OrderlyInit, OrderlyStep, InvInit, InvStep, PTL DEF Spec

(***************************************************************************)
(* A check-out the employee makes is before the cutoff that would have      *)
(* closed the session, although the cutoff is looked at before the session  *)
(* to end is looked up again; until an overtaken request writes a log.      *)
(***************************************************************************)
THEOREM CheckOutsBeatTheCutoff == Spec => []RealOutBeforeCutoff
<1>1. OrderlyInv => RealOutBeforeCutoff
  BY DEF OrderlyInv, Orderly, RealInTime, RealOutBeforeCutoff
<1> QED BY <1>1, OrderlyInit, OrderlyStep, InvInit, InvStep, PTL DEF Spec

(***************************************************************************)
(* /status enables the check-in button exactly when /checkin would accept   *)
(* the request: the two handlers ask different questions of the database,   *)
(* which have the same answer as long as one session at most is open, and   *)
(* so until an overtaken request writes a log.                              *)
(***************************************************************************)
THEOREM StatusIsTrue == Spec => []StatusTellsTheTruth
<1>1. ASSUME IInv, OrderlyInv, ~raced PROVE can_checkin <=> CheckinAccepted
  <2>1. Today \in Dates
    <3>1. now \in Nat /\ rule \in Rules /\ DayLength - 1 <= now /\ now < MaxTime
      BY <1>1 DEF IInv, TypeOK, ClockInv
    <3> QED BY <3>1, WorkDate DEF Today
  <2>2. Closing \subseteq OpenDates
    BY DEF Closing, Latest
  <2>3. Closing # {} => OpenDates \subseteq Closing
    BY <1>1, <2>2 DEF OrderlyInv, Orderly, OneOpen
  <2>4. outs[Today] # NoLog => ins[Today] # NoLog
    BY <1>1, <2>1 DEF IInv, OutAfterIn
  <2>5. Today \in OpenDates <=> ins[Today] # NoLog /\ outs[Today] = NoLog
    BY <2>1 DEF OpenDates
  <2> QED BY <2>2, <2>3, <2>4, <2>5 DEF can_checkin, CheckinAccepted
<1>2. IInv /\ OrderlyInv => StatusTellsTheTruth
  BY <1>1 DEF StatusTellsTheTruth
<1> QED BY <1>2, OrderlyInit, OrderlyStep, InvInit, InvStep, PTL DEF Spec

---------------------------------------------------------------------------
(* The exceptions of a session. *)

LEMMA RankOf ==
    ASSUME NEW n \in 1..5
    PROVE  Rank(Precedence[n]) = n
<1> DEFINE type == Precedence[n]
<1>1. \A m \in 1..5 : Precedence[m] = type <=> m = n
  BY DEF Precedence
<1> HIDE DEF type
<1>2. (CHOOSE m \in 1..5 : Precedence[m] = type) = n
  BY <1>1
<1> QED BY <1>2 DEF Rank, type

LEMMA Ranks ==
    /\ Rank("FACE_NOT_CAPTURED") = 1 /\ Rank("LARGE_TIME_DEVIATION") = 2
    /\ Rank("SUSPECTED_LOCATION_SPOOF") = 3
    /\ Rank("MISSED_CHECKOUT") = 4 /\ Rank("AUTO_CLOSED") = 5
BY RankOf DEF Precedence

\* What an exception may be replaced by ranks higher.
LEMMA ReplacedByHigher ==
    ASSUME NEW check \in Checks,
           NEW type \in Types, type \in Replaces[check] \ {TypeOf[check]}
    PROVE  /\ Rank(type) <= Rank(TypeOf[check])
           /\ type # "AUTO_CLOSED"
BY Ranks DEF Checks, Types, Replaces, TypeOf

\* A request that changes the type of an exception decides by the row as it is,
\* unless its copy is outdated.
LEMMA TypeGiven ==
    ASSUME IInv, [Next]_vars, NEW d \in Dates, d \notin Overwrites,
           exc[d] # NoException, exc'[d].type # exc[d].type
    PROVE  \E check \in Checks :
              /\ exc'[d].type = TypeOf[check]
              /\ exc[d].type \in Replaces[check] \ {TypeOf[check]}
<1>1. PICK w \in Workers : ExcEnsured(w, d)
  BY ExcStep DEF IInv, ExcEffect, ExcSettled, ExcFlagged
<1>2. PICK check \in Checks : exc'[d] = Ensured(check, req[w].seen, exc[d])
  BY <1>1 DEF ExcEnsured
<1>3. req[w].seen = exc[d]
  BY <1>1 DEF ExcEnsured, Overwrites
<1>4. exc[d] \in Exception
  BY DEF IInv, TypeOK
<1>5. /\ exc[d].type \in Replaces[check] \ {TypeOf[check]}
      /\ exc'[d] = [exc[d] EXCEPT !.type = TypeOf[check]]
  BY <1>2, <1>3 DEF Ensured
<1> QED BY <1>4, <1>5 DEF Exception

LEMMA TypeThere ==
    ASSUME IInv, NEW d \in Dates, exc[d] # NoException
    PROVE  exc[d].type \in Types
BY DEF IInv, TypeOK, Exception, SessionsSound

(***************************************************************************)
(* An exception is never taken over by a type of lower precedence: the      *)
(* handlers look at the row before they write to it, and only one whose     *)
(* copy is outdated when it writes may lower the type.                      *)
(***************************************************************************)
THEOREM HigherTypesStay == Spec => PrecedenceKept
<1>1. IInv /\ [Next]_vars
        => [\A d \in Dates \ Overwrites :
              (exc[d] # NoException /\ exc'[d] # NoException)
                => Rank(exc[d].type) <= Rank(exc'[d].type)]_exc
  <2> SUFFICES ASSUME IInv, [Next]_vars, NEW d \in Dates \ Overwrites,
                      exc[d] # NoException
               PROVE  Rank(exc[d].type) <= Rank(exc'[d].type)
    OBVIOUS
  <2>1. exc[d].type \in Types
    BY TypeThere
  <2>2. Rank(exc[d].type) \in Nat
    BY <2>1, Ranks DEF Types
  <2>3. CASE exc'[d].type = exc[d].type
    BY <2>2, <2>3
  <2>4. CASE exc'[d].type # exc[d].type
    BY <2>1, <2>4, TypeGiven, ReplacedByHigher
  <2> QED BY <2>3, <2>4
<1> QED BY <1>1, InvInit, InvStep, PTL DEF Spec, PrecedenceKept

---------------------------------------------------------------------------
(* Days the system has closed. *)

\* What the request that is going to close a session knows of its exception:
\* whether it was closed about something else, or says AUTO_CLOSED already.
Informed(w) ==
    LET d == req[w].date
        seen == req[w].seen
    IN  At(w, "close") =>
          /\ (seen.closed /\ seen.type # "AUTO_CLOSED") => d \in settled
          /\ seen.type = "AUTO_CLOSED"
               => exc[d].type = "AUTO_CLOSED" \/ d \in overwritten

ReportInv ==
    /\ \A d \in Dates : (exc[d].closed /\ exc[d].type # "AUTO_CLOSED") => d \in settled
    /\ \A w \in Workers : Informed(w)
    /\ AutoClosedIsReported

LEMMA HistoryGrows ==
    ASSUME IInv, ReportInv, [Next]_vars
    PROVE  /\ settled \subseteq settled' /\ overwritten \subseteq overwritten'
           /\ \A d \in Dates : (exc'[d].closed /\ exc'[d].type # "AUTO_CLOSED")
                                 => d \in settled'
           /\ \A d \in Dates : d \in Overwrites => d \in overwritten'
<1>1. CASE UNCHANGED vars
  <2>1. exc' = exc /\ settled' = settled /\ overwritten' = overwritten
    BY <1>1 DEF vars, history
  <2> QED BY <2>1 DEF ReportInv, Overwrites
<1>2. CASE Overlap
  BY <1>2 DEF Overlap
<1> QED BY <1>1, <1>2, HistoryStep

\* The type AUTO_CLOSED is never given up, but for an outdated copy.
LEMMA AutoStays ==
    ASSUME IInv, ReportInv, [Next]_vars, NEW d \in Dates,
           exc[d].type = "AUTO_CLOSED", d \notin overwritten'
    PROVE  exc'[d].type = "AUTO_CLOSED"
<1>1. d \notin Overwrites
  BY HistoryGrows
<1>2. exc[d] # NoException
  BY NoExceptionType
<1>3. exc[d].type \in Types
  BY <1>2, TypeThere
<1>4. ASSUME exc'[d].type # exc[d].type PROVE FALSE
  BY <1>1, <1>2, <1>3, <1>4, TypeGiven, ReplacedByHigher
<1> QED BY <1>4

LEMMA InformedStep ==
    ASSUME IInv, ReportInv, [Next]_vars, NEW w \in Workers
    PROVE  Informed(w)'
<1> SUFFICES ASSUME req'[w].step = "close"
             PROVE  /\ (req'[w].seen.closed /\ req'[w].seen.type # "AUTO_CLOSED")
                         => req'[w].date \in settled'
                    /\ req'[w].seen.type = "AUTO_CLOSED"
                         => \/ exc'[req'[w].date].type = "AUTO_CLOSED"
                            \/ req'[w].date \in overwritten'
  BY DEF Informed, At
<1>1. req'[w].date \in Dates
  BY TypeStep DEF TypeOK, Steps
<1>2. CASE req'[w] = req[w]
  <2>1. /\ (req[w].seen.closed /\ req[w].seen.type # "AUTO_CLOSED")
             => req[w].date \in settled
        /\ req[w].seen.type = "AUTO_CLOSED"
             => exc[req[w].date].type = "AUTO_CLOSED" \/ req[w].date \in overwritten
    BY <1>2 DEF ReportInv, Informed, At
  <2>2. req[w].date \in Dates
    BY <1>1, <1>2
  <2>3. PICK d \in Dates : d = req[w].date
    BY <2>2
  <2>4. exc[d].type = "AUTO_CLOSED" => exc'[d].type = "AUTO_CLOSED" \/ d \in overwritten'
    BY AutoStays
  <2> QED BY <1>2, <2>1, <2>3, <2>4, HistoryGrows
<1>3. CASE req'[w] # req[w]
  <2>1. ActsAs(w)
    <3>1. PICK v \in Workers : ActsAs(v)
      BY <1>3, Actors
    <3>2. v = w
      BY <1>3, <3>1, ActorActs DEF Acts, Begins
    <3> QED BY <3>1, <3>2
  <2>2. Started(w)
    BY <2>1, IdleType, RequestMoves
       DEF RequestMove, ClosedAndGoesOn, Checked, Flagged, Resolving
  <2>3. req'[w].seen = exc[req'[w].date] /\ exc' = exc
    BY <2>2 DEF Started
  <2>4. PICK d \in Dates : d = req'[w].date
    BY <1>1
  <2>5. (exc[d].closed /\ exc[d].type # "AUTO_CLOSED") => d \in settled
    BY DEF ReportInv
  <2> QED BY <2>3, <2>4, <2>5, HistoryGrows
<1> QED BY <1>2, <1>3

\* The commit that closes a session leaves AUTO_CLOSED in its exception.
LEMMA ClosingReports ==
    ASSUME IInv, ReportInv, [Next]_vars, NEW w \in Workers, NEW d \in Dates,
           OutClosed(w, d), d \notin settled', d \notin overwritten'
    PROVE  exc'[d].type = "AUTO_CLOSED"
<1> DEFINE seen == req[w].seen
<1>1. /\ At(w, "close") /\ d = req[w].date
      /\ exc'[d] = Ensured("auto", seen, exc[d])
  BY DEF OutClosed, IInv, TypeOK
<1>2. d \notin settled /\ d \notin overwritten
  BY HistoryGrows
<1>3. /\ (seen.closed /\ seen.type # "AUTO_CLOSED") => d \in settled
      /\ seen.type = "AUTO_CLOSED" => exc[d].type = "AUTO_CLOSED" \/ d \in overwritten
  BY <1>1 DEF ReportInv, Informed
<1>4. seen \in Exception /\ exc[d] \in Exception
  BY DEF IInv, TypeOK, Request
<1>5. seen # NoException => seen.type # "NONE"
  BY <1>1 DEF IInv, RequestsSound, Sound, At
<1> HIDE DEF seen
<1>6. TypeOf["auto"] = "AUTO_CLOSED" /\ Replaces["auto"] = Types
  BY DEF TypeOf, Replaces
<1>7. CASE seen = NoException
  BY <1>1, <1>6, <1>7 DEF Ensured
<1>8. CASE seen # NoException /\ seen.type = "AUTO_CLOSED"
  <2>1. exc'[d] = exc[d]
    BY <1>1, <1>6, <1>8 DEF Ensured
  <2> QED BY <1>2, <1>3, <1>8, <2>1
<1>9. CASE seen # NoException /\ seen.type # "AUTO_CLOSED"
  <2>1. ~seen.closed /\ seen.type \in Types
    BY <1>2, <1>3, <1>4, <1>5, <1>9 DEF Exception
  <2>2. exc'[d] = [exc[d] EXCEPT !.type = "AUTO_CLOSED"]
    BY <1>1, <1>6, <1>9, <2>1 DEF Ensured
  <2> QED BY <1>4, <2>2 DEF Exception
<1> QED BY <1>7, <1>8, <1>9

LEMMA ReportedStep ==
    ASSUME IInv, ReportInv, [Next]_vars
    PROVE  AutoClosedIsReported'
<1> SUFFICES ASSUME NEW d \in Dates, d \notin settled', d \notin overwritten',
                    outs'[d].kind = "AUTO"
             PROVE  exc'[d].type = "AUTO_CLOSED"
  BY DEF AutoClosedIsReported
<1>1. OutEffect(d)
  BY OutStep DEF IInv
<1>2. CASE outs'[d] = outs[d]
  <2>1. d \notin settled /\ d \notin overwritten
    BY HistoryGrows
  <2>2. exc[d].type = "AUTO_CLOSED"
    BY <1>2, <2>1 DEF ReportInv, AutoClosedIsReported
  <2> QED BY <2>2, AutoStays
<1>3. ASSUME NEW w \in Workers, OutClosed(w, d)
      PROVE  exc'[d].type = "AUTO_CLOSED"
  BY <1>3, ClosingReports
<1> QED BY <1>1, <1>2, <1>3 DEF OutEffect, OutInserted, OutGiven

(***************************************************************************)
(* A day the system has closed is reported as such, however requests        *)
(* interleave: OUT log and exception are one transaction, and AUTO_CLOSED   *)
(* takes precedence.  What remains are the sessions whose exception had     *)
(* been closed before about something else (the code leaves it alone), and  *)
(* the requests whose copy of the row is outdated.                          *)
(***************************************************************************)
THEOREM AutoClosedDaysAreReported == Spec => []AutoClosedIsReported
<1>1. Init => ReportInv
  <2> SUFFICES ASSUME Init PROVE ReportInv
    OBVIOUS
  <2>1. \A w \in Workers : req[w].step = "done"
    BY IdleType DEF Init
  <2>2. \A d \in Dates : outs[d].kind = "NONE" /\ ~exc[d].closed
    BY NoLogType DEF Init, NoException
  <2> QED BY <2>1, <2>2 DEF ReportInv, Informed, At, AutoClosedIsReported
<1>2. IInv /\ ReportInv /\ [Next]_vars => ReportInv'
  <2> SUFFICES ASSUME IInv, ReportInv, [Next]_vars PROVE ReportInv'
    OBVIOUS
  <2>1. \A d \in Dates : (exc'[d].closed /\ exc'[d].type # "AUTO_CLOSED")
                           => d \in settled'
    BY HistoryGrows
  <2>2. \A w \in Workers : Informed(w)'
    BY InformedStep
  <2> QED BY <2>1, <2>2, ReportedStep DEF ReportInv
<1>3. ReportInv => AutoClosedIsReported
  BY DEF ReportInv
<1> QED BY <1>1, <1>2, <1>3, InvInit, InvStep, PTL DEF Spec

---------------------------------------------------------------------------
(* What a log is flagged for. *)

\* Some request is about to ensure an exception of work date d.
Pursued(d) == \E w \in Workers : req[w].step \in {"read", "write"} /\ req[w].date = d

\* A log out of range or at risk has an exception, or the request that wrote it
\* goes on to write one.
SuspectPursued ==
    \A d \in Dates :
        (ins[d].suspect \/ outs[d].suspect) /\ exc[d] = NoException => Pursued(d)

\* The transactions that follow a log lead to the exception, or find it there.
LEMMA PursuitGoesOn ==
    ASSUME IInv, ~MayFail, [Next]_vars, NEW w \in Workers, NEW d \in Dates,
           req[w].step \in {"read", "write"}, req[w].date = d,
           exc[d] = NoException, exc'[d] = NoException
    PROVE  req'[w].step \in {"read", "write"} /\ req'[w].date = d
<1>1. CASE req'[w] = req[w]
  BY <1>1
<1>2. CASE req'[w] # req[w]
  <2>1. ActsAs(w)
    <3>1. PICK v \in Workers : ActsAs(v)
      BY <1>2, Actors
    <3>2. v = w
      BY <1>2, <3>1, ActorActs DEF Acts, Begins
    <3> QED BY <3>1, <3>2
  <2>2. req[w] # Idle
    BY IdleType
  <2>3. ReadException(w) \/ WriteException(w) \/ Conflict(w)
    BY <2>1, <2>2 DEF ActsAs, Start, BeginApprove, Fail, Proceed, AutoClose, Check,
                      ReportMissed, InsertIn, InsertOut, Block, Approve, At
  <2>4. ~Conflict(w)
    BY DEF Conflict, Taken
  <2>5. ~WriteException(w)
    <3> SUFFICES ASSUME WriteException(w) PROVE FALSE
      OBVIOUS
    <3>1. Sound(req[w]) /\ req[w] \in Request /\ req[w].step = "write"
      BY DEF IInv, RequestsSound, TypeOK, WriteException, At
    <3>2. Head(req[w].todo) \in Checks
      BY <3>1, TodoType DEF Sound, Request
    <3>3. exc'[d] = Ensured(Head(req[w].todo), req[w].seen, exc[d])
      BY DEF WriteException, Ensure, IInv, TypeOK
    <3>4. req[w].seen = NoException /\ exc[d] \in Exception
      BY <3>1 DEF Sound, IInv, TypeOK
    <3> QED BY <3>2, <3>3, <3>4, EnsuredType
  <2>6. ReadException(w)
    BY <2>3, <2>4, <2>5
  <2>7. "write" \in Steps /\ GoTo(w, "write", d)
    BY <2>6 DEF ReadException, Steps
  <2> QED BY <2>7, GoesOn DEF IInv
<1> QED BY <1>1, <1>2

\* A log that is suspect leaves the request that inserts it on the way to the
\* exception; the one that the system or an administrator makes of it has one.
LEMMA SuspectBegins ==
    ASSUME IInv, [Next]_vars, NEW d \in Dates, exc'[d] = NoException,
           ~ins[d].suspect, ~outs[d].suspect, ins'[d].suspect \/ outs'[d].suspect
    PROVE  Pursued(d)'
<1>1. exc[d] = NoException
  BY RowsKept DEF IInv, Kept
<1>2. ASSUME NEW w \in Workers, NEW todo \in Outcomes, Suspect(todo), Flag(w, todo),
             req[w].date = d
      PROVE  Pursued(d)'
  <2>1. todo # <<>> /\ todo \in Todos
    BY <1>2, OutcomesAssumption DEF Suspect
  <2>2. req' = [req EXCEPT ![w].step = "read", ![w].todo = todo]
    BY <1>2, <2>1 DEF Flag
  <2>3. req'[w].step = "read" /\ req'[w].date = req[w].date
    BY <2>2 DEF IInv, TypeOK, Request
  <2> QED BY <1>2, <2>3 DEF Pursued
<1>3. ASSUME NEW w \in Workers, InsertIn(w), ins'[d].suspect PROVE Pursued(d)'
  <2>1. PICK todo \in Outcomes :
          /\ ins' = [ins EXCEPT ![req[w].date] =
                       [kind |-> "REAL", time |-> req[w].at,
                        suspect |-> Suspect(todo), rule |-> req[w].rule]]
          /\ Flag(w, todo)
    BY <1>3 DEF InsertIn
  <2>2. d = req[w].date
    BY <1>3, <2>1 DEF IInv, TypeOK
  <2>3. Suspect(todo)
    BY <1>3, <2>1, <2>2 DEF IInv, TypeOK
  <2> QED BY <1>2, <2>1, <2>2, <2>3
<1>4. ASSUME NEW w \in Workers, InsertOut(w), outs'[d].suspect PROVE Pursued(d)'
  <2>1. PICK todo \in Outcomes :
          /\ outs' = [outs EXCEPT ![req[w].date] =
                        [kind |-> "REAL", time |-> req[w].at,
                         suspect |-> Suspect(todo), rule |-> ins[req[w].date].rule]]
          /\ Flag(w, todo)
    BY <1>4 DEF InsertOut
  <2>2. d = req[w].date
    BY <1>4, <2>1 DEF IInv, TypeOK
  <2>3. Suspect(todo)
    BY <1>4, <2>1, <2>2 DEF IInv, TypeOK
  <2> QED BY <1>2, <2>1, <2>2, <2>3
<1>5. ASSUME NEW w \in Workers, AutoClose(w), outs'[d] # outs[d] PROVE FALSE
  <2>1. d = req[w].date
    BY <1>5 DEF AutoClose, IInv, TypeOK
  <2>2. exc'[d] = Ensured("auto", req[w].seen, exc[d]) /\ exc[d] \in Exception
    BY <1>5, <2>1 DEF AutoClose, Ensure, IInv, TypeOK
  <2>3. req[w].seen = NoException
    BY <1>1, <1>5, <2>1 DEF IInv, RequestsSound, Sound, AutoClose, At
  <2>4. "auto" \in Checks
    BY DEF Checks
  <2> QED BY <1>1, <2>2, <2>3, <2>4, EnsuredType
<1>6. ASSUME NEW w \in Workers, Approve(w), outs'[d].suspect PROVE FALSE
  <2>1. d = req[w].date /\ At(w, "resolve")
    BY <1>6 DEF Approve, IInv, TypeOK
  <2>2. req[w].source # "IN"
    BY <1>1, <2>1 DEF At, IInv, RequestsSound, Sound
  <2>3. req[w].out # NoLog
    BY <2>1, <2>2 DEF At, IInv, TypeOK, Request, RequestsSound, Sound
  <2>4. PICK t \in AdminTimes :
          outs' = [outs EXCEPT ![d] = [outs[d] EXCEPT !.kind = "ADMIN", !.time = t]]
    BY <1>6, <2>1, <2>3 DEF Approve
  <2>5. outs'[d].suspect = outs[d].suspect
    BY <2>1, <2>4 DEF IInv, TypeOK, Log
  <2> QED BY <1>6, <2>5
<1> QED BY <1>3, <1>4, <1>5, <1>6, InsWritten, OutsWritten

LEMMA PursuedStep ==
    ASSUME ~MayFail, IInv, SuspectPursued, [Next]_vars
    PROVE  SuspectPursued'
<1> SUFFICES ASSUME NEW d \in Dates, ins'[d].suspect \/ outs'[d].suspect,
                    exc'[d] = NoException
             PROVE  Pursued(d)'
  BY DEF SuspectPursued
<1>1. exc[d] = NoException
  BY RowsKept DEF IInv, Kept
<1>2. CASE ins[d].suspect \/ outs[d].suspect
  BY <1>1, <1>2, PursuitGoesOn DEF SuspectPursued, Pursued
<1> QED BY <1>2, SuspectBegins

(***************************************************************************)
(* A log out of range or at risk has an exception, or the request that      *)
(* wrote it is still on the way to one, by any number of threads, whatever  *)
(* an administrator does in between.  It is the safety part of              *)
(* SuspectIsFlagged, and like it asks that no request is cut short; that    *)
(* the request gets there is its fairness.                                  *)
(***************************************************************************)
THEOREM SuspectIsPursued ==
    ASSUME ~MayFail
    PROVE  Spec => []SuspectPursued
<1>1. Init => SuspectPursued
  BY DEF Init, SuspectPursued, NoLog
<1>2. IInv /\ SuspectPursued /\ [Next]_vars => SuspectPursued'
  BY PursuedStep
<1> QED BY <1>1, <1>2, InvInit, InvStep, PTL DEF Spec
===========================================================================
