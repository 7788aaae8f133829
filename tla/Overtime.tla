------------------------------ MODULE Overtime ------------------------------
(***************************************************************************)
(* Overtime of one employee (services/overtime_service.py, api/overtime.py)*)
(* A check-out after the end of the shift creates a PENDING record, in a   *)
(* transaction after the one of its log; administrators approve, reject    *)
(* and edit records, one by one or in bulk; the approval of an attendance  *)
(* exception rewrites the check-out log and may decide the overtime in the *)
(* same transaction.  Records are loaded without a lock; a commit updates  *)
(* the columns whose value the handler changed.                            *)
(***************************************************************************)
EXTENDS Integers

CONSTANTS Dates,           \* work dates
          Workers,         \* threads serving requests
          Null,            \* SQL NULL, and no row
          Overtimes,       \* minutes of overtime a check-out may amount to
          Minutes,         \* minutes an administrator may approve
          MinimumMinutes,  \* overtime_minimum_minutes
          Mailed           \* the employee has a user with an e-mail

ASSUME MinutesAssumption == /\ Null \notin Nat
                            /\ Overtimes \subseteq Nat
                            /\ Minutes \subseteq Nat
                            /\ MinimumMinutes \in Nat \ {0}
ASSUME MailedAssumption  == Mailed \in BOOLEAN

VARIABLES enabled,  \* overtime_enabled of the active rule
          log,      \* log[d] : overtime by the OUT log of d, or Null
          rec,      \* rec[d] : the overtime record of d
          audit,    \* audit[d] : decisions in the audit trail of rec[d]
          told,     \* dates whose approval mail is in the notifications
          asked,    \* dates an exception was approved for with overtime due
          req       \* req[w] : the request thread w is serving

vars == <<enabled, log, rec, audit, told, asked, req>>

---------------------------------------------------------------------------
Decided  == {"APPROVED", "REJECTED"}
Statuses == Decided \cup {"NONE", "PENDING"}

\* (employee, work_date) is UNIQUE; records are never deleted.
Record   == [status : Statuses, raw : Nat, minutes : Nat \cup {Null}]
NoRecord == [status |-> "NONE", raw |-> 0, minutes |-> Null]

Entry == [to : Decided, minutes : Nat]

\* seen : the record as loaded, or NoRecord of the others; new : what the
\* handler makes of it; dates : the records it touches.  out : the OUT log as
\* loaded; time : what it becomes; due : overtime is part of the approval.
Request == [op : {"idle", "auto", "decide", "exception"},
            dates : SUBSET Dates, seen : [Dates -> Record],
            new : [Dates -> Record], date : Dates \cup {Null},
            out : Nat \cup {Null}, time : Nat \cup {Null}, due : BOOLEAN]

Nothing == [d \in Dates |-> NoRecord]

Idle == [op |-> "idle", dates |-> {}, seen |-> Nothing, new |-> Nothing,
         date |-> Null, out |-> Null, time |-> Null, due |-> FALSE]

\* The report pays approved_minutes, or 0 for NULL, of APPROVED records.
payable(d) == IF rec[d].status = "APPROVED" /\ rec[d].minutes # Null
              THEN rec[d].minutes ELSE 0

round_up_to_30(m) == ((m + 29) \div 30) * 30

---------------------------------------------------------------------------
Init == /\ enabled \in BOOLEAN
        /\ log = [d \in Dates |-> Null]
        /\ rec = [d \in Dates |-> NoRecord]
        /\ audit = [d \in Dates |-> {}]
        /\ told = {}
        /\ asked = {}
        /\ req = [w \in Workers |-> Idle]

SwitchOvertime == /\ enabled' = ~enabled
                  /\ UNCHANGED <<log, rec, audit, told, asked, req>>

\* Auto-close at the cutoff: an OUT log, and no overtime record.
SystemCheckOut(d) == /\ log[d] = Null
                     /\ \E o \in Overtimes : log' = [log EXCEPT ![d] = o]
                     /\ UNCHANGED <<enabled, rec, audit, told, asked, req>>

\* Mutant: the overtime is computed before the log is stored.
CheckOutUnstored(w, d) ==
    /\ req[w] = Idle
    /\ log[d] = Null
    /\ \E o \in Overtimes :
         req' = [req EXCEPT ![w] = [Idle EXCEPT !.op = "auto", !.date = d,
                                                !.time = o]]
    /\ UNCHANGED <<enabled, log, rec, audit, told, asked>>

CheckOut(w, d) ==
    /\ req[w] = Idle
    /\ log[d] = Null
    /\ \E o \in Overtimes :
         /\ log' = [log EXCEPT ![d] = o]
         /\ req' = [req EXCEPT ![w] = [Idle EXCEPT !.op = "auto", !.date = d,
                                                   !.time = o]]
    /\ UNCHANGED <<enabled, rec, audit, told, asked>>

\* Mutant: an existing record does not stop the insertion.
AnyDate(d) == d \in Dates

Insertable(d) == rec[d].status = "NONE"

\* The log may have been reloaded.  An insertion that meets the record of
\* another request is rolled back: the same as finding it.
AutoCreate(w) ==
    LET d == req[w].date
    IN  /\ req[w].op = "auto"
        /\ \E raw \in {req[w].time, log[d]} \ {Null} :
             IF enabled /\ raw >= MinimumMinutes /\ Insertable(d)
             THEN rec' = [rec EXCEPT ![d] = [NoRecord EXCEPT
                                               !.status = "PENDING",
                                               !.raw = raw]]
             ELSE UNCHANGED rec
        /\ req' = [req EXCEPT ![w] = Idle]
        /\ UNCHANGED <<enabled, log, audit, told, asked>>

---------------------------------------------------------------------------
(* Decisions of an administrator. *)

\* Mutant: the approval leaves the minutes unset.
StatusOnly(d, m) == [rec[d] EXCEPT !.status = "APPROVED"]

Approved(d, m) == [rec[d] EXCEPT !.status = "APPROVED", !.minutes = m]

Rejected(d) == [rec[d] EXCEPT !.status = "REJECTED", !.minutes = 0]

\* new[d] is what the handler makes of the record of d, for d in S.
Begin(w, S, new) ==
    /\ req[w] = Idle
    /\ S # {}
    /\ req' = [req EXCEPT ![w] =
                 [Idle EXCEPT !.op = "decide", !.dates = S,
                   !.seen = [d \in Dates |-> IF d \in S THEN rec[d] ELSE NoRecord],
                   !.new  = [d \in Dates |-> IF d \in S THEN new[d] ELSE NoRecord]]]
    /\ UNCHANGED <<enabled, log, rec, audit, told, asked>>

\* More than 30 minutes from the raw ones takes a note: it has one.
BeginApprove(w, d) ==
    /\ rec[d].status = "PENDING"
    /\ \E m \in Minutes : Begin(w, {d}, [e \in {d} |-> Approved(e, m)])

BeginReject(w, d) ==
    /\ rec[d].status = "PENDING"
    /\ Begin(w, {d}, [e \in {d} |-> Rejected(e)])

BeginEdit(w, d) ==
    /\ rec[d].status = "APPROVED"
    /\ \E m \in Minutes : Begin(w, {d}, [e \in {d} |-> Approved(e, m)])

\* Records that are not PENDING are skipped.
BeginBulk(w, S) ==
    LET pending == {d \in S : rec[d].status = "PENDING"}
    IN  \/ Begin(w, pending, [d \in pending |-> Approved(d, rec[d].raw)])
        \/ Begin(w, pending,
                 [d \in pending |-> Approved(d, round_up_to_30(rec[d].raw))])

\* The ORM writes the columns in which new and seen differ.
Written(seen, new, row) ==
    [c \in DOMAIN row |-> IF new[c] = seen[c] THEN row[c] ELSE new[c]]

\* Mutant: the audit trail gets the minutes worked, not those approved.
RawEntry(new) == [to |-> new.status, minutes |-> new.raw]

AuditEntry(new) == [to |-> new.status, minutes |-> new.minutes]

Store(r) ==
    /\ rec' = [d \in Dates |-> IF d \in r.dates
                               THEN Written(r.seen[d], r.new[d], rec[d])
                               ELSE rec[d]]
    /\ audit' = [d \in Dates |-> IF d \in r.dates
                                 THEN audit[d] \cup {AuditEntry(r.new[d])}
                                 ELSE audit[d]]

CommitDecision(w) ==
    /\ req[w].op = "decide"
    /\ Store(req[w])
    /\ req' = [req EXCEPT ![w] = Idle]
    /\ UNCHANGED <<enabled, log, told, asked>>

---------------------------------------------------------------------------
(* The approval of an AUTO_CLOSED or MISSED_CHECKOUT exception. *)

\* Without a check-out time nothing but the mail concerns this module.
ApprovePlain(d) == /\ Mailed
                   /\ told' = told \cup {d}
                   /\ UNCHANGED <<enabled, log, rec, audit, asked, req>>

\* The session does not flush before a query: the new OUT log is found only
\* if the insertion of the notification has flushed it.
OutLogFound(d) == log[d] # Null \/ (Mailed /\ d \notin told)

BeginException(w, d) ==
    /\ req[w] = Idle
    /\ \E o \in Overtimes, m \in Minutes \cup {Null} :
         LET due == m # Null /\ enabled /\ o > 0
             S   == IF due /\ OutLogFound(d) THEN {d} ELSE {}
             new == [status |-> "APPROVED", raw |-> o, minutes |-> m]
         IN  req' = [req EXCEPT ![w] =
               [Idle EXCEPT !.op = "exception", !.date = d, !.due = due,
                 !.out = log[d], !.time = o, !.dates = S,
                 !.seen = [e \in Dates |-> IF e \in S THEN rec[e] ELSE NoRecord],
                 !.new  = [e \in Dates |-> IF e \in S THEN new ELSE NoRecord]]]
    /\ UNCHANGED <<enabled, log, rec, audit, told, asked>>

\* An insertion that meets a row of another request fails: that is Fail.
CommitException(w) ==
    LET r == req[w]
        d == r.date
    IN  /\ r.op = "exception"
        /\ r.out = Null => log[d] = Null
        /\ d \in r.dates /\ r.seen[d] = NoRecord => Insertable(d)
        /\ log' = IF r.time = r.out THEN log ELSE [log EXCEPT ![d] = r.time]
        /\ Store(r)
        /\ told' = IF Mailed THEN told \cup {d} ELSE told
        /\ asked' = IF r.due THEN asked \cup {d} ELSE asked
        /\ req' = [req EXCEPT ![w] = Idle]
        /\ UNCHANGED enabled

Fail(w) == /\ req[w] # Idle
           /\ req' = [req EXCEPT ![w] = Idle]
           /\ UNCHANGED <<enabled, log, rec, audit, told, asked>>

---------------------------------------------------------------------------
Next ==
    \/ SwitchOvertime
    \/ \E d \in Dates : SystemCheckOut(d) \/ ApprovePlain(d)
    \/ \E w \in Workers, d \in Dates :
         \/ CheckOut(w, d) \/ BeginApprove(w, d) \/ BeginReject(w, d)
         \/ BeginEdit(w, d) \/ BeginException(w, d)
    \/ \E w \in Workers, S \in SUBSET Dates : BeginBulk(w, S)
    \/ \E w \in Workers :
         AutoCreate(w) \/ CommitDecision(w) \/ CommitException(w) \/ Fail(w)

Spec == Init /\ [][Next]_vars

---------------------------------------------------------------------------
(* Properties. *)

TypeOK == /\ enabled \in BOOLEAN
          /\ log \in [Dates -> Nat \cup {Null}]
          /\ rec \in [Dates -> Record]
          /\ audit \in [Dates -> SUBSET Entry]
          /\ told \subseteq Dates
          /\ asked \subseteq Dates
          /\ req \in [Workers -> Request]

\* What the payroll pays has been approved by somebody: however stale
\* decisions overwrite each other column by column, the minutes paid are
\* those of an entry of the audit trail that approved them.
PaidMinutesAreAudited ==
    \A d \in Dates : payable(d) > 0
        => \E e \in audit[d] : e.to = "APPROVED" /\ e.minutes = payable(d)

\* A record nobody has decided stays so in its audit trail and the other way
\* round: no check-out, late or repeated, puts a decided day back to PENDING.
PendingIsUndecided ==
    \A d \in Dates : rec[d].status \in Decided <=> audit[d] # {}

\* Overtime rests on a check-out: a record never survives the check-out log
\* it was computed from, although the two may be committed separately.
OvertimeHasCheckout ==
    \A d \in Dates : rec[d].status # "NONE" => log[d] # Null

\* An exception approved with overtime minutes has an overtime record ("If
\* set, an OT record is created (or updated) with status=APPROVED").
AskedOvertimeIsRecorded ==
    \A d \in asked : rec[d].status \in Decided
=============================================================================
