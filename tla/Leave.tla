-------------------------------- MODULE Leave --------------------------------
(***************************************************************************)
(* Leave requests (api/leave.py): an employee asks, an administrator       *)
(* enters, approves or rejects.  The days asked for are compared with the  *)
(* other requests by a query, a decision with the status of the row as     *)
(* loaded; the row is written later, and nothing in the tables backs       *)
(* either check.  A push about the decision follows the commit.            *)
(***************************************************************************)
EXTENDS Naturals, FiniteSets, FiniteSetsExt

CONSTANTS Employees,        \* employees not deleted
          Workers,          \* threads serving requests that others interrupt
          Quota,            \* annual_leave_days, None when unlimited
          PAST_GRACE_DAYS,  \* how long ago a leave may begin when asked for
          LastDay,          \* bound: days are 1..LastDay
          MaxRequests,      \* bound: rows of leave_requests
          None              \* SQL NULL, and no row

ASSUME LeaveAssumption == /\ PAST_GRACE_DAYS \in Nat
                          /\ LastDay \in Nat \ {0}
                          /\ MaxRequests \in Nat
                          /\ Quota \in Nat \cup {None}

VARIABLES leave,  \* leave[i] : the row with id i, or None
          today,  \* the date in Viet Nam
          req,    \* req[w] : the write that thread w has checked, or None
          told,   \* told[i] : the pushes about i that were sent
          raced   \* rows written by a request that another had overtaken

leaveVars == <<leave, today, req, told, raced>>

---------------------------------------------------------------------------
Days == 1..LastDay
Ids  == 1..MaxRequests

LeaveRow == [employee : Employees, type : {"PAID", "UNPAID"}, start : Days, end : Days,
             status : {"PENDING", "APPROVED", "REJECTED"}]

ASSUME NoneAssumption == None \notin Nat \cup LeaveRow

\* check_date_order
Periods == {p \in Days \X Days : p[1] <= p[2]}

Present == {i \in Ids : leave[i] # None}

Covers(r, d) == r.start <= d /\ d <= r.end

Live(i) == i \in Present /\ leave[i].status \in {"PENDING", "APPROVED"}

\* Mutant: a request that is not decided yet is forgotten.
OverlapsApproved(e, p) ==
    \E i \in Present : /\ leave[i].employee = e
                       /\ leave[i].status = "APPROVED"
                       /\ leave[i].start <= p[2]
                       /\ leave[i].end >= p[1]

Overlaps(e, p) ==
    \E i \in Present : /\ leave[i].employee = e
                       /\ Live(i)
                       /\ leave[i].start <= p[2]
                       /\ leave[i].end >= p[1]

---------------------------------------------------------------------------
(* Requests: the row to write, its id, None when it is to be inserted, the *)
(* push that follows, and whether no other request has committed since.    *)

Write(i, row, push) == [id |-> i, row |-> row, push |-> push, fresh |-> TRUE]

Asked(e, p, type, status) ==
    [employee |-> e, type |-> type, start |-> p[1], end |-> p[2], status |-> status]

CreateLeaveRequest(e) ==
    {Write(None, Asked(e, p, t, "PENDING"), None) :
       p \in {x \in Periods : x[1] + PAST_GRACE_DAYS >= today /\ ~Overlaps(e, x)},
       t \in {"PAID", "UNPAID"}}

AdminCreate(e) ==
    {Write(None, Asked(e, p, t, s), IF s = "APPROVED" THEN "admin_created" ELSE None) :
       p \in {x \in Periods : ~Overlaps(e, x)},
       t \in {"PAID", "UNPAID"}, s \in {"PENDING", "APPROVED"}}

\* Mutant: whatever was decided before.
ApproveAnyTime(i) ==
    {Write(i, [leave[i] EXCEPT !.status = "APPROVED"], "approved")}

Approve(i) ==
    IF leave[i].status # "PENDING" THEN {}
    ELSE {Write(i, [leave[i] EXCEPT !.status = "APPROVED"], "approved")}

Reject(i) ==
    IF leave[i].status # "PENDING" THEN {}
    ELSE {Write(i, [leave[i] EXCEPT !.status = "REJECTED"], "rejected")}

\* The writes that pass their checks on the table as it is.
Accepted == (UNION {CreateLeaveRequest(e) \cup AdminCreate(e) : e \in Employees})
       \cup (UNION {Approve(i) \cup Reject(i) : i \in Present})

\* The push that follows the commit, to an employee who has a device.
Pushed(i, r) == IF r.push = None THEN told ELSE [told EXCEPT ![i] = @ \cup {r.push}]

Apply(r) ==
    \E i \in Ids :
        /\ IF r.id = None THEN leave[i] = None /\ Present = 1..(i - 1) ELSE i = r.id
        /\ leave' = [leave EXCEPT ![i] = r.row]
        /\ raced' = (IF r.fresh THEN raced ELSE raced \cup {i})
        /\ told' = Pushed(i, r)

\* What the requests in flight have checked may hold no longer.
Overtaken(w) == [x \in Workers |->
                   IF x = w \/ req[x] = None THEN None
                   ELSE [req[x] EXCEPT !.fresh = FALSE]]

---------------------------------------------------------------------------
LeaveInit == /\ leave = [i \in Ids |-> None]
             /\ today = 1
             /\ req = [w \in Workers |-> None]
             /\ told = [i \in Ids |-> {}]
             /\ raced = {}

Load(w) == /\ req[w] = None
           /\ \E r \in Accepted : req' = [req EXCEPT ![w] = r]
           /\ UNCHANGED <<leave, today, told, raced>>

Commit(w) == /\ req[w] # None
             /\ Apply(req[w])
             /\ req' = Overtaken(w)
             /\ UNCHANGED today

Fail(w) == /\ req[w] # None
           /\ req' = [req EXCEPT ![w] = None]
           /\ UNCHANGED <<leave, today, told, raced>>

\* A request that no other one interrupts.
Serve == /\ \E r \in Accepted : Apply(r)
         /\ req' = Overtaken(None)
         /\ UNCHANGED today

Midnight == /\ today < LastDay
            /\ today' = today + 1
            /\ UNCHANGED <<leave, req, told, raced>>

LeaveNext == \/ Serve
             \/ Midnight
             \/ \E w \in Workers : Load(w) \/ Commit(w) \/ Fail(w)

LeaveSpec == LeaveInit /\ [][LeaveNext]_leaveVars

---------------------------------------------------------------------------
(* Balance: compute_leave_balance, for a year that begins on day first and *)
(* ends on day last.                                                       *)

Earlier(a, b) == IF a < b THEN a ELSE b
Later(a, b)   == IF a < b THEN b ELSE a

\* Mutant: the leave is counted in the year it began.
DaysFromStart(r, first, last) == r.end - Later(r.start, first) + 1

DaysWithin(r, first, last) == Earlier(r.end, last) - Later(r.start, first) + 1

PaidRows(e, status, first, last) ==
    {i \in Present : /\ leave[i].employee = e
                     /\ leave[i].type = "PAID"
                     /\ leave[i].status = status
                     /\ leave[i].start <= last
                     /\ leave[i].end >= first}

PaidDays(e, status, first, last) ==
    MapThenSumSet(LAMBDA i : DaysWithin(leave[i], first, last),
                  PaidRows(e, status, first, last))

LeaveBalance(e, first, last) ==
    LET used == PaidDays(e, "APPROVED", first, last)
    IN  [days_used      |-> used,
         days_pending   |-> PaidDays(e, "PENDING", first, last),
         days_remaining |-> IF Quota = None THEN None
                            ELSE IF used > Quota THEN 0 ELSE Quota - used]

---------------------------------------------------------------------------
(* Properties. *)

\* Two leaves of an employee that are asked for or granted have no day in
\* common, unless one of them was written by a request that another overtook,
\* when it was inserted or when it was decided.
NoDayTwice ==
    \A i, j \in Present \ raced :
        i # j /\ Live(i) /\ Live(j) /\ leave[i].employee = leave[j].employee
            => \A d \in Days : ~(Covers(leave[i], d) /\ Covers(leave[j], d))

\* The employee is told of one decision, the one that stands, unless two
\* administrators decided the request at the same time.
ToldWhatStands ==
    \A i \in Present \ raced :
        /\ told[i] \cap {"approved", "admin_created"} # {} => leave[i].status = "APPROVED"
        /\ "rejected" \in told[i] => leave[i].status = "REJECTED"

\* The days of a balance, added up leave by leave, are the days of that year on
\* which the employee has paid leave, asked for or granted: no day is lost or
\* counted twice at the turn of the year.
BalanceCountsDays ==
    \A e \in Employees, p \in Periods :
        raced = {} =>
            LET balance == LeaveBalance(e, p[1], p[2])
            IN  balance.days_used + balance.days_pending
                    = Cardinality({d \in p[1]..p[2] :
                          \E i \in Present : /\ leave[i].employee = e
                                             /\ leave[i].type = "PAID"
                                             /\ Live(i)
                                             /\ Covers(leave[i], d)})
=============================================================================
