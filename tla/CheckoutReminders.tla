-------------------------- MODULE CheckoutReminders --------------------------
(***************************************************************************)
(* The reminders to check out (scheduler.py).  A thread of the server      *)
(* wakes every few minutes, queries who is checked in, and pushes to those *)
(* whose shift is about to end.  Who has been handled is remembered by the *)
(* process only; people check in and out while the thread goes through its *)
(* rows, and the server may stop at any point.                             *)
(***************************************************************************)
EXTENDS Integers

CONSTANTS Employees,  \* active employees with a device
          ShiftOf,    \* ShiftOf[e] : snapshot_start_time and snapshot_end_time
          DayLength,  \* ticks of a day
          Cutoff,     \* ticks after midnight that belong to the work date before
          Window,     \* REMINDER_WINDOW_MINUTES, in ticks
          Poll,       \* POLL_INTERVAL_SECONDS, in ticks
          Slack,      \* how long the thread may take for a round
          MaxTime,    \* bound of the clock
          MaxStops    \* bound: how often the server stops

ASSUME RemindersAssumption ==
    /\ DayLength \in Nat \ {0} /\ Cutoff \in 0..(DayLength - 1)
    /\ Window \in Nat /\ Poll \in Nat \ {0} /\ Slack \in Nat
    /\ MaxTime \in Nat /\ MaxStops \in Nat
    /\ \A e \in Employees : ShiftOf[e].start \in 0..(DayLength - 1)
                            /\ ShiftOf[e].end \in 0..(DayLength - 1)

\* 20 minutes, 5 minutes, and twice what the pushes of a round take: those before
\* the window delay the round in it, and that one is to end before the shift does.
ASSUME WindowAssumption == Poll + 2 * Slack <= Window

VARIABLES now,        \* clock, in ticks since a midnight in Viet Nam
          session,    \* session[k] : logs of the work date k[2] of employee k[1]
          up,         \* the server runs
          round,      \* what the thread is doing
          sent,       \* _sent_reminders
          got,        \* got[k] : pushes delivered since the server started
          disturbed,  \* ghost: sessions whose window a fault has hit
          stops       \* how often the server has stopped

vars == <<now, session, up, round, sent, got, disturbed, stops>>

---------------------------------------------------------------------------
Dates == 0..(MaxTime \div DayLength)
Keys  == Employees \X Dates

today == now \div DayLength

\* compute_work_date
WorkDate == (now - Cutoff) \div DayLength

Open(k) == session[k] = "in"

\* Night shift (end < start): the end falls on the next calendar day.
ShiftEnd(k) ==
    LET shift == ShiftOf[k[1]]
    IN  k[2] * DayLength + shift.end + (IF shift.end < shift.start THEN DayLength ELSE 0)

InWindow(k, t) == t <= ShiftEnd(k) /\ ShiftEnd(k) <= t + Window

\* at : when the thread wakes, or the time the round goes by; out : employees the
\* first query found checked out; due : sessions to push about.
\* Mutant: the next round is when the window has gone by.
AsleepForWindow(t) ==
    [step |-> "asleep", at |-> t + Window + Poll, out |-> {}, due |-> {}]

Asleep(t) == [step |-> "asleep", at |-> t, out |-> {}, due |-> {}]

---------------------------------------------------------------------------
(* Employees. *)

CheckIn(e) ==
    LET k == <<e, WorkDate>>
    IN  /\ session[k] = "none"
        /\ session' = [session EXCEPT ![k] = "in"]
        /\ UNCHANGED <<now, up, round, sent, got, disturbed, stops>>

CheckOut(k) ==
    /\ Open(k)
    /\ session' = [session EXCEPT ![k] = "out"]
    /\ UNCHANGED <<now, up, round, sent, got, disturbed, stops>>

---------------------------------------------------------------------------
(* The thread. *)

\* The employees checked out today are fetched first.
QueryOut ==
    /\ up
    /\ round.step = "asleep"
    /\ round.at <= now
    /\ round' = [step |-> "querying", at |-> now,
                 out  |-> {e \in Employees : session[<<e, today>>] = "out"},
                 due  |-> {}]
    /\ UNCHANGED <<now, session, up, sent, got, disturbed, stops>>

\* The logs whose work date is the date of the round.
QueryIn ==
    LET date == round.at \div DayLength
        rows == {k \in (Employees \ round.out) \X {date} : session[k] # "none"}
    IN  /\ round.step = "querying"
        /\ round' = [round EXCEPT
             !.step = "pushing",
             !.due  = {k \in rows : k \notin sent /\ InWindow(k, round.at)}]
        /\ UNCHANGED <<now, session, up, sent, got, disturbed, stops>>

\* Mutant: marked when the push is known to have succeeded.
MarkedIfSent(k, ok) == IF ok THEN sent \cup {k} ELSE sent

Marked(k, ok) == sent \cup {k}

\* The push may fail, be delivered, or be delivered although an error is
\* returned.
Push(k) ==
    /\ round.step = "pushing"
    /\ k \in round.due
    /\ \E delivered, ok \in BOOLEAN :
         /\ ok => delivered
         /\ sent' = Marked(k, ok)
         /\ got' = IF delivered THEN [got EXCEPT ![k] = @ + 1] ELSE got
    /\ round' = [round EXCEPT !.due = @ \ {k}]
    /\ UNCHANGED <<now, session, up, disturbed, stops>>

Sleep ==
    /\ round.step = "pushing"
    /\ round.due = {}
    /\ round' = Asleep(now + Poll)
    /\ UNCHANGED <<now, session, up, sent, got, disturbed, stops>>

Disturb(t) == disturbed' = disturbed \cup {k \in Keys : InWindow(k, t)}

\* Logged; the thread tries again the next time.
QueryFails ==
    /\ up
    /\ round.step = "querying"
    /\ round' = Asleep(now + Poll)
    /\ Disturb(round.at)
    /\ UNCHANGED <<now, session, up, sent, got, stops>>

---------------------------------------------------------------------------
(* The server and the clock. *)

\* The thread is a daemon: it stops wherever it is.
Stop == /\ up
        /\ stops < MaxStops
        /\ stops' = stops + 1
        /\ up' = FALSE
        /\ round' = Asleep(0)
        /\ sent' = {}
        /\ got' = [k \in Keys |-> 0]
        /\ Disturb(now)
        /\ UNCHANGED <<now, session>>

\* start_reminder_scheduler: the thread begins with a round.
Start == /\ ~up
         /\ up' = TRUE
         /\ UNCHANGED <<now, session, round, sent, got, disturbed, stops>>

\* A round takes at most Slack, and the thread wakes when it is time.
OnTime == up => IF round.step = "asleep" THEN now < round.at ELSE now < round.at + Slack

Tick == /\ now < MaxTime
        /\ OnTime
        /\ now' = now + 1
        /\ IF up THEN UNCHANGED disturbed ELSE Disturb(now')
        /\ UNCHANGED <<session, up, round, sent, got, stops>>

---------------------------------------------------------------------------
Init == /\ now = Cutoff
        /\ session = [k \in Keys |-> "none"]
        /\ up = TRUE
        /\ round = Asleep(Cutoff)
        /\ sent = {}
        /\ got = [k \in Keys |-> 0]
        /\ disturbed = {}
        /\ stops = 0

Round == QueryOut \/ QueryIn \/ Sleep \/ \E k \in Keys : Push(k)

Next == \/ \E e \in Employees : CheckIn(e)
        \/ \E k \in Keys : CheckOut(k)
        \/ Round \/ QueryFails
        \/ Stop \/ Start \/ Tick

Spec == Init /\ [][Next]_vars

\* The clock runs and the thread is scheduled.
FairSpec == Spec /\ WF_vars(Round) /\ WF_vars(Tick)

---------------------------------------------------------------------------
(* Properties. *)

\* However often pushes fail or seem to fail, nobody is reminded twice of one
\* work date while the server keeps running.
OneReminderALife ==
    \A k \in Keys : got[k] <= 1

\* The rounds are close enough: whoever has checked in before the window and
\* does not check out is handled before the shift ends, unless the server is down
\* or a query fails in the window, or too little of the window is on the work
\* date, as in a night shift.
DayShiftReminded ==
    \A k \in Keys :
        (/\ Open(k)
         /\ ShiftEnd(k) <= MaxTime
         /\ now + Window <= ShiftEnd(k)
         /\ (ShiftEnd(k) - Window + Poll + Slack) \div DayLength = k[2])
            ~> \/ k \in sent /\ now <= ShiftEnd(k) + Slack
               \/ ~Open(k)
               \/ k \in disturbed
=============================================================================
