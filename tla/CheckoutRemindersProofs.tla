---------------------- MODULE CheckoutRemindersProofs ----------------------
(***************************************************************************)
(* Nobody is reminded twice while the server keeps running, and who should *)
(* be reminded is before the shift ends: for any number of employees, any  *)
(* shifts, window, poll interval and number of stops.                      *)
(***************************************************************************)
EXTENDS CheckoutReminders, TLAPS

\* A push delivered is remembered, and nothing is due that is remembered: a round
\* drops a session from due in the step that marks it.
IInv == /\ sent \subseteq Keys
        /\ got \in [Keys -> 0..1]
        /\ round.due \cap sent = {}
        /\ DOMAIN round = {"step", "at", "out", "due"}
        /\ round = [step |-> round.step, at |-> round.at,
                    out |-> round.out, due |-> round.due]
        /\ \A k \in Keys : k \notin sent => got[k] = 0

LEMMA InitOne == Init => IInv
BY DEF Init, IInv, Asleep

LEMMA PushOne ==
    ASSUME IInv, NEW k \in Keys, Push(k)
    PROVE  IInv'
<1>1. /\ sent' = sent \cup {k}
      /\ k \notin sent
      /\ got[k] = 0
  BY DEF Push, Marked, IInv
<1>2. got' = got \/ got' = [got EXCEPT ![k] = 1]
  BY <1>1 DEF Push, IInv
<1>3. round' = [step |-> round.step, at |-> round.at, out |-> round.out,
                due |-> round.due \ {k}]
  BY DEF Push, IInv
<1>4. round'.due \cap sent' = {}
  BY <1>1, <1>3 DEF IInv
<1>5. got' \in [Keys -> 0..1]
  BY <1>2 DEF IInv
<1>6. \A x \in Keys : x \notin sent' => got'[x] = 0
  BY <1>1, <1>2 DEF IInv
<1> QED BY <1>1, <1>3, <1>4, <1>5, <1>6 DEF IInv

LEMMA StepOne == IInv /\ [Next]_vars => IInv'
<1> SUFFICES ASSUME IInv, [Next]_vars PROVE IInv'
  OBVIOUS
<1>1. ASSUME \/ \E e \in Employees : CheckIn(e)
             \/ \E k \in Keys : CheckOut(k)
             \/ Start \/ Tick \/ UNCHANGED vars
      PROVE  IInv'
  BY <1>1 DEF CheckIn, CheckOut, Start, Tick, vars, IInv
<1>2. ASSUME QueryOut PROVE IInv'
  BY <1>2 DEF QueryOut, IInv
<1>3. ASSUME QueryIn PROVE IInv'
  <2>1. \E D : /\ D \cap sent = {}
               /\ round' = [step |-> "pushing", at |-> round.at, out |-> round.out, due |-> D]
    BY <1>3 DEF QueryIn, IInv
  <2> QED BY <1>3, <2>1 DEF QueryIn, IInv
<1>4. ASSUME \E k \in Keys : Push(k) PROVE IInv'
  BY <1>4, PushOne
<1>5. ASSUME Sleep \/ QueryFails PROVE IInv'
  BY <1>5 DEF Sleep, QueryFails, Asleep, IInv
<1>6. ASSUME Stop PROVE IInv'
  BY <1>6 DEF Stop, Asleep, IInv
<1> QED BY <1>1, <1>2, <1>3, <1>4, <1>5, <1>6 DEF Next, Round

\* Scheduler thread: a reminder is delivered at most once in one life of the
\* server, whichever pushes fail, seem to fail, or are cut short.
THEOREM RemindedOnce == Spec => []OneReminderALife
<1>1. IInv => OneReminderALife
  BY DEF IInv, OneReminderALife
<1> QED BY <1>1, InitOne, StepOne, PTL DEF Spec

---------------------------------------------------------------------------
(* Reminded in time.                                                        *)

WindowBegin(k) == ShiftEnd(k) - Window

\* The latest time the first round of the window begins.
FirstRound(k) == WindowBegin(k) + Poll + Slack

\* Whoever has checked in before the window, of a shift whose window has its first
\* round on the work date.
Early(k) == /\ Open(k)
            /\ now <= WindowBegin(k)
            /\ FirstRound(k) \div DayLength = k[2]

Excused(k) == k \in disturbed \/ session[k] = "out"

Handled(k) == k \in sent \/ k \in disturbed \/ ~Open(k)

\* The clock goes past the end of the shift only when k has been handled.
HandledAtTheEnd(k) == now = ShiftEnd(k) => Handled(k)

\* Where the thread is, a round takes no longer than Slack, and windows in which the
\* server is down are disturbed.
TimeInv ==
    /\ IInv
    /\ now \in Nat /\ Cutoff <= now
    /\ round.step \in {"asleep", "querying", "pushing"} /\ round.at \in Nat
    /\ ~up => round.step = "asleep"
    /\ round.step = "asleep" => round.at <= now + Poll
    /\ round.step # "asleep" => round.at <= now /\ now <= round.at + Slack
    /\ \A k \in Keys : k \in round.due => InWindow(k, round.at) /\ round.step = "pushing"
    /\ \A k \in Keys : k \in sent => WindowBegin(k) <= now
    /\ session \in [Keys -> {"none", "in", "out"}]
    /\ \A k \in Keys : session[k] # "none" => k[2] * DayLength <= now
    /\ \A k \in Keys : ~up /\ InWindow(k, now) => k \in disturbed

\* A round in the window of k is about k.
Pursued(k) ==
    \/ round.step = "asleep"   /\ round.at <= FirstRound(k) /\ now <= FirstRound(k)
    \/ round.step # "asleep"   /\ round.at <= WindowBegin(k)
    \/ round.step = "querying" /\ round.at \in WindowBegin(k)..FirstRound(k) /\ k[1] \notin round.out
    \/ round.step = "pushing"  /\ round.at \in WindowBegin(k)..FirstRound(k) /\ k \in round.due

\* From the time on at which k was open before the window.
Promise(k) ==
    /\ k[2] * DayLength <= WindowBegin(k)
    /\ FirstRound(k) \div DayLength = k[2]
    /\ session[k] # "none"
    /\ now <= ShiftEnd(k) =>
         \/ Excused(k)
         \/ k \in sent
         \/ Open(k) /\ k \notin sent /\ Pursued(k)

LEMMA Numbers ==
    /\ DayLength \in Nat \ {0} /\ Cutoff \in Nat /\ Window \in Nat /\ Poll \in Nat \ {0}
    /\ Slack \in Nat
    /\ \A k \in Keys : /\ k[1] \in Employees /\ k[2] \in Nat /\ k = <<k[1], k[2]>>
                       /\ ShiftEnd(k) \in Nat
<1>1. /\ DayLength \in Nat \ {0} /\ Cutoff \in Nat /\ Window \in Nat /\ Poll \in Nat \ {0}
      /\ Slack \in Nat
  BY RemindersAssumption
<1>2. ASSUME NEW k \in Keys
      PROVE  /\ k[1] \in Employees /\ k[2] \in Nat /\ k = <<k[1], k[2]>>
             /\ ShiftEnd(k) \in Nat
  <2>1. k[1] \in Employees /\ k[2] \in Nat /\ k = <<k[1], k[2]>>
    BY DEF Keys, Dates
  <2> DEFINE s == ShiftOf[k[1]].start
             t == ShiftOf[k[1]].end
             extra == IF t < s THEN DayLength ELSE 0
  <2>2. t \in Nat
    BY <2>1, RemindersAssumption
  <2>3. extra \in Nat
    BY <1>1
  <2>4. k[2] * DayLength \in Nat
    BY <1>1, <2>1
  <2>5. ShiftEnd(k) = k[2] * DayLength + t + extra
    BY DEF ShiftEnd
  <2> HIDE DEF t, extra
  <2> QED BY <2>1, <2>2, <2>3, <2>4, <2>5
<1> QED BY <1>1, <1>2

LEMMA WorkDateBegun ==
    ASSUME NEW t \in Nat, NEW c \in Nat, c <= t, NEW L \in Nat \ {0}
    PROVE  ((t - c) \div L) * L <= t
<1> DEFINE x == t - c
<1>1. x \in Nat /\ x <= t
  OBVIOUS
<1> HIDE DEF x
<1>2. (x \div L) * L <= x /\ (x \div L) \in Nat
  BY <1>1
<1>3. (x \div L) * L \in Int
  BY <1>2
<1> QED BY <1>1, <1>2, <1>3 DEF x

LEMMA DateBetween ==
    ASSUME NEW L \in Nat \ {0}, NEW d \in Nat, NEW a \in Nat, NEW b \in Nat,
           d * L <= a, a <= b, b \div L = d
    PROVE  a \div L = d
<1>1. d * L \in Nat /\ (d + 1) * L = d * L + L
  OBVIOUS
<1>2. b < d * L + L
  <2>1. b = (b \div L) * L + (b % L) /\ b % L < L /\ b % L \in Nat
    OBVIOUS
  <2> QED BY <1>1, <2>1
<1>3. a - d * L \in 0..(L - 1)
  BY <1>1, <1>2
<1> DEFINE r == a - d * L
<1>4. a = d * L + r /\ r \in 0..(L - 1)
  BY <1>1, <1>3
<1> HIDE DEF r
<1> QED BY <1>4

LEMMA TheWindow ==
    ASSUME NEW k \in Keys
    PROVE  /\ WindowBegin(k) \in Int /\ FirstRound(k) \in Int
           /\ FirstRound(k) = WindowBegin(k) + Poll + Slack
           /\ FirstRound(k) + Slack <= ShiftEnd(k)
           /\ \A t \in Int : InWindow(k, t) <=> WindowBegin(k) <= t /\ t <= ShiftEnd(k)
<1>1. Poll \in Nat /\ Slack \in Nat /\ Window \in Nat /\ ShiftEnd(k) \in Nat
  BY Numbers
<1> QED BY <1>1, WindowAssumption DEF WindowBegin, FirstRound, InWindow

LEMMA TimeInit == Init => TimeInv
<1> SUFFICES ASSUME Init PROVE TimeInv
  OBVIOUS
<1>1. IInv
  BY InitOne
<1>2. Cutoff \in Nat /\ Poll \in Nat /\ Slack \in Nat
  BY Numbers
<1> QED BY <1>1, <1>2 DEF Init, TimeInv, Asleep

LEMMA CheckInTime ==
    ASSUME TimeInv, NEW e \in Employees, CheckIn(e), IInv'
    PROVE  TimeInv'
<1> DEFINE x == <<e, WorkDate>>
<1>1. session' = [session EXCEPT ![x] = "in"] /\ x[2] = WorkDate
  BY DEF CheckIn
<1>2. WorkDate * DayLength <= now
  BY WorkDateBegun, Numbers DEF TimeInv, WorkDate
<1> HIDE DEF x
<1>3. session' \in [Keys -> {"none", "in", "out"}]
  BY <1>1 DEF TimeInv
<1>4. \A k \in Keys : session'[k] # "none" => k[2] * DayLength <= now
  BY <1>1, <1>2 DEF TimeInv
<1>5. UNCHANGED <<now, up, round, sent, disturbed>>
  BY DEF CheckIn
<1> QED BY <1>3, <1>4, <1>5 DEF TimeInv

LEMMA CheckOutTime ==
    ASSUME TimeInv, NEW x \in Keys, CheckOut(x), IInv'
    PROVE  TimeInv'
<1>1. session' = [session EXCEPT ![x] = "out"] /\ session[x] = "in"
  BY DEF CheckOut, Open
<1>3. session' \in [Keys -> {"none", "in", "out"}]
  BY <1>1 DEF TimeInv
<1>4. \A k \in Keys : session'[k] # "none" => k[2] * DayLength <= now
  BY <1>1 DEF TimeInv
<1>5. UNCHANGED <<now, up, round, sent, disturbed>>
  BY DEF CheckOut
<1> QED BY <1>3, <1>4, <1>5 DEF TimeInv

LEMMA QueryOutTime ==
    ASSUME TimeInv, QueryOut, IInv'
    PROVE  TimeInv'
<1>1. \E O : round' = [step |-> "querying", at |-> now, out |-> O, due |-> {}]
  BY DEF QueryOut
<1>2. UNCHANGED <<now, session, up, sent, disturbed>> /\ up
  BY DEF QueryOut
<1>3. now <= now + Slack
  BY Numbers DEF TimeInv
<1> QED BY <1>1, <1>2, <1>3 DEF TimeInv

LEMMA QueryInTime ==
    ASSUME TimeInv, QueryIn, IInv'
    PROVE  TimeInv'
<1>1. PICK D : /\ \A k \in Keys : k \in D => InWindow(k, round.at)
               /\ round' = [step |-> "pushing", at |-> round.at, out |-> round.out, due |-> D]
  BY DEF QueryIn, TimeInv, IInv
<1>2. UNCHANGED <<now, session, up, sent, disturbed>> /\ round.step = "querying"
  BY DEF QueryIn
<1> QED BY <1>1, <1>2 DEF TimeInv

LEMMA PushTime ==
    ASSUME TimeInv, NEW x \in Keys, Push(x), IInv'
    PROVE  TimeInv'
<1>1. round' = [step |-> round.step, at |-> round.at, out |-> round.out,
                due |-> round.due \ {x}]
  BY DEF Push, IInv, TimeInv
<1>2. UNCHANGED <<now, session, up, disturbed>> /\ round.step = "pushing" /\ x \in round.due
  BY DEF Push
<1>3. sent' = sent \cup {x}
  BY DEF Push, Marked
<1>4. WindowBegin(x) <= now
  <2>1. InWindow(x, round.at) /\ round.at <= now /\ round.at \in Nat /\ now \in Nat
    BY <1>2 DEF TimeInv
  <2> QED BY <2>1, Numbers DEF InWindow, WindowBegin
<1>5. \A k \in Keys : k \in sent' => WindowBegin(k) <= now
  BY <1>3, <1>4 DEF TimeInv
<1> QED BY <1>1, <1>2, <1>5 DEF TimeInv

LEMMA RestTime ==
    ASSUME TimeInv, Sleep \/ QueryFails \/ Stop \/ Start, IInv'
    PROVE  TimeInv'
<1>1. CASE Sleep
  BY <1>1, Numbers DEF Sleep, Asleep, TimeInv
<1>2. CASE QueryFails
  BY <1>2, Numbers DEF QueryFails, Asleep, TimeInv, Disturb
<1>3. CASE Stop
  BY <1>3, Numbers DEF Stop, Asleep, TimeInv, Disturb
<1>4. CASE Start
  BY <1>4 DEF Start, TimeInv
<1> QED BY <1>1, <1>2, <1>3, <1>4

LEMMA TickTime ==
    ASSUME TimeInv, Tick, IInv'
    PROVE  TimeInv'
<1>1. now' = now + 1 /\ now \in Nat /\ UNCHANGED <<session, up, round, sent>>
  BY DEF Tick, TimeInv
<1>2. round.step # "asleep" => now' <= round.at + Slack
  BY <1>1, Numbers DEF Tick, OnTime, TimeInv
<1>3. \A k \in Keys : ~up' /\ InWindow(k, now') => k \in disturbed'
  BY <1>1 DEF Tick, Disturb
<1>4. \A k \in Keys : session[k] # "none" => k[2] * DayLength <= now'
  <2> TAKE k \in Keys
  <2>1. k[2] * DayLength \in Int
    BY Numbers
  <2> QED BY <1>1, <2>1 DEF TimeInv
<1>5. \A k \in Keys : k \in sent => WindowBegin(k) <= now'
  <2> TAKE k \in Keys
  <2>1. WindowBegin(k) \in Int
    BY Numbers DEF WindowBegin
  <2> QED BY <1>1, <2>1 DEF TimeInv
<1>6. now' \in Nat /\ Cutoff <= now' /\ (round.step = "asleep" => round.at <= now' + Poll)
      /\ (round.step # "asleep" => round.at <= now')
  BY <1>1, Numbers DEF TimeInv
<1> QED BY <1>1, <1>2, <1>3, <1>4, <1>5, <1>6 DEF TimeInv

LEMMA TimeStep == TimeInv /\ [Next]_vars => TimeInv'
<1> SUFFICES ASSUME TimeInv, [Next]_vars PROVE TimeInv'
  OBVIOUS
<1>1. IInv'
  BY StepOne DEF TimeInv
<1>2. CASE UNCHANGED vars
  BY <1>1, <1>2 DEF vars, TimeInv
<1>3. CASE \E e \in Employees : CheckIn(e)
  BY <1>1, <1>3, CheckInTime
<1>4. CASE \E k \in Keys : CheckOut(k)
  BY <1>1, <1>4, CheckOutTime
<1>5. CASE Round
  BY <1>1, <1>5, QueryOutTime, QueryInTime, RestTime, PushTime DEF Round
<1>6. CASE QueryFails \/ Stop \/ Start
  BY <1>1, <1>6, RestTime
<1>7. CASE Tick
  BY <1>1, <1>7, TickTime
<1> QED BY <1>2, <1>3, <1>4, <1>5, <1>6, <1>7 DEF Next

LEMMA PromiseBegins ==
    ASSUME NEW k \in Keys, TimeInv, Early(k)
    PROVE  Promise(k)
<1>1. session[k] = "in" /\ now <= WindowBegin(k) /\ now \in Nat
  BY DEF Early, Open, TimeInv
<1>2. k[2] * DayLength <= WindowBegin(k)
  <2>1. k[2] * DayLength <= now /\ k[2] * DayLength \in Int
    BY <1>1, Numbers DEF TimeInv
  <2> QED BY <1>1, <2>1, TheWindow
<1>3. Poll \in Nat /\ Slack \in Nat
  BY Numbers
<1>4. now <= FirstRound(k)
  BY <1>1, <1>3, TheWindow
<1>5. round.step = "asleep" => round.at <= FirstRound(k)
  BY <1>1, <1>3, TheWindow DEF TimeInv
<1>6. round.step # "asleep" => round.at <= WindowBegin(k)
  BY <1>1, TheWindow DEF TimeInv
<1>7. Pursued(k)
  BY <1>4, <1>5, <1>6 DEF Pursued
<1> QED BY <1>1, <1>2, <1>7 DEF Promise, Early, Open

\* What a step is shown to keep of the promise.
Kept(k) == now <= ShiftEnd(k) =>
             \/ Excused(k)
             \/ k \in sent
             \/ Open(k) /\ k \notin sent /\ Pursued(k)

LEMMA PromiseIsKept ==
    ASSUME NEW k \in Keys, Promise(k), Kept(k)', session' \in [Keys -> {"none", "in", "out"}],
           session'[k] # "none"
    PROVE  Promise(k)'
BY DEF Promise, Kept, WindowBegin, FirstRound, ShiftEnd

LEMMA SessionKept ==
    ASSUME NEW k \in Keys, TimeInv, [Next]_vars, session[k] # "none"
    PROVE  session'[k] = session[k] \/ session'[k] = "out"
<1>1. CASE \E e \in Employees : CheckIn(e)
  BY <1>1 DEF CheckIn, TimeInv
<1>2. CASE \E x \in Keys : CheckOut(x)
  BY <1>2 DEF CheckOut, TimeInv
<1>3. CASE Round
  BY <1>3 DEF Round, QueryOut, QueryIn, Sleep, Push
<1>4. CASE QueryFails \/ Stop \/ Start \/ Tick \/ UNCHANGED vars
  BY <1>4 DEF QueryFails, Stop, Start, Tick, vars
<1> QED BY <1>1, <1>2, <1>3, <1>4 DEF Next

\* The cases in which there is something to show: the window is not over, and k is
\* pursued or was handled before.
LEMMA Excuses ==
    ASSUME NEW k \in Keys, TimeInv, [Next]_vars, Excused(k)
    PROVE  Excused(k)'
<1>1. disturbed \subseteq disturbed'
  <2>1. CASE \E e \in Employees : CheckIn(e)
    BY <2>1 DEF CheckIn
  <2>2. CASE \E x \in Keys : CheckOut(x)
    BY <2>2 DEF CheckOut
  <2>3. CASE Round
    BY <2>3 DEF Round, QueryOut, QueryIn, Sleep, Push
  <2>4. CASE QueryFails \/ Stop \/ Start \/ Tick \/ UNCHANGED vars
    BY <2>4 DEF QueryFails, Stop, Start, Tick, vars, Disturb
  <2> QED BY <2>1, <2>2, <2>3, <2>4 DEF Next
<1>2. CASE k \in disturbed
  BY <1>1, <1>2 DEF Excused
<1>3. CASE session[k] = "out"
  BY <1>3, SessionKept DEF Excused
<1> QED BY <1>2, <1>3 DEF Excused

LEMMA SentKept ==
    ASSUME NEW k \in Keys, TimeInv, TimeInv', [Next]_vars, k \in sent,
           now' <= ShiftEnd(k)
    PROVE  k \in sent' \/ k \in disturbed'
<1>1. CASE \E e \in Employees : CheckIn(e)
  BY <1>1 DEF CheckIn
<1>2. CASE \E x \in Keys : CheckOut(x)
  BY <1>2 DEF CheckOut
<1>3. CASE Round
  BY <1>3 DEF Round, QueryOut, QueryIn, Sleep, Push, Marked
<1>4. CASE QueryFails \/ Start \/ Tick \/ UNCHANGED vars
  BY <1>4 DEF QueryFails, Start, Tick, vars
<1>5. CASE Stop
  <2>1. now' = now /\ disturbed' = disturbed \cup {x \in Keys : InWindow(x, now)}
    BY <1>5 DEF Stop, Disturb
  <2>2. now \in Int /\ WindowBegin(k) <= now
    BY DEF TimeInv
  <2>3. InWindow(k, now)
    BY <2>1, <2>2, TheWindow
  <2> QED BY <2>1, <2>3
<1> QED BY <1>1, <1>2, <1>3, <1>4, <1>5 DEF Next

---------------------------------------------------------------------------
(* A step while k is pursued.                                              *)

LEMMA PursuedByEmployees ==
    ASSUME NEW k \in Keys, Pursued(k),
           (\E e \in Employees : CheckIn(e)) \/ (\E x \in Keys : CheckOut(x)) \/ Start
           \/ UNCHANGED vars
    PROVE  Pursued(k)'
<1>1. UNCHANGED <<now, round>>
  BY DEF CheckIn, CheckOut, Start, vars
<1> QED BY <1>1 DEF Pursued, FirstRound, WindowBegin, ShiftEnd

LEMMA PursuedByQueryOut ==
    ASSUME NEW k \in Keys, TimeInv, Promise(k), Open(k),
           Pursued(k), QueryOut
    PROVE  Pursued(k)'
<1>1. /\ round.step = "asleep" /\ now' = now
      /\ round' = [step |-> "querying", at |-> now,
                   out  |-> {e \in Employees : session[<<e, today>>] = "out"}, due  |-> {}]
  BY DEF QueryOut
<1>2. now <= FirstRound(k) /\ now \in Nat
  BY <1>1 DEF Pursued, TimeInv
<1>3. round'.step = "querying" /\ round'.at = now
  BY <1>1
<1>4. CASE now <= WindowBegin(k)
  BY <1>3, <1>4 DEF Pursued, WindowBegin, ShiftEnd
<1>5. CASE ~(now <= WindowBegin(k))
  <2>1. now \in WindowBegin(k)..FirstRound(k)
    BY <1>2, <1>5, TheWindow
  <2>2. today = k[2]
    <3>1. k[2] \in Nat /\ DayLength \in Nat \ {0} /\ FirstRound(k) \in Nat
      BY <1>2, TheWindow, Numbers
    <3>2. k[2] * DayLength <= now /\ FirstRound(k) \div DayLength = k[2]
      <4>1. k[2] * DayLength \in Int
        BY <3>1
      <4> QED BY <4>1, <2>1, TheWindow DEF Promise
    <3> QED BY <3>1, <3>2, <1>2, DateBetween DEF today
  <2>3. <<k[1], today>> = k
    BY <2>2, Numbers
  <2>4. k[1] \notin round'.out
    BY <1>1, <2>3 DEF Open
  <2> QED BY <1>3, <2>1, <2>4 DEF Pursued, FirstRound, WindowBegin, ShiftEnd
<1> QED BY <1>4, <1>5

LEMMA PursuedByQueryIn ==
    ASSUME NEW k \in Keys, TimeInv, Promise(k), Open(k),
           k \notin sent, Pursued(k), QueryIn
    PROVE  Pursued(k)'
<1> DEFINE date == round.at \div DayLength
           rows == {x \in (Employees \ round.out) \X {date} : session[x] # "none"}
           due == {x \in rows : x \notin sent /\ InWindow(x, round.at)}
<1>1. /\ round.step = "querying"
      /\ round' = [step |-> "pushing", at |-> round.at, out |-> round.out, due |-> due]
  BY DEF QueryIn, TimeInv, IInv
<1>2. round'.step = "pushing" /\ round'.at = round.at /\ round'.due = due
  BY <1>1
<1> HIDE DEF due
<1>3. CASE round.at <= WindowBegin(k)
  BY <1>2, <1>3 DEF Pursued, WindowBegin, ShiftEnd
<1>4. CASE round.at \in WindowBegin(k)..FirstRound(k) /\ k[1] \notin round.out
  <2>1. round.at \in Nat
    BY DEF TimeInv
  <2>2. date = k[2]
    <3>1. k[2] \in Nat /\ DayLength \in Nat \ {0} /\ FirstRound(k) \in Nat
      BY <2>1, <1>4, TheWindow, Numbers
    <3>2. k[2] * DayLength <= round.at /\ FirstRound(k) \div DayLength = k[2]
      <4>1. k[2] * DayLength \in Int
        BY <3>1
      <4> QED BY <4>1, <1>4, <2>1, TheWindow DEF Promise
    <3>3. round.at <= FirstRound(k)
      BY <1>4, <3>1
    <3> QED BY <3>1, <3>2, <3>3, <2>1, DateBetween
  <2>3. k \in rows
    <3>1. k[1] \in Employees \ round.out /\ k = <<k[1], k[2]>> /\ session[k] # "none"
      BY <1>4, Numbers DEF Open
    <3> HIDE DEF date
    <3> QED BY <2>2, <3>1
  <2>4. InWindow(k, round.at)
    <3>1. Slack \in Nat /\ ShiftEnd(k) \in Nat
      BY Numbers
    <3>2. WindowBegin(k) <= round.at /\ round.at <= FirstRound(k) /\ round.at \in Int
      BY <2>1, <1>4, TheWindow
    <3>3. round.at <= ShiftEnd(k)
      BY <3>1, <3>2, TheWindow
    <3> QED BY <3>2, <3>3, TheWindow
  <2>5. k \in due
    BY <2>3, <2>4 DEF due
  <2> QED BY <1>2, <2>5, <1>4 DEF Pursued, FirstRound, WindowBegin, ShiftEnd
<1> QED BY <1>1, <1>3, <1>4 DEF Pursued

\* A push handles k or leaves it due.
LEMMA PursuedByPush ==
    ASSUME NEW k \in Keys, TimeInv, k \notin sent, Pursued(k), NEW x \in Keys, Push(x)
    PROVE  k \in sent' \/ (k \notin sent' /\ Pursued(k)')
<1>1. /\ round' = [step |-> round.step, at |-> round.at, out |-> round.out,
                   due |-> round.due \ {x}]
      /\ now' = now /\ sent' = sent \cup {x} /\ round.step = "pushing"
  BY DEF Push, Marked, TimeInv, IInv
<1>2. CASE x = k
  BY <1>1, <1>2
<1>3. CASE x # k
  <2>1. k \notin sent'
    BY <1>1, <1>3
  <2>2. round'.step = "pushing" /\ round'.at = round.at /\ (k \in round.due => k \in round'.due)
    BY <1>1, <1>3
  <2>3. Pursued(k)'
    BY <1>1, <2>2 DEF Pursued, FirstRound, WindowBegin, ShiftEnd
  <2> QED BY <2>1, <2>3
<1> QED BY <1>2, <1>3

\* The thread goes to sleep between two rounds that are close enough.
LEMMA PursuedBySleep ==
    ASSUME NEW k \in Keys, TimeInv, Pursued(k), Sleep
    PROVE  Pursued(k)'
<1>1. round.step = "pushing" /\ round.due = {} /\ now' = now
      /\ round'.step = "asleep" /\ round'.at = now + Poll
  BY DEF Sleep, Asleep
<1>2. round.at <= WindowBegin(k) /\ now <= round.at + Slack /\ round.at \in Nat /\ now \in Nat
  BY <1>1 DEF Pursued, TimeInv
<1>3. now + Poll <= FirstRound(k) /\ now <= FirstRound(k)
  BY <1>2, TheWindow, Numbers
<1> QED BY <1>1, <1>3 DEF Pursued, FirstRound, WindowBegin, ShiftEnd

LEMMA PursuedByFailure ==
    ASSUME NEW k \in Keys, TimeInv, Pursued(k), QueryFails
    PROVE  k \in disturbed' \/ Pursued(k)'
<1>1. round.step = "querying" /\ now' = now
      /\ round'.step = "asleep" /\ round'.at = now + Poll
      /\ disturbed' = disturbed \cup {x \in Keys : InWindow(x, round.at)}
  BY DEF QueryFails, Asleep, Disturb
<1>2. now <= round.at + Slack /\ round.at \in Nat /\ now \in Nat
  BY <1>1 DEF TimeInv
<1>3. CASE round.at <= WindowBegin(k)
  <2>1. now + Poll <= FirstRound(k) /\ now <= FirstRound(k)
    BY <1>2, <1>3, TheWindow, Numbers
  <2> QED BY <1>1, <2>1 DEF Pursued, FirstRound, WindowBegin, ShiftEnd
<1>4. CASE round.at \in WindowBegin(k)..FirstRound(k)
  <2>1. WindowBegin(k) <= round.at /\ round.at <= FirstRound(k) /\ Slack \in Nat
        /\ ShiftEnd(k) \in Nat
    BY <1>2, <1>4, TheWindow, Numbers
  <2>2. round.at <= ShiftEnd(k)
    BY <2>1, <1>2, TheWindow
  <2>3. InWindow(k, round.at)
    BY <1>2, <2>1, <2>2, TheWindow
  <2> QED BY <1>1, <2>3
<1> QED BY <1>1, <1>3, <1>4 DEF Pursued

LEMMA PursuedByStop ==
    ASSUME NEW k \in Keys, TimeInv, Promise(k), Stop,
           now <= ShiftEnd(k)
    PROVE  k \in disturbed' \/ (k \notin sent' /\ Pursued(k)')
<1>1. round'.step = "asleep" /\ round'.at = 0 /\ now' = now /\ sent' = {}
      /\ disturbed' = disturbed \cup {x \in Keys : InWindow(x, now)}
  BY DEF Stop, Asleep, Disturb
<1>2. now \in Nat /\ Poll \in Nat /\ Slack \in Nat
  BY Numbers DEF TimeInv
<1>3. CASE WindowBegin(k) <= now
  <2>1. InWindow(k, now)
    BY <1>2, <1>3, TheWindow
  <2> QED BY <1>1, <2>1
<1>4. CASE ~(WindowBegin(k) <= now)
  <2>1. now <= FirstRound(k) /\ 0 <= FirstRound(k)
    BY <1>2, <1>4, TheWindow
  <2> QED BY <1>1, <2>1 DEF Pursued, FirstRound, WindowBegin, ShiftEnd
<1> QED BY <1>3, <1>4

LEMMA PursuedByTick ==
    ASSUME NEW k \in Keys, TimeInv, TimeInv', Pursued(k), Tick,
           now' <= ShiftEnd(k)
    PROVE  k \in disturbed' \/ Pursued(k)'
<1>1. now' = now + 1 /\ now \in Nat /\ UNCHANGED <<round, up>>
  BY DEF Tick, TimeInv
<1>2. CASE round.step # "asleep"
  BY <1>1, <1>2 DEF Pursued, FirstRound, WindowBegin, ShiftEnd
<1>3. CASE round.step = "asleep" /\ up
  <2>1. now < round.at /\ round.at <= FirstRound(k) /\ round.at \in Nat
    BY <1>3 DEF Tick, OnTime, Pursued, TimeInv
  <2>2. now' <= FirstRound(k)
    BY <1>1, <2>1, TheWindow
  <2> QED BY <1>1, <1>3, <2>1, <2>2 DEF Pursued, FirstRound, WindowBegin, ShiftEnd
<1>4. CASE round.step = "asleep" /\ ~up
  <2>1. CASE WindowBegin(k) <= now'
    <3>1. disturbed' = disturbed \cup {x \in Keys : InWindow(x, now')}
      BY <1>4 DEF Tick, Disturb
    <3> QED BY <1>1, <2>1, <3>1, TheWindow
  <2>2. CASE ~(WindowBegin(k) <= now')
    <3>1. now' <= FirstRound(k)
      BY <1>1, <2>2, TheWindow, Numbers
    <3> QED BY <1>1, <1>4, <3>1 DEF Pursued, FirstRound, WindowBegin, ShiftEnd
  <2> QED BY <2>1, <2>2
<1> QED BY <1>2, <1>3, <1>4

LEMMA PromiseStep ==
    ASSUME NEW k \in Keys, TimeInv, TimeInv', [Next]_vars,
           Promise(k)
    PROVE  Promise(k)'
<1>1. session[k] \in {"none", "in", "out"} /\ session[k] # "none"
  BY DEF Promise, TimeInv
<1>2. session'[k] # "none" /\ session' \in [Keys -> {"none", "in", "out"}]
      /\ (session'[k] = "out" \/ session'[k] = session[k])
  BY <1>1, SessionKept DEF TimeInv
<1>3. Kept(k)'
  <2>1. SUFFICES ASSUME now' <= ShiftEnd(k)
                 PROVE  \/ Excused(k)'
                        \/ k \in sent'
                        \/ Open(k)' /\ k \notin sent' /\ Pursued(k)'
    BY DEF Kept, ShiftEnd
  <2>2. now <= ShiftEnd(k)
    <3>1. now' = now \/ now' = now + 1
      BY DEF Next, CheckIn, CheckOut, Round, QueryOut, QueryIn, Push, Sleep, QueryFails,
             Stop, Start, Tick, vars
    <3>2. now \in Nat /\ ShiftEnd(k) \in Nat
      BY Numbers DEF TimeInv
    <3> QED BY <2>1, <3>1, <3>2
  <2>3. CASE Excused(k)
    BY <2>3, Excuses
  <2>4. CASE k \in sent
    BY <2>1, <2>4, SentKept DEF Excused
  <2>5. CASE session'[k] = "out"
    BY <2>5 DEF Excused
  <2>6. CASE Open(k) /\ k \notin sent /\ Pursued(k) /\ session'[k] = session[k]
    <3>1. Open(k)'
      BY <2>6 DEF Open
    <3>2. SUFFICES k \in disturbed' \/ k \in sent' \/ (k \notin sent' /\ Pursued(k)')
      BY <3>1 DEF Excused
    <3>3. CASE \/ \E e \in Employees : CheckIn(e)
               \/ \E x \in Keys : CheckOut(x)
               \/ Start \/ UNCHANGED vars
      <4>1. Pursued(k)'
        BY <2>6, <3>3, PursuedByEmployees
      <4>2. sent' = sent
        BY <3>3 DEF CheckIn, CheckOut, Start, vars
      <4> QED BY <2>6, <4>1, <4>2
    <3>4. CASE QueryOut
      BY <2>6, <3>4, PursuedByQueryOut
    <3>5. CASE QueryIn
      BY <2>6, <3>5, PursuedByQueryIn
    <3>6. CASE \E x \in Keys : Push(x)
      BY <2>6, <3>6, PursuedByPush
    <3>7. CASE Sleep
      BY <2>6, <3>7, PursuedBySleep
    <3>8. CASE QueryFails
      <4>1. sent' = sent
        BY <3>8 DEF QueryFails
      <4> QED BY <2>6, <3>8, <4>1, PursuedByFailure
    <3>9. CASE Stop
      BY <2>2, <3>9, PursuedByStop
    <3>10. CASE Tick
      <4>1. sent' = sent
        BY <3>10 DEF Tick
      <4> QED BY <2>1, <2>6, <3>10, <4>1, PursuedByTick
    <3> QED BY <3>3, <3>4, <3>5, <3>6, <3>7, <3>8, <3>9, <3>10 DEF Next, Round
  <2> QED BY <1>2, <2>2, <2>3, <2>4, <2>5, <2>6 DEF Promise
<1> QED BY <1>2, <1>3, PromiseIsKept

\* The clock goes past the end of the shift: the promise has been kept.
LEMMA PromiseIsDue ==
    ASSUME NEW k \in Keys, TimeInv, [Next]_vars, Promise(k)
    PROVE  [HandledAtTheEnd(k)]_now
<1>1. SUFFICES ASSUME now' # now, now = ShiftEnd(k), ~Handled(k)
               PROVE  FALSE
  BY DEF HandledAtTheEnd
<1>2. Tick
  BY <1>1 DEF Next, CheckIn, CheckOut, Round, QueryOut, QueryIn, Push, Sleep, QueryFails,
              Stop, Start, vars
<1>3. now \in Nat /\ round.at \in Nat /\ Slack \in Nat /\ Poll \in Nat
  BY Numbers DEF TimeInv
<1>4. Pursued(k)
  BY <1>1, <1>3 DEF Promise, Handled, Excused, Open
<1>5. up
  <2>1. SUFFICES ASSUME ~up PROVE FALSE
    OBVIOUS
  <2>2. WindowBegin(k) <= now
    BY <1>1, <1>3, TheWindow
  <2>3. InWindow(k, now)
    BY <1>1, <1>3, <2>2, TheWindow
  <2> QED BY <2>1, <2>3, <1>1 DEF TimeInv, Handled
<1>6. CASE round.step = "asleep"
  BY <1>1, <1>2, <1>3, <1>4, <1>5, <1>6, TheWindow DEF Pursued, Tick, OnTime
<1>7. CASE round.step # "asleep"
  <2>1. round.at <= FirstRound(k)
    BY <1>3, <1>4, <1>7, TheWindow DEF Pursued
  <2>2. now < round.at + Slack
    BY <1>2, <1>5, <1>7 DEF Tick, OnTime
  <2> QED BY <1>1, <1>3, <2>1, <2>2, TheWindow
<1> QED BY <1>6, <1>7

\* Scheduler thread: the clock does not go past the end of a shift whose employee was
\* checked in when the window began, unless the reminder was sent, the employee has
\* checked out, or the server was down or a query failed in the window; of shifts
\* whose window has its first round on the work date.
THEOREM HandledInTime ==
    ASSUME NEW k \in Keys
    PROVE  Spec => [](Early(k) => [][HandledAtTheEnd(k)]_now)
<1>1. TimeInv /\ [Next]_vars => TimeInv'
  BY TimeStep
<1>2. TimeInv /\ Early(k) => Promise(k)
  BY PromiseBegins
<1>3. TimeInv /\ TimeInv' /\ [Next]_vars /\ Promise(k) => Promise(k)'
  BY PromiseStep
<1>4. TimeInv /\ [Next]_vars /\ Promise(k) => [HandledAtTheEnd(k)]_now
  BY PromiseIsDue
<1> QED BY <1>1, <1>2, <1>3, <1>4, TimeInit, PTL DEF Spec
===========================================================================
