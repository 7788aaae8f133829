--------------------------- MODULE OvertimeProofs --------------------------
(***************************************************************************)
(* Theorems about Overtime, for any dates, threads and minutes: what is    *)
(* paid was approved by somebody, although decisions taken on stale        *)
(* records overwrite each other column by column.                          *)
(***************************************************************************)
EXTENDS Overtime, TLAPS

---------------------------------------------------------------------------
(* The inductive invariant: every minute stored comes from an approval, and *)
(* a request that is about to store minutes will write the entry that      *)
(* approves them, whatever has become of the record it loaded.             *)

\* The minutes of record d are those of an approval in its audit trail.
Backed(d) == rec[d].minutes \in {Null, 0}
             \/ [to |-> "APPROVED", minutes |-> rec[d].minutes] \in audit[d]

\* What record d owes to its audit trail and to the check-out log.
RecordInv(d) == /\ Backed(d)
                /\ rec[d].status \in Decided <=> audit[d] # {}
                /\ rec[d].status # "NONE" => log[d] # Null

\* A decision that may be stored, whoever has decided since it was loaded.
Decides(new) == /\ new \in Record
                /\ new.status \in Decided
                /\ new.minutes \in Nat
                /\ new.status = "REJECTED" => new.minutes = 0

Sound(r) ==
    /\ r \in Request
    /\ r.op \in {"idle", "auto"} => r.dates = {}
    /\ r.op = "auto" => r.date \in Dates /\ r.time \in Nat /\ log[r.date] # Null
    /\ r.op = "decide" => \A d \in r.dates : log[d] # Null
    /\ r.op = "exception" => /\ r.date \in Dates /\ r.time \in Nat
                             /\ r.dates \subseteq {r.date}
                             /\ r.out # Null => log[r.date] # Null
    /\ \A d \in r.dates :
         /\ Decides(r.new[d])
         /\ r.seen[d].status \in Decided => rec[d].status \in Decided

IInv == /\ TypeOK
        /\ \A d \in Dates : RecordInv(d)
        /\ \A w \in Workers : Sound(req[w])

\* No step takes a decision back or deletes a check-out log.
Grows == \A d \in Dates :
           /\ rec[d].status \in Decided => rec'[d].status \in Decided
           /\ log[d] # Null => log'[d] # Null

---------------------------------------------------------------------------
LEMMA NoRecordType == NoRecord \in Record /\ Nothing \in [Dates -> Record]
BY DEF NoRecord, Nothing, Record, Statuses

LEMMA IdleSound == Sound(Idle) /\ Sound(Idle)'
<1>1. Idle \in Request
  BY NoRecordType DEF Idle, Request
<1> QED BY <1>1 DEF Sound, Idle

LEMMA RoundUpType == ASSUME NEW m \in Nat PROVE round_up_to_30(m) \in Nat
BY DEF round_up_to_30

\* What a request is entitled to store stays so when others commit.
LEMMA SoundStable ==
    ASSUME NEW r, Sound(r), Grows
    PROVE  Sound(r)'
BY DEF Sound, Grows, Request, Decides

LEMMA RequestsSound ==
    ASSUME IInv, Grows, NEW w \in Workers, NEW r, Sound(r)',
           req' = [req EXCEPT ![w] = r]
    PROVE  /\ req' \in [Workers -> Request]
           /\ \A v \in Workers : Sound(req[v])'
<1>1. r \in Request
  BY DEF Sound
<1>2. req' \in [Workers -> Request]
  BY <1>1 DEF IInv, TypeOK
<1>3. ASSUME NEW v \in Workers PROVE Sound(req[v])'
  <2>1. CASE v = w
    <3>1. req'[v] = r
      BY <2>1 DEF IInv, TypeOK
    <3> QED BY <3>1 DEF Sound
  <2>2. CASE v # w
    <3>1. req'[v] = req[v]
      BY <2>2 DEF IInv, TypeOK
    <3>2. PICK q : q = req[v]
      OBVIOUS
    <3>3. Sound(q)
      BY <3>2 DEF IInv
    <3>4. Sound(q)'
      BY <3>3, SoundStable
    <3> QED BY <3>1, <3>2, <3>4 DEF Sound
  <2> QED BY <2>1, <2>2
<1> QED BY <1>2, <1>3

---------------------------------------------------------------------------
(* The two halves of a handler: taking a decision and storing it. *)

LEMMA BeginStep ==
    ASSUME IInv, NEW w \in Workers, NEW S \in SUBSET Dates, NEW new,
           \A d \in S : rec[d].status # "NONE" /\ Decides(new[d]),
           Begin(w, S, new)
    PROVE  IInv'
<1> DEFINE r == [Idle EXCEPT !.op = "decide", !.dates = S,
                   !.seen = [d \in Dates |-> IF d \in S THEN rec[d] ELSE NoRecord],
                   !.new  = [d \in Dates |-> IF d \in S THEN new[d] ELSE NoRecord]]
<1>1. PICK q : q = r
  OBVIOUS
<1>2. q \in Request
  <2>1. /\ [d \in Dates |-> IF d \in S THEN rec[d] ELSE NoRecord] \in [Dates -> Record]
        /\ [d \in Dates |-> IF d \in S THEN new[d] ELSE NoRecord] \in [Dates -> Record]
    BY NoRecordType DEF IInv, TypeOK, Decides
  <2> QED BY <1>1, <2>1, IdleSound DEF Sound, Request
<1>3. /\ q.op = "decide" /\ q.dates = S
      /\ \A d \in S : q.seen[d] = rec[d] /\ q.new[d] = new[d]
  BY <1>1, IdleSound DEF Sound, Request
<1>4. UNCHANGED <<enabled, log, rec, audit, told, asked>>
  BY DEF Begin
<1>5. Grows
  BY <1>4 DEF Grows
<1>6. Sound(q)'
  <2>1. \A d \in S : log[d] # Null
    BY DEF IInv, RecordInv
  <2> QED BY <1>2, <1>3, <1>4, <2>1 DEF Sound
<1>7. req' = [req EXCEPT ![w] = q]
  BY <1>1 DEF Begin
<1>8. /\ req' \in [Workers -> Request]
      /\ \A v \in Workers : Sound(req[v])'
  BY <1>5, <1>6, <1>7, RequestsSound
<1> QED BY <1>4, <1>8 DEF IInv, TypeOK, RecordInv, Backed

\* Column by column, what is stored is either what the decision says or what
\* was there.
LEMMA StoreRecord ==
    ASSUME IInv, NEW r, Sound(r), Store(r), NEW d \in Dates
    PROVE  /\ rec'[d] \in Record
           /\ audit'[d] \in SUBSET Entry
           /\ Backed(d)'
           /\ rec'[d].status \in Decided <=> audit'[d] # {}
           /\ rec[d].status \in Decided => rec'[d].status \in Decided
           /\ rec'[d].status # "NONE" => rec[d].status # "NONE" \/ d \in r.dates
<1>1. rec[d] \in Record /\ audit[d] \in SUBSET Entry /\ RecordInv(d)
  BY DEF IInv, TypeOK
<1>2. CASE d \notin r.dates
  <2>1. rec'[d] = rec[d] /\ audit'[d] = audit[d]
    BY <1>2 DEF Store
  <2> QED BY <1>1, <2>1 DEF RecordInv, Backed
<1>3. CASE d \in r.dates
  <2> DEFINE new == r.new[d]
             seen == r.seen[d]
  <2>1. /\ Decides(new) /\ seen \in Record
        /\ seen.status \in Decided => rec[d].status \in Decided
    BY <1>3 DEF Sound, Request
  <2>2. /\ rec'[d] = Written(seen, new, rec[d])
        /\ audit'[d] = audit[d] \cup {AuditEntry(new)}
    BY <1>3 DEF Store
  <2> HIDE DEF new, seen
  <2>3. /\ rec'[d] \in Record
        /\ rec'[d].status = IF new.status = seen.status THEN rec[d].status
                             ELSE new.status
        /\ rec'[d].minutes \in {rec[d].minutes, new.minutes}
    BY <1>1, <2>1, <2>2 DEF Written, Decides, Record
  <2>4. rec'[d].status \in Decided
    BY <2>1, <2>3 DEF Decides
  <2>5. AuditEntry(new) \in Entry
    BY <2>1 DEF AuditEntry, Entry, Decides
  <2>6. new.minutes # 0 => AuditEntry(new) = [to |-> "APPROVED", minutes |-> new.minutes]
    BY <2>1 DEF AuditEntry, Decides, Decided
  <2>7. Backed(d)'
    BY <1>1, <2>2, <2>3, <2>6 DEF RecordInv, Backed
  <2> QED BY <1>1, <1>3, <2>2, <2>3, <2>4, <2>5, <2>7
<1> QED BY <1>2, <1>3

\* A request that is over, or that has only begun, leaves the records alone.
LEMMA RequestStep ==
    ASSUME IInv, Grows, NEW w \in Workers, NEW r, Sound(r)',
           req' = [req EXCEPT ![w] = r],
           UNCHANGED <<enabled, rec, audit, told, asked>>,
           log' \in [Dates -> Nat \cup {Null}]
    PROVE  IInv'
<1>1. /\ req' \in [Workers -> Request]
      /\ \A v \in Workers : Sound(req[v])'
  BY RequestsSound
<1>2. \A d \in Dates : RecordInv(d)'
  BY DEF IInv, RecordInv, Backed, Grows
<1> QED BY <1>1, <1>2 DEF IInv, TypeOK

---------------------------------------------------------------------------
(* One lemma per kind of step. *)

LEMMA CheckOutStep ==
    ASSUME IInv, NEW d \in Dates,
           SystemCheckOut(d) \/ \E w \in Workers : CheckOut(w, d)
    PROVE  IInv'
<1>1. PICK o \in Overtimes : log' = [log EXCEPT ![d] = o]
  BY DEF SystemCheckOut, CheckOut
<1>2. o \in Nat /\ o # Null
  BY MinutesAssumption
<1>3. log' \in [Dates -> Nat \cup {Null}] /\ log'[d] = o
  BY <1>1, <1>2 DEF IInv, TypeOK
<1>4. UNCHANGED <<enabled, rec, audit, told, asked>>
  BY DEF SystemCheckOut, CheckOut
<1>5. Grows
  BY <1>1, <1>2, <1>4 DEF Grows, IInv, TypeOK
<1>6. CASE SystemCheckOut(d)
  <2>1. \A v \in Workers : Sound(req[v])'
    <3>1. ASSUME NEW v \in Workers PROVE Sound(req[v])'
      <4>1. PICK q : q = req[v]
        OBVIOUS
      <4>2. Sound(q)'
        BY <4>1, <1>5, SoundStable DEF IInv
      <4>3. req'[v] = q
        BY <1>6, <4>1 DEF SystemCheckOut
      <4> QED BY <4>2, <4>3 DEF Sound
    <3> QED BY <3>1
  <2>2. \A e \in Dates : RecordInv(e)'
    BY <1>4, <1>5 DEF IInv, RecordInv, Backed, Grows
  <2> QED BY <1>3, <1>4, <1>6, <2>1, <2>2 DEF IInv, TypeOK, SystemCheckOut
<1>7. CASE \E w \in Workers : CheckOut(w, d)
  <2>1. PICK w \in Workers : CheckOut(w, d)
    BY <1>7
  <2>2. PICK p \in Overtimes :
          /\ log' = [log EXCEPT ![d] = p]
          /\ req' = [req EXCEPT ![w] = [Idle EXCEPT !.op = "auto", !.date = d,
                                                    !.time = p]]
    BY <2>1 DEF CheckOut
  <2>3. PICK q : q = [Idle EXCEPT !.op = "auto", !.date = d, !.time = p]
    OBVIOUS
  <2>4. p \in Nat
    BY MinutesAssumption
  <2>5. q \in Request /\ q.op = "auto" /\ q.dates = {} /\ q.date = d /\ q.time = p
    BY <2>3, <2>4, IdleSound DEF Sound, Request, Idle
  <2>6. Sound(q)'
    BY <1>2, <1>3, <2>4, <2>5 DEF Sound
  <2>7. req' = [req EXCEPT ![w] = q]
    BY <2>2, <2>3
  <2> QED BY <1>3, <1>4, <1>5, <2>6, <2>7, RequestStep
<1> QED BY <1>6, <1>7

LEMMA AutoCreateStep ==
    ASSUME IInv, NEW w \in Workers, AutoCreate(w)
    PROVE  IInv'
<1> DEFINE d == req[w].date
<1>1. /\ req[w].op = "auto" /\ req' = [req EXCEPT ![w] = Idle]
      /\ UNCHANGED <<enabled, log, audit, told, asked>>
  BY DEF AutoCreate
<1>2. d \in Dates /\ log[d] # Null /\ req[w].time \in Nat
  BY <1>1 DEF IInv, Sound
<1>3. PICK raw \in {req[w].time, log[d]} \ {Null} :
        \/ /\ Insertable(d)
           /\ rec' = [rec EXCEPT ![d] = [NoRecord EXCEPT !.status = "PENDING",
                                                         !.raw = raw]]
        \/ UNCHANGED rec
  BY DEF AutoCreate
<1>4. raw \in Nat
  BY <1>2, <1>3 DEF IInv, TypeOK
<1> HIDE DEF d
<1>5. CASE UNCHANGED rec
  <2>1. Grows /\ log' \in [Dates -> Nat \cup {Null}]
    BY <1>1, <1>5 DEF Grows, IInv, TypeOK
  <2> QED BY <1>1, <1>5, <2>1, IdleSound, RequestStep
<1>6. CASE /\ Insertable(d)
           /\ rec' = [rec EXCEPT ![d] = [NoRecord EXCEPT !.status = "PENDING",
                                                         !.raw = raw]]
  <2>1. PICK row : row = [NoRecord EXCEPT !.status = "PENDING", !.raw = raw]
    OBVIOUS
  <2>2. row \in Record /\ row.status = "PENDING" /\ row.minutes = Null
    BY <1>4, <2>1 DEF NoRecord, Record, Statuses
  <2>3. /\ rec' \in [Dates -> Record]
        /\ rec'[d] = row
        /\ \A e \in Dates : e # d => rec'[e] = rec[e]
    BY <1>2, <1>6, <2>1, <2>2 DEF IInv, TypeOK
  <2>4. Grows
    BY <1>1, <1>6, <2>3 DEF Grows, Insertable, Decided
  <2>5. \A v \in Workers : Sound(req[v])'
    BY <1>1, <2>4, IdleSound, RequestsSound
  <2>6. req' \in [Workers -> Request]
    BY <1>1, <2>4, IdleSound, RequestsSound
  <2>7. \A e \in Dates : RecordInv(e)'
    BY <1>1, <1>2, <1>6, <2>2, <2>3
    DEF IInv, RecordInv, Backed, Insertable, Decided
  <2> QED BY <1>1, <2>3, <2>5, <2>6, <2>7 DEF IInv, TypeOK
<1> QED BY <1>3, <1>5, <1>6

\* Every decision an administrator begins is one that may be stored.
LEMMA DecisionStep ==
    ASSUME IInv, NEW w \in Workers,
           \/ \E d \in Dates : \/ BeginApprove(w, d) \/ BeginReject(w, d)
                              \/ BeginEdit(w, d)
           \/ \E S \in SUBSET Dates : BeginBulk(w, S)
    PROVE  IInv'
<1>1. ASSUME NEW d \in Dates, NEW m \in Nat
      PROVE  Decides(Approved(d, m)) /\ Decides(Rejected(d))
  <2>1. rec[d] \in Record
    BY DEF IInv, TypeOK
  <2> QED BY <2>1 DEF Decides, Approved, Rejected, Record, Statuses, Decided
<1>2. ASSUME NEW d \in Dates, BeginApprove(w, d) \/ BeginEdit(w, d)
      PROVE  IInv'
  <2>1. PICK m \in Minutes : Begin(w, {d}, [e \in {d} |-> Approved(e, m)])
    BY <1>2 DEF BeginApprove, BeginEdit
  <2>2. rec[d].status # "NONE"
    BY <1>2 DEF BeginApprove, BeginEdit
  <2>3. Decides([e \in {d} |-> Approved(e, m)][d])
    BY <1>1, MinutesAssumption
  <2> QED BY <2>1, <2>2, <2>3, BeginStep
<1>3. ASSUME NEW d \in Dates, BeginReject(w, d)
      PROVE  IInv'
  <2>1. Begin(w, {d}, [e \in {d} |-> Rejected(e)]) /\ rec[d].status # "NONE"
    BY <1>3 DEF BeginReject
  <2>2. Decides([e \in {d} |-> Rejected(e)][d])
    BY <1>1
  <2> QED BY <2>1, <2>2, BeginStep
<1>4. ASSUME NEW S \in SUBSET Dates, BeginBulk(w, S)
      PROVE  IInv'
  <2>1. PICK pending : pending = {d \in S : rec[d].status = "PENDING"}
    OBVIOUS
  <2>2. /\ pending \in SUBSET Dates
        /\ \A d \in pending : rec[d].status # "NONE"
    BY <2>1
  <2>3. \A d \in pending : rec[d].raw \in Nat /\ round_up_to_30(rec[d].raw) \in Nat
    BY <2>2, RoundUpType DEF IInv, TypeOK, Record
  <2>4. CASE Begin(w, pending, [d \in pending |-> Approved(d, rec[d].raw)])
    <3>1. \A d \in pending : Decides(Approved(d, rec[d].raw))
      BY <1>1, <2>2, <2>3
    <3>2. \A d \in pending :
            Decides([e \in pending |-> Approved(e, rec[e].raw)][d])
      BY <3>1
    <3> QED BY <2>2, <2>4, <3>2, BeginStep
  <2>5. CASE Begin(w, pending,
               [d \in pending |-> Approved(d, round_up_to_30(rec[d].raw))])
    <3>1. \A d \in pending : Decides(Approved(d, round_up_to_30(rec[d].raw)))
      BY <1>1, <2>2, <2>3
    <3>2. \A d \in pending :
            Decides([e \in pending |-> Approved(e, round_up_to_30(rec[e].raw))][d])
      BY <3>1
    <3> QED BY <2>2, <2>5, <3>2, BeginStep
  <2> QED BY <1>4, <2>1, <2>4, <2>5 DEF BeginBulk
<1> QED BY <1>2, <1>3, <1>4

LEMMA BeginExceptionStep ==
    ASSUME IInv, NEW w \in Workers, NEW d \in Dates, BeginException(w, d)
    PROVE  IInv'
<1>1. PICK o \in Overtimes, m \in Minutes \cup {Null} :
        LET due == m # Null /\ enabled /\ o > 0
            S   == IF due /\ OutLogFound(d) THEN {d} ELSE {}
            new == [status |-> "APPROVED", raw |-> o, minutes |-> m]
        IN  req' = [req EXCEPT ![w] =
              [Idle EXCEPT !.op = "exception", !.date = d, !.due = due,
                !.out = log[d], !.time = o, !.dates = S,
                !.seen = [e \in Dates |-> IF e \in S THEN rec[e] ELSE NoRecord],
                !.new  = [e \in Dates |-> IF e \in S THEN new ELSE NoRecord]]]
  BY DEF BeginException
<1>2. PICK due \in BOOLEAN : due = (m # Null /\ enabled /\ o > 0)
  OBVIOUS
<1>3. PICK S : S = IF due /\ OutLogFound(d) THEN {d} ELSE {}
  OBVIOUS
<1>4. PICK new : new = [status |-> "APPROVED", raw |-> o, minutes |-> m]
  OBVIOUS
<1>5. o \in Nat /\ m \in Nat \cup {Null}
  BY MinutesAssumption
<1>6. S \subseteq {d} /\ (S # {} => m \in Nat)
  BY <1>2, <1>3, <1>5
<1>7. new \in Record /\ (S # {} => Decides(new))
  BY <1>4, <1>5, <1>6 DEF Record, Statuses, Decided, Decides
<1>8. PICK q : q = [Idle EXCEPT !.op = "exception", !.date = d, !.due = due,
                      !.out = log[d], !.time = o, !.dates = S,
                      !.seen = [e \in Dates |-> IF e \in S THEN rec[e] ELSE NoRecord],
                      !.new  = [e \in Dates |-> IF e \in S THEN new ELSE NoRecord]]
  OBVIOUS
<1>9. req' = [req EXCEPT ![w] = q]
  BY <1>1, <1>2, <1>3, <1>4, <1>8
<1>10. /\ [e \in Dates |-> IF e \in S THEN rec[e] ELSE NoRecord] \in [Dates -> Record]
       /\ [e \in Dates |-> IF e \in S THEN new ELSE NoRecord] \in [Dates -> Record]
       /\ log[d] \in Nat \cup {Null}
  BY <1>7, NoRecordType DEF IInv, TypeOK
<1>11. q \in Request
  BY <1>5, <1>6, <1>8, <1>10, IdleSound DEF Sound, Request
<1>12. /\ q.op = "exception" /\ q.date = d /\ q.time = o /\ q.out = log[d]
       /\ q.dates = S
       /\ \A e \in S : q.seen[e] = rec[e] /\ q.new[e] = new
  BY <1>6, <1>8, IdleSound DEF Sound, Request
<1>13. UNCHANGED <<enabled, log, rec, audit, told, asked>>
  BY DEF BeginException
<1>14. Sound(q)'
  BY <1>5, <1>6, <1>7, <1>11, <1>12, <1>13 DEF Sound
<1>15. Grows /\ log' \in [Dates -> Nat \cup {Null}]
  BY <1>13 DEF Grows, IInv, TypeOK
<1> QED BY <1>9, <1>13, <1>14, <1>15, RequestStep

\* The commit of a decision, alone or with the check-out log it rests on.
LEMMA CommitStep ==
    ASSUME IInv, NEW w \in Workers, Store(req[w]),
           req' = [req EXCEPT ![w] = Idle],
           enabled' = enabled, told' \subseteq Dates, asked' \subseteq Dates,
           log' \in [Dates -> Nat \cup {Null}],
           \A d \in Dates : log[d] # Null => log'[d] # Null,
           \A d \in req[w].dates : log'[d] # Null
    PROVE  IInv'
<1>1. PICK r : r = req[w]
  OBVIOUS
<1>2. Sound(r) /\ Store(r)
  BY <1>1 DEF IInv
<1>3. \A d \in Dates :
        /\ rec'[d] \in Record
        /\ audit'[d] \in SUBSET Entry
        /\ Backed(d)'
        /\ rec'[d].status \in Decided <=> audit'[d] # {}
        /\ rec[d].status \in Decided => rec'[d].status \in Decided
        /\ rec'[d].status # "NONE" => rec[d].status # "NONE" \/ d \in r.dates
  BY <1>2, StoreRecord
<1>4. rec' \in [Dates -> Record] /\ audit' \in [Dates -> SUBSET Entry]
  BY <1>2, <1>3 DEF Store
<1>5. \A d \in Dates : RecordInv(d)'
  BY <1>1, <1>3 DEF RecordInv, IInv
<1>6. Grows
  BY <1>3 DEF Grows
<1>7. req' \in [Workers -> Request] /\ \A v \in Workers : Sound(req[v])'
  BY <1>6, IdleSound, RequestsSound
<1> QED BY <1>4, <1>5, <1>7 DEF IInv, TypeOK

LEMMA CommitDecisionStep ==
    ASSUME IInv, NEW w \in Workers, CommitDecision(w)
    PROVE  IInv'
<1>1. \A d \in req[w].dates : log[d] # Null
  BY DEF IInv, Sound, CommitDecision
<1> QED BY <1>1, CommitStep DEF CommitDecision, IInv, TypeOK

LEMMA CommitExceptionStep ==
    ASSUME IInv, NEW w \in Workers, CommitException(w)
    PROVE  IInv'
<1>1. PICK r : r = req[w]
  OBVIOUS
<1>2. /\ Sound(r) /\ r.op = "exception"
      /\ log' = IF r.time = r.out THEN log ELSE [log EXCEPT ![r.date] = r.time]
      /\ told' = IF Mailed THEN told \cup {r.date} ELSE told
      /\ asked' = IF r.due THEN asked \cup {r.date} ELSE asked
      /\ Store(r) /\ req' = [req EXCEPT ![w] = Idle] /\ enabled' = enabled
  BY <1>1 DEF CommitException, IInv
<1>3. /\ r.date \in Dates /\ r.time \in Nat /\ r.time # Null
      /\ r.dates \subseteq {r.date}
      /\ r.out # Null => log[r.date] # Null
  BY <1>2, MinutesAssumption DEF Sound
<1>4. log' \in [Dates -> Nat \cup {Null}] /\ log'[r.date] # Null
  BY <1>2, <1>3 DEF IInv, TypeOK
<1>5. \A d \in Dates : log[d] # Null => log'[d] # Null
  BY <1>2, <1>3 DEF IInv, TypeOK
<1>6. told' \subseteq Dates /\ asked' \subseteq Dates
  BY <1>2, <1>3 DEF IInv, TypeOK
<1> QED BY <1>1, <1>2, <1>3, <1>4, <1>5, <1>6, CommitStep

LEMMA QuietStep ==
    ASSUME IInv,
           \/ SwitchOvertime
           \/ \E d \in Dates : ApprovePlain(d)
           \/ UNCHANGED vars
    PROVE  IInv'
<1>1. UNCHANGED <<log, rec, audit, asked, req>>
  BY DEF SwitchOvertime, ApprovePlain, vars
<1>2. enabled' \in BOOLEAN /\ told' \subseteq Dates
  BY DEF SwitchOvertime, ApprovePlain, vars, IInv, TypeOK
<1> QED BY <1>1, <1>2 DEF IInv, TypeOK, RecordInv, Backed, Sound

---------------------------------------------------------------------------
LEMMA IInvInit == Init => IInv
<1> SUFFICES ASSUME Init PROVE IInv
  OBVIOUS
<1>1. TypeOK
  BY NoRecordType, IdleSound DEF Init, TypeOK, Sound
<1>2. \A d \in Dates : RecordInv(d)
  BY DEF Init, RecordInv, Backed, NoRecord, Decided
<1>3. \A w \in Workers : Sound(req[w])
  <2>1. \A w \in Workers : req[w] = Idle
    BY DEF Init
  <2> QED BY <2>1, IdleSound
<1> QED BY <1>1, <1>2, <1>3 DEF IInv

LEMMA IInvNext == IInv /\ [Next]_vars => IInv'
<1> SUFFICES ASSUME IInv, [Next]_vars PROVE IInv'
  OBVIOUS
<1>1. CASE SwitchOvertime \/ (\E d \in Dates : ApprovePlain(d)) \/ UNCHANGED vars
  BY <1>1, QuietStep
<1>2. ASSUME NEW d \in Dates,
             SystemCheckOut(d) \/ \E w \in Workers : CheckOut(w, d)
      PROVE  IInv'
  BY <1>2, CheckOutStep
<1>3. ASSUME NEW w \in Workers,
             \/ \E d \in Dates : \/ BeginApprove(w, d) \/ BeginReject(w, d)
                                \/ BeginEdit(w, d)
             \/ \E S \in SUBSET Dates : BeginBulk(w, S)
      PROVE  IInv'
  BY <1>3, DecisionStep
<1>4. ASSUME NEW w \in Workers, NEW d \in Dates, BeginException(w, d)
      PROVE  IInv'
  BY <1>4, BeginExceptionStep
<1>5. ASSUME NEW w \in Workers, AutoCreate(w) PROVE IInv'
  BY <1>5, AutoCreateStep
<1>6. ASSUME NEW w \in Workers, CommitDecision(w) PROVE IInv'
  BY <1>6, CommitDecisionStep
<1>7. ASSUME NEW w \in Workers, CommitException(w) PROVE IInv'
  BY <1>7, CommitExceptionStep
<1>8. ASSUME NEW w \in Workers, Fail(w) PROVE IInv'
  <2>1. Grows /\ log' \in [Dates -> Nat \cup {Null}]
    BY <1>8 DEF Fail, Grows, IInv, TypeOK
  <2> QED BY <1>8, <2>1, IdleSound, RequestStep DEF Fail
<1> QED BY <1>1, <1>2, <1>3, <1>4, <1>5, <1>6, <1>7, <1>8 DEF Next

\* Whatever requests interleave, the tables keep the types of their columns.
THEOREM TypeCorrect == Spec => []TypeOK
<1>1. IInv => TypeOK
  BY DEF IInv
<1> QED BY <1>1, IInvInit, IInvNext, PTL DEF Spec

\* For any number of administrators deciding at once, by any of the endpoints,
\* the payroll pays only minutes that one of them approved.
THEOREM PaidAudited == Spec => []PaidMinutesAreAudited
<1>1. ASSUME IInv, NEW d \in Dates, payable(d) > 0
      PROVE  \E e \in audit[d] : e.to = "APPROVED" /\ e.minutes = payable(d)
  <2>1. rec[d].minutes # Null /\ rec[d].minutes # 0 /\ payable(d) = rec[d].minutes
    BY <1>1 DEF payable
  <2>2. [to |-> "APPROVED", minutes |-> payable(d)] \in audit[d]
    BY <1>1, <2>1 DEF IInv, RecordInv, Backed
  <2> QED BY <2>2
<1>2. IInv => PaidMinutesAreAudited
  BY <1>1 DEF PaidMinutesAreAudited
<1> QED BY <1>2, IInvInit, IInvNext, PTL DEF Spec

\* A decided record never looks undecided, nor the other way round.
THEOREM DecisionsRecorded == Spec => []PendingIsUndecided
<1>1. IInv => PendingIsUndecided
  BY DEF IInv, RecordInv, PendingIsUndecided
<1> QED BY <1>1, IInvInit, IInvNext, PTL DEF Spec

\* No overtime record without a check-out, although they are stored by two
\* transactions of which either may be lost.
THEOREM CheckoutFirst == Spec => []OvertimeHasCheckout
<1>1. IInv => OvertimeHasCheckout
  BY DEF IInv, RecordInv, OvertimeHasCheckout
<1> QED BY <1>1, IInvInit, IInvNext, PTL DEF Spec
=============================================================================
