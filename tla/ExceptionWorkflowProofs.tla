---------------------- MODULE ExceptionWorkflowProofs ---------------------
(***************************************************************************)
(* Theorems about ExceptionWorkflow, for every set of rows and any number  *)
(* of request threads: type correctness; what holds whatever stale         *)
(* requests commit; and, for the rows that no request rewrites from an     *)
(* overtaken copy, that the workflow implements ExceptionLifecycle and     *)
(* what its decisions, purges and extensions keep.                         *)
(***************************************************************************)
EXTENDS ExceptionWorkflow, TLAPS

---------------------------------------------------------------------------
(* Types of the records the handlers build. *)

LEMMA IdleType == Idle \in Request /\ Idle.op \notin RowOps
BY DEF Idle, Request, Time, Statuses, RowOps, Target

LEMMA NoRowType == NoRow \in Row /\ [NoRow EXCEPT !.status = "PURGED"] \in Row
BY DEF NoRow, Row, Time, Statuses

LEMMA NewKeysType ==
    ASSUME NEW S \in SUBSET Ids, NEW event \in Ops
    PROVE  NewKeys(S, event) \in SUBSET Keys
BY DEF NewKeys, Keys

LEMMA TargetType ==
    ASSUME NEW op \in DOMAIN Target
    PROVE  Target[op] \in Statuses /\ op \in Ops /\ op \in RowOps
BY DEF Target, Ops, RowOps, Statuses, Live, Pending, Decided

LEMMA RowType ==
    ASSUME NEW row \in Row, NEW s \in Statuses
    PROVE  /\ [row EXCEPT !.status = s] \in Row
           /\ [row EXCEPT !.status = s, !.submitted = TRUE] \in Row
           /\ \A d \in Decided :
                [row EXCEPT !.status = s, !.decision = d] \in Row
           /\ \A t \in Time : [row EXCEPT !.status = s, !.extended = t] \in Row
BY DEF Row

LEMMA ExpireRowsType ==
    ASSUME TypeOK, NEW S
    PROVE  ExpireRows(S) \in [Ids -> Row]
<1>1. \A i \in Ids : [exc[i] EXCEPT !.status = "EXPIRED"] \in Row
  BY RowType DEF TypeOK, Statuses, Live
<1> QED BY <1>1 DEF ExpireRows, TypeOK

LEMMA WrittenType ==
    ASSUME TypeOK, NEW w \in Workers, req[w].op \in DOMAIN Target
    PROVE  /\ req[w].id \in Ids
           /\ Written(w) \in Statuses
<1>1. Target[req[w].op] \in Statuses /\ req[w].op \in RowOps
  BY TargetType
<1>2. req[w].id \in Ids
  BY <1>1 DEF TypeOK
<1>3. exc[req[w].id].status \in Statuses
  BY <1>2 DEF TypeOK, Row
<1> QED BY <1>1, <1>2, <1>3 DEF Written

---------------------------------------------------------------------------
(* Type correctness of each kind of step. *)

LEMMA OverlapType ==
    ASSUME TypeOK, Overlap
    PROVE  /\ overtaken' \in [Workers -> SUBSET Ids]
           /\ raced' \subseteq Ids
<1>1. Rewritten \subseteq Ids
  BY DEF Rewritten
<1>2. \A w \in Workers : overtaken[w] \cup (RowsOf(w) \cap Rewritten) \subseteq Ids
  BY <1>1 DEF TypeOK
<1> HIDE DEF Rewritten
<1> QED BY <1>1, <1>2 DEF Overlap, TypeOK

LEMMA InsertType ==
    ASSUME TypeOK, NEW i \in Ids, NEW s \in Pending, NEW t \in Time,
           Insert(i, s, t)
    PROVE  exc' \in [Ids -> Row]
<1>1. [NoRow EXCEPT !.status = s, !.origin = s, !.expires = t] \in Row
  BY NoRowType DEF NoRow, Row, Statuses, Live, Pending
<1> QED BY <1>1 DEF Insert, TypeOK

LEMMA FreshRequestType ==
    ASSUME TypeOK, NEW w \in Workers, NEW r \in Request,
           req' = [req EXCEPT ![w] = r],
           r.op \in RowOps => r.id \in Ids
    PROVE  /\ req' \in [Workers -> Request]
           /\ \A v \in Workers : req'[v].op \in RowOps => req'[v].id \in Ids
BY DEF TypeOK

LEMMA BeginType ==
    ASSUME TypeOK, NEW w \in Workers, NEW i \in Ids,
           NEW op \in DOMAIN Target, Begin(w, i, op)
    PROVE  TypeOK'
<1> DEFINE r == [Idle EXCEPT !.op = op, !.id = i, !.seen = exc[i].status]
<1>2. exc[i].status \in Statuses
  BY DEF TypeOK, Row
<1>3. r \in Request /\ r.id = i
  BY <1>2, IdleType, TargetType DEF Request, Idle
<1>4. req' = [req EXCEPT ![w] = r]
  BY DEF Begin
<1> HIDE DEF r
<1>5. /\ req' \in [Workers -> Request]
      /\ \A v \in Workers : req'[v].op \in RowOps => req'[v].id \in Ids
  BY <1>3, <1>4, FreshRequestType
<1> QED BY <1>5, OverlapType DEF Begin, TypeOK

LEMMA DoneType ==
    ASSUME TypeOK, NEW w \in Workers, req' = [req EXCEPT ![w] = Idle]
    PROVE  /\ req' \in [Workers -> Request]
           /\ \A v \in Workers : req'[v].op \in RowOps => req'[v].id \in Ids
           /\ req[w].keys \in SUBSET Keys
<1>1. req[w].keys \in SUBSET Keys
  BY DEF TypeOK, Request
<1> QED BY <1>1, IdleType, FreshRequestType

LEMMA CommitType ==
    ASSUME TypeOK, NEW w \in Workers, NEW op \in DOMAIN Target,
           NEW row \in Row, Commit(w, op, row)
    PROVE  TypeOK'
<1>1. req[w].id \in Ids /\ Target[op] \in Statuses
  BY WrittenType, TargetType DEF Commit
<1>2. AuditRow(req[w].id, Target[op]) \in [id : Ids, to : Statuses]
  BY <1>1 DEF AuditRow
<1>3. exc' \in [Ids -> Row]
  BY <1>1 DEF Commit, TypeOK
<1>4. NewKeys({req[w].id}, op) \in SUBSET Keys
  BY <1>1, TargetType, NewKeysType
<1>5. notified' \subseteq Keys /\ sent' \subseteq Keys
  BY <1>4 DEF Commit, TypeOK
<1>6. overtaken' \in [Workers -> SUBSET Ids] /\ raced' \subseteq Ids
  BY OverlapType DEF Commit
<1> QED BY <1>2, <1>3, <1>5, <1>6, DoneType DEF Commit, TypeOK

LEMMA BeginExtendType ==
    ASSUME TypeOK, NEW w \in Workers, NEW i \in Ids, BeginExtend(w, i)
    PROVE  TypeOK'
<1> PICK h \in ExtendHours :
      req' = [req EXCEPT ![w] =
                [Idle EXCEPT !.op = "extend", !.id = i,
                             !.seen = exc[i].status,
                             !.due = ExtensionBase(exc[i]) + h]]
  BY DEF BeginExtend
<1> DEFINE r == [Idle EXCEPT !.op = "extend", !.id = i,
                             !.seen = exc[i].status,
                             !.due = ExtensionBase(exc[i]) + h]
<1>1. exc[i].status \in Statuses /\ exc[i] \in Row
  BY DEF TypeOK, Row
<1>2. ExtensionBase(exc[i]) \in Nat
  BY <1>1 DEF ExtensionBase, get_effective_deadline, Row, Time, TypeOK
<1>3. ExtensionBase(exc[i]) + h \in Time
  BY <1>2, HoursAssumption DEF Time
<1>4. r \in Request /\ r.id = i
  BY <1>1, <1>3, IdleType DEF Request, Idle, Ops, RowOps
<1>5. req' = [req EXCEPT ![w] = r]
  OBVIOUS
<1> HIDE DEF r
<1>6. /\ req' \in [Workers -> Request]
      /\ \A v \in Workers : req'[v].op \in RowOps => req'[v].id \in Ids
  BY <1>4, <1>5, FreshRequestType
<1> QED BY <1>6, OverlapType DEF BeginExtend, TypeOK

LEMMA BatchType ==
    ASSUME TypeOK, NEW w \in Workers, BeginPurge(w) \/ BeginJob(w) \/ NotifyJob(w)
    PROVE  TypeOK'
<1>1. CASE BeginPurge(w)
  <2> PICK S \in SUBSET Ids :
        req' = [req EXCEPT ![w] = [Idle EXCEPT !.op = "purge",
                                     !.held = OverdueIds, !.ids = S]]
    <3> DEFINE S == {i \in OverdueIds
                          \cup {j \in Ids : exc[j].status = "EXPIRED"} :
                        PastRetention(exc[i])}
    <3>1. S \in SUBSET Ids
      BY DEF OverdueIds
    <3> QED BY <1>1, <3>1 DEF BeginPurge
  <2> DEFINE r == [Idle EXCEPT !.op = "purge", !.held = OverdueIds, !.ids = S]
  <2>1. r \in Request /\ r.op \notin RowOps
    BY IdleType DEF Request, Idle, Ops, RowOps, OverdueIds, Target
  <2>2. req' = [req EXCEPT ![w] = r]
    OBVIOUS
  <2> HIDE DEF r
  <2> QED BY <1>1, <2>1, <2>2, FreshRequestType, OverlapType DEF BeginPurge, TypeOK
<1>2. CASE BeginJob(w)
  <2> PICK S \in SUBSET Ids :
        req' = [req EXCEPT ![w] = [Idle EXCEPT !.op = "job", !.ids = S]]
    BY <1>2 DEF BeginJob
  <2> DEFINE r == [Idle EXCEPT !.op = "job", !.ids = S]
  <2>2. r \in Request /\ r.op \notin RowOps
    BY IdleType DEF Request, Idle, Ops, RowOps, Target
  <2>3. req' = [req EXCEPT ![w] = r]
    OBVIOUS
  <2> HIDE DEF r
  <2> QED BY <1>2, <2>2, <2>3, FreshRequestType, OverlapType DEF BeginJob, TypeOK
<1>3. CASE NotifyJob(w)
  <2> PICK i \in req[w].ids \ req[w].held :
        /\ req[w].op = "job"
        /\ req' = [req EXCEPT ![w] =
                      [req[w] EXCEPT !.held = req[w].held \cup {i},
                             !.keys = req[w].keys \cup NewKeys({i}, "job")]]
        /\ sent' = sent \cup NewKeys({i}, "job")
        /\ UNCHANGED <<now, exc, audit, notified, shown>>
        /\ Overlap
    BY <1>3 DEF NotifyJob
  <2> DEFINE r == [req[w] EXCEPT !.held = req[w].held \cup {i},
                          !.keys = req[w].keys \cup NewKeys({i}, "job")]
  <2>1. req[w] \in Request /\ i \in Ids
    BY DEF TypeOK, Request
  <2>2. NewKeys({i}, "job") \in SUBSET Keys
    BY <2>1, NewKeysType DEF Ops
  <2>3. r \in Request /\ r.op \notin RowOps
    BY <2>1, <2>2 DEF Request, RowOps, Target
  <2>4. req' = [req EXCEPT ![w] = r]
    OBVIOUS
  <2> HIDE DEF r
  <2>5. /\ req' \in [Workers -> Request]
        /\ \A v \in Workers : req'[v].op \in RowOps => req'[v].id \in Ids
    BY <2>3, <2>4, FreshRequestType
  <2> QED BY <2>2, <2>5, OverlapType DEF TypeOK
<1> QED BY <1>1, <1>2, <1>3

LEMMA CommitBatchType ==
    ASSUME TypeOK, NEW w \in Workers, CommitPurge(w) \/ CommitJob(w)
    PROVE  TypeOK'
<1>1. CASE CommitPurge(w)
  <2>1. exc' \in [Ids -> Row]
    BY <1>1, ExpireRowsType, NoRowType DEF CommitPurge
  <2> QED BY <1>1, <2>1, DoneType, OverlapType DEF CommitPurge, TypeOK
<1>2. CASE CommitJob(w)
  <2>1. req[w].ids \in SUBSET Ids
    BY DEF TypeOK, Request
  <2>2. {AuditRow(i, "EXPIRED") : i \in req[w].ids}
          \subseteq [id : Ids, to : Statuses]
    BY <2>1 DEF AuditRow, Statuses, Live
  <2>3. exc' \in [Ids -> Row]
    BY <1>2, ExpireRowsType DEF CommitJob
  <2> QED BY <1>2, <2>2, <2>3, DoneType, OverlapType DEF CommitJob, TypeOK
<1> QED BY <1>1, <1>2

LEMMA CommitRowType ==
    ASSUME TypeOK, NEW w \in Workers,
           \/ CommitSubmit(w) \/ CommitApprove(w) \/ CommitReject(w)
           \/ CommitExpire(w) \/ CommitExtend(w)
    PROVE  TypeOK'
<1>1. ASSUME req[w].op \in DOMAIN Target
      PROVE  Written(w) \in Statuses /\ exc[req[w].id] \in Row
  BY <1>1, WrittenType DEF TypeOK
<1>2. CASE CommitSubmit(w)
  <2>1. [exc[req[w].id] EXCEPT !.status = Written(w), !.submitted = TRUE] \in Row
    BY <1>1, <1>2, RowType DEF CommitSubmit, Commit, Target
  <2> QED BY <1>2, <2>1, CommitType DEF CommitSubmit, Target
<1>3. CASE CommitApprove(w)
  <2>1. [exc[req[w].id] EXCEPT !.status = Written(w), !.decision = "APPROVED"] \in Row
    BY <1>1, <1>3, RowType DEF CommitApprove, Commit, Target, Decided
  <2> QED BY <1>3, <2>1, CommitType DEF CommitApprove, Target
<1>4. CASE CommitReject(w)
  <2>1. [exc[req[w].id] EXCEPT !.status = Written(w), !.decision = "REJECTED"] \in Row
    BY <1>1, <1>4, RowType DEF CommitReject, Commit, Target, Decided
  <2> QED BY <1>4, <2>1, CommitType DEF CommitReject, Target
<1>5. CASE CommitExpire(w)
  <2>1. [exc[req[w].id] EXCEPT !.status = Written(w)] \in Row
    BY <1>1, <1>5, RowType DEF CommitExpire, Commit, Target
  <2> QED BY <1>5, <2>1, CommitType DEF CommitExpire, Target
<1>6. CASE CommitExtend(w)
  <2> DEFINE s == IF req[w].seen = "EXPIRED" THEN "PENDING_EMPLOYEE"
                                             ELSE exc[req[w].id].status
  <2>1. req[w].id \in Ids /\ req[w].due \in Time
    BY <1>6 DEF CommitExtend, TypeOK, Request, RowOps
  <2>2. exc[req[w].id] \in Row /\ s \in Statuses
    BY <2>1 DEF TypeOK, Row, Statuses, Live, Pending
  <2>3. [exc[req[w].id] EXCEPT !.status = s, !.extended = req[w].due] \in Row
    BY <2>1, <2>2, RowType
  <2>4. exc' = [exc EXCEPT ![req[w].id] = [exc[req[w].id] EXCEPT
                               !.status = s, !.extended = req[w].due]]
    BY <1>6 DEF CommitExtend
  <2>5. exc' \in [Ids -> Row]
    BY <2>3, <2>4 DEF TypeOK
  <2> QED BY <1>6, <2>5, DoneType, OverlapType DEF CommitExtend, TypeOK
<1> QED BY <1>2, <1>3, <1>4, <1>5, <1>6

LEMMA CreateInserts ==
    ASSUME TypeOK, NEW i \in Ids,
           CreateSystem(i) \/ CreateDetected(i) \/ CreateFace(i)
    PROVE  \E s \in Pending, t \in Time : Insert(i, s, t)
<1>1. \A h \in PolicyHours : now + h \in Time
  BY HoursAssumption DEF TypeOK, Time
<1>2. NoTime \in Time /\ \A t \in Deadlines \cup {NoTime} : t \in Time
  BY HoursAssumption DEF Time
<1> QED BY <1>1, <1>2 DEF CreateSystem, CreateDetected, CreateFace, Pending

LEMMA TypeStep == TypeOK /\ [Next]_vars => TypeOK'
<1> SUFFICES ASSUME TypeOK, [Next]_vars PROVE TypeOK'
  OBVIOUS
<1>1. CASE Tick
  BY <1>1, OverlapType DEF Tick, TypeOK
<1>2. ASSUME NEW i \in Ids, CreateSystem(i) \/ CreateDetected(i) \/ CreateFace(i)
      PROVE  TypeOK'
  <2>1. exc' \in [Ids -> Row]
    <3> PICK s \in Pending, t \in Time : Insert(i, s, t)
      BY <1>2, CreateInserts
    <3> QED BY InsertType
  <2>2. \A s \in Pending : AuditRow(i, s) \in [id : Ids, to : Statuses]
    BY DEF AuditRow, Statuses, Live
  <2>3. {<<i, "detected">>} \subseteq Keys
    BY DEF Keys
  <2>4. now' = now /\ shown' = shown /\ req' = req
    BY <1>2 DEF CreateSystem, CreateDetected, CreateFace, Insert
  <2>5. audit' \subseteq [id : Ids, to : Statuses]
    <3>1. \A s \in Pending :
            audit \cup {AuditRow(i, s)} \subseteq [id : Ids, to : Statuses]
      BY <2>2 DEF TypeOK
    <3>2. audit' = audit \/ \E s \in Pending : audit' = audit \cup {AuditRow(i, s)}
      BY <1>2 DEF CreateSystem, CreateDetected, CreateFace, Pending
    <3> QED BY <3>1, <3>2 DEF TypeOK
  <2>6. notified' \subseteq Keys /\ sent' \subseteq Keys
    <3>1. \/ notified' = notified /\ sent' = sent
          \/ /\ notified' = notified \cup {<<i, "detected">>}
             /\ sent' = sent \cup {<<i, "detected">>}
      BY <1>2 DEF CreateSystem, CreateDetected, CreateFace, Announce
    <3> QED BY <2>3, <3>1 DEF TypeOK
  <2>7. Overlap
    BY <1>2 DEF CreateSystem, CreateDetected, CreateFace, Insert
  <2> QED BY <2>1, <2>4, <2>5, <2>6, <2>7, OverlapType DEF TypeOK
<1>3. ASSUME NEW i \in Ids, View(i) PROVE TypeOK'
  BY <1>3, OverlapType DEF View, TypeOK
<1>4. ASSUME NEW w \in Workers, NEW i \in Ids, RowRequest(w, i)
      PROVE  TypeOK'
  BY <1>4, BeginType, BeginExtendType
     DEF RowRequest, BeginSubmit, BeginApprove, BeginReject, BeginExpire, Target
<1>5. ASSUME NEW w \in Workers, BatchExpire(w) PROVE TypeOK'
  BY <1>5, ExpireRowsType, OverlapType DEF BatchExpire, TypeOK
<1>6. ASSUME NEW w \in Workers, BeginPurge(w) \/ BeginJob(w) \/ NotifyJob(w) PROVE TypeOK'
  BY <1>6, BatchType
<1>7. ASSUME NEW w \in Workers, Finish(w) PROVE TypeOK'
  <2>1. CASE RollbackApprove(w)
    <3>1. "approve" \in DOMAIN Target /\ "approve" \in Ops
      BY DEF Target, Ops, RowOps
    <3>2. req[w].id \in Ids
      BY <2>1, <3>1, WrittenType DEF RollbackApprove
    <3>3. NewKeys({req[w].id}, "approve") \in SUBSET Keys
      BY <3>1, <3>2, NewKeysType
    <3> QED BY <2>1, <3>3, DoneType, OverlapType DEF RollbackApprove, TypeOK
  <2>2. CASE Fail(w)
    BY <2>2, DoneType, OverlapType DEF Fail, TypeOK
  <2> QED BY <1>7, <2>1, <2>2, CommitRowType, CommitBatchType DEF Finish
<1>8. CASE UNCHANGED vars
  BY <1>8 DEF vars, TypeOK
<1> QED BY <1>1, <1>2, <1>3, <1>4, <1>5, <1>6, <1>7, <1>8 DEF Next

(***************************************************************************)
(* Every reachable state of the workflow is well typed.                    *)
(***************************************************************************)
THEOREM TypeCorrect == Spec => []TypeOK
<1>1. Init => TypeOK
  BY NoRowType, IdleType DEF Init, TypeOK
<1> QED BY <1>1, TypeStep, PTL DEF Spec

---------------------------------------------------------------------------
(* What one step can do to one row.  Every step does one of these things to *)
(* each row, so an invariant of the rows needs one case for each of them    *)
(* and not one for each of the actions.                                     *)

SameColumns(old, new) ==
    /\ new.origin = old.origin
    /\ new.expires = old.expires
    /\ new.submitted = old.submitted

Inserted(i) ==
    /\ exc[i].status = "NONE"
    /\ exc'[i].status \in Pending
    /\ exc'[i].origin = exc'[i].status
    /\ exc'[i].extended = NoTime

Moved(w, i) ==
    /\ req[w].op \in DOMAIN Target
    /\ req[w].id = i
    /\ req'[w] = Idle
    /\ Exists(i)
    /\ exc'[i].status = IF req[w].seen = Target[req[w].op]
                         THEN exc[i].status ELSE Target[req[w].op]
    /\ exc'[i].decision = IF req[w].op \in {"approve", "reject"}
                           THEN Target[req[w].op] ELSE exc[i].decision
    /\ audit' = audit \cup {AuditRow(i, Target[req[w].op])}
    /\ exc'[i].origin = exc[i].origin
    /\ exc'[i].expires = exc[i].expires
    /\ exc'[i].extended = exc[i].extended
    /\ (exc[i].submitted \/ req[w].op = "submit") => exc'[i].submitted

Prolonged(w, i) ==
    /\ req[w].op = "extend"
    /\ req[w].id = i
    /\ req'[w] = Idle
    /\ Exists(i)
    /\ exc'[i].status = IF req[w].seen = "EXPIRED" THEN "PENDING_EMPLOYEE"
                                                  ELSE exc[i].status
    /\ SameColumns(exc[i], exc'[i])
    /\ exc'[i].extended = req[w].due
    /\ shown' = shown \ {i}

Expired(i) ==
    /\ \/ i \in OverdueIds
       \/ \E w \in Workers : i \in Expiring(w) /\ req'[w] = Idle
    /\ Exists(i)
    /\ exc'[i].status = "EXPIRED"
    /\ SameColumns(exc[i], exc'[i])
    /\ exc'[i].extended = exc[i].extended

Deleted(w, i) ==
    /\ req[w].op = "purge"
    /\ i \in req[w].ids
    /\ req'[w] = Idle
    /\ req'[w] # req[w]
    /\ \A v \in Workers \ {w} : i \notin req[v].held
    /\ \A a \in audit' : a.id # i
    /\ \A n \in notified' : n[1] # i
    /\ exc'[i] = [NoRow EXCEPT !.status = "PURGED"]

RowEffect(i) ==
    \/ exc'[i] = exc[i]
    \/ Inserted(i)
    \/ \E w \in Workers : Moved(w, i) \/ Prolonged(w, i) \/ Deleted(w, i)
    \/ Expired(i)

LEMMA ExpireRowsEffect ==
    ASSUME TypeOK, NEW S, NEW i \in Ids, i \in S
    PROVE  /\ ExpireRows(S)[i].status = "EXPIRED"
           /\ SameColumns(exc[i], ExpireRows(S)[i])
           /\ ExpireRows(S)[i].extended = exc[i].extended
<1>1. ExpireRows(S)[i] = [exc[i] EXCEPT !.status = "EXPIRED"]
  BY DEF ExpireRows
<1>2. exc[i] \in Row
  BY DEF TypeOK
<1> QED BY <1>1, <1>2 DEF SameColumns, Row

LEMMA CommitEffect ==
    ASSUME TypeOK, NEW w \in Workers, NEW i \in Ids,
           NEW op \in DOMAIN Target, NEW row, Commit(w, op, row),
           row.status = Written(w),
           row.origin = exc[req[w].id].origin,
           row.expires = exc[req[w].id].expires,
           row.extended = exc[req[w].id].extended,
           row.decision = (IF op \in {"approve", "reject"}
                           THEN Target[op] ELSE exc[req[w].id].decision),
           (exc[req[w].id].submitted \/ op = "submit") => row.submitted
    PROVE  exc'[i] = exc[i] \/ Moved(w, i)
<1>1. /\ req[w].op = op /\ Exists(req[w].id)
      /\ exc' = [exc EXCEPT ![req[w].id] = row]
      /\ audit' = audit \cup {AuditRow(req[w].id, Target[op])}
      /\ req'[w] = Idle
  BY DEF Commit, Flushes, TypeOK
<1>2. Written(w) = IF req[w].seen = Target[req[w].op]
                   THEN exc[req[w].id].status ELSE Target[req[w].op]
  BY DEF Written
<1>3. CASE i # req[w].id
  BY <1>1, <1>3 DEF TypeOK
<1>4. CASE i = req[w].id
  <2>1. exc'[i] = row
    BY <1>1, <1>4 DEF TypeOK
  <2> QED BY <1>1, <1>2, <1>4, <2>1 DEF Moved
<1> QED BY <1>3, <1>4

LEMMA DecideEffect ==
    ASSUME TypeOK, NEW w \in Workers, NEW i \in Ids,
           \/ CommitSubmit(w) \/ CommitApprove(w) \/ CommitReject(w)
           \/ CommitExpire(w)
    PROVE  exc'[i] = exc[i] \/ Moved(w, i)
<1>1. exc[req[w].id] \in Row
  BY WrittenType DEF CommitSubmit, CommitApprove, CommitReject, CommitExpire,
                     Commit, Target, TypeOK
<1>2. \A op \in {"submit", "approve", "reject", "expire"} : op \in DOMAIN Target
  BY DEF Target
<1>3. CASE CommitSubmit(w)
  BY <1>1, <1>2, <1>3, CommitEffect DEF CommitSubmit, Row, Target
<1>4. CASE CommitApprove(w)
  BY <1>1, <1>2, <1>4, CommitEffect DEF CommitApprove, Row, Target
<1>5. CASE CommitReject(w)
  BY <1>1, <1>2, <1>5, CommitEffect DEF CommitReject, Row, Target
<1>6. CASE CommitExpire(w)
  BY <1>1, <1>2, <1>6, CommitEffect DEF CommitExpire, Row, Target
<1> QED BY <1>3, <1>4, <1>5, <1>6

LEMMA ExtendEffect ==
    ASSUME TypeOK, NEW w \in Workers, NEW i \in Ids, CommitExtend(w)
    PROVE  exc'[i] = exc[i] \/ Prolonged(w, i)
<1>1. /\ req[w].op = "extend" /\ req[w].id \in Ids /\ Exists(req[w].id)
      /\ req'[w] = Idle
  BY DEF CommitExtend, TypeOK, RowOps
<1>2. exc[req[w].id] \in Row
  BY <1>1 DEF TypeOK
<1> DEFINE s == IF req[w].seen = "EXPIRED" THEN "PENDING_EMPLOYEE"
                                           ELSE exc[req[w].id].status
<1>3. exc' = [exc EXCEPT ![req[w].id] = [exc[req[w].id] EXCEPT
                               !.status = s, !.extended = req[w].due]]
  BY DEF CommitExtend
<1>4. CASE i # req[w].id
  BY <1>3, <1>4 DEF TypeOK
<1>5. CASE i = req[w].id
  <2>1. exc'[i] = [exc[i] EXCEPT !.status = s, !.extended = req[w].due]
    BY <1>3, <1>5 DEF TypeOK
  <2>2. shown' = shown \ {i}
    BY <1>5 DEF CommitExtend
  <2> QED BY <1>1, <1>2, <1>3, <1>5, <2>1, <2>2 DEF Prolonged, SameColumns, Row
<1> QED BY <1>4, <1>5

LEMMA BatchEffect ==
    ASSUME TypeOK, RequestsJustified, NEW w \in Workers, NEW i \in Ids,
           BatchExpire(w) \/ CommitPurge(w) \/ CommitJob(w)
    PROVE  exc'[i] = exc[i] \/ Expired(i) \/ Deleted(w, i)
<1>1. ASSUME NEW S, i \notin S PROVE ExpireRows(S)[i] = exc[i]
  BY <1>1 DEF ExpireRows
<1>2. CASE BatchExpire(w)
  <2>1. i \in OverdueIds => Exists(i)
    BY DEF OverdueIds, Overdue, Exists, Live, Pending
  <2> QED BY <1>1, <1>2, <2>1, ExpireRowsEffect DEF BatchExpire, Expired
<1>3. CASE CommitPurge(w)
  <2>1. /\ req[w].held = Expiring(w) /\ req'[w] = Idle
        /\ \A j \in req[w].held : Exists(j)
    BY <1>3 DEF CommitPurge, Expiring, RequestsJustified, Justified, TypeOK
  <2>2. CASE i \in req[w].ids
    <3>1. req'[w] = Idle /\ req[w] # Idle
      BY <1>3 DEF CommitPurge, TypeOK, Idle
    <3>2. \A v \in Workers \ {w} : i \notin req[v].held
      BY <1>3, <2>2 DEF CommitPurge, UnlockedFor
    <3>3. /\ exc'[i] = [NoRow EXCEPT !.status = "PURGED"]
          /\ req[w].op = "purge"
      BY <1>3, <2>2 DEF CommitPurge
    <3>4. (\A a \in audit' : a.id # i) /\ (\A n \in notified' : n[1] # i)
      BY <1>3, <2>2 DEF CommitPurge
    <3> QED BY <2>2, <3>1, <3>2, <3>3, <3>4 DEF Deleted
  <2>3. CASE i \notin req[w].ids
    <3>1. exc'[i] = ExpireRows(req[w].held)[i]
      BY <1>3, <2>3 DEF CommitPurge
    <3> QED BY <1>1, <2>1, <3>1, ExpireRowsEffect DEF Expired
  <2> QED BY <2>2, <2>3
<1>4. CASE CommitJob(w)
  <2>1. /\ req[w].ids = Expiring(w)
        /\ exc' = ExpireRows(req[w].ids)
        /\ \A j \in req[w].ids : Exists(j)
        /\ req'[w] = Idle
    BY <1>4 DEF CommitJob, Expiring, TypeOK
  <2> QED BY <1>1, <2>1, ExpireRowsEffect DEF Expired
<1> QED BY <1>2, <1>3, <1>4

LEMMA InsertEffect ==
    ASSUME TypeOK, NEW i \in Ids, NEW j \in Ids, NEW s \in Pending, NEW t,
           Insert(j, s, t)
    PROVE  exc'[i] = exc[i] \/ Inserted(i)
<1>1. CASE i # j
  BY <1>1 DEF Insert, TypeOK
<1>2. CASE i = j
  <2>1. exc'[i] = [NoRow EXCEPT !.status = s, !.origin = s, !.expires = t]
    BY <1>2 DEF Insert, TypeOK
  <2> QED BY <1>2, <2>1 DEF Insert, Inserted, NoRow
<1> QED BY <1>1, <1>2

LEMMA StepEffect ==
    ASSUME TypeOK, RequestsJustified, [Next]_vars, NEW i \in Ids
    PROVE  RowEffect(i)
<1>1. ASSUME NEW j \in Ids, CreateSystem(j) \/ CreateDetected(j) \/ CreateFace(j)
      PROVE  RowEffect(i)
  <2>1. PICK s \in Pending, t \in Time : Insert(j, s, t)
    BY <1>1, CreateInserts
  <2> QED BY <2>1, InsertEffect DEF RowEffect
<1>2. ASSUME NEW w \in Workers, Finish(w) PROVE RowEffect(i)
  <2>1. CASE RollbackApprove(w) \/ Fail(w)
    BY <2>1 DEF RollbackApprove, Fail, RowEffect
  <2> QED BY <1>2, <2>1, DecideEffect, ExtendEffect, BatchEffect
          DEF Finish, RowEffect
<1>3. ASSUME NEW w \in Workers, BatchExpire(w) PROVE RowEffect(i)
  BY <1>3, BatchEffect DEF RowEffect
<1>4. ASSUME exc' = exc PROVE RowEffect(i)
  BY <1>4 DEF RowEffect
<1>5. ASSUME NEW w \in Workers, NEW j \in Ids, RowRequest(w, j)
      PROVE  exc' = exc
  BY <1>5 DEF RowRequest, BeginSubmit, BeginApprove, BeginReject, BeginExpire,
              BeginExtend, Begin
<1>6. ASSUME NEW w \in Workers, BeginPurge(w) \/ BeginJob(w) \/ NotifyJob(w)
      PROVE  exc' = exc
  BY <1>6 DEF BeginPurge, BeginJob, NotifyJob
<1>7. ASSUME Tick \/ UNCHANGED vars \/ \E j \in Ids : View(j)
      PROVE  exc' = exc
  BY <1>7 DEF Tick, vars, View
<1> QED BY <1>1, <1>2, <1>3, <1>4, <1>5, <1>6, <1>7 DEF Next

---------------------------------------------------------------------------
(* The inductive invariant.  What a stale request commits is right because *)
(* what it checked when it loaded the row still holds: deadlines never      *)
(* change once given, the clock only advances, and an explanation is never  *)
(* withdrawn.                                                               *)

IInv == /\ TypeOK
        /\ DecidedOnlyAfterExplanation
        /\ ExpiredOnlyAfterExpiresAt
        /\ DeadlinesOrdered
        /\ RequestsJustified

\* What a request learned about row i outlives every step.
RowKept(i) ==
    /\ exc[i].status # "NONE" =>
         /\ exc'[i].status # "NONE"
         /\ exc'[i].expires # NoTime => exc'[i].expires = exc[i].expires
         /\ Exists(i)' => Exists(i)
    /\ (Exists(i) /\ Explained(exc[i])) => Explained(exc'[i]) \/ ~Exists(i)'

LEMMA TargetIsLive == \A op \in DOMAIN Target : Target[op] \in Live
BY DEF Target, Live, Pending, Decided

LEMMA RowIsKept ==
    ASSUME TypeOK, RequestsJustified, [Next]_vars, NEW i \in Ids
    PROVE  RowKept(i)
<1>1. CASE exc'[i] = exc[i]
  BY <1>1 DEF RowKept, Exists, Explained
<1>2. CASE Inserted(i)
  BY <1>2 DEF Inserted, RowKept, Exists, Live, Pending, Decided
<1>3. ASSUME NEW w \in Workers, Moved(w, i) PROVE RowKept(i)
  <2>1. exc[i].status \in Live /\ exc'[i].status \in Live
    BY <1>3, TargetIsLive DEF Moved, Exists
  <2>2. Explained(exc[i]) => Explained(exc'[i])
    BY <1>3 DEF Moved, Explained
  <2>3. exc'[i].expires = exc[i].expires /\ "NONE" \notin Live
    BY <1>3 DEF Moved, Live, Pending, Decided
  <2> QED BY <2>1, <2>2, <2>3 DEF RowKept, Exists
<1>4. ASSUME NEW w \in Workers, Prolonged(w, i) PROVE RowKept(i)
  BY <1>4 DEF Prolonged, SameColumns, RowKept, Exists, Explained, Live, Pending
<1>5. CASE Expired(i)
  BY <1>5 DEF Expired, SameColumns, RowKept, Exists, Explained, Live
<1>6. ASSUME NEW w \in Workers, Deleted(w, i) PROVE RowKept(i)
  BY <1>6 DEF Deleted, RowKept, Exists, NoRow, Live, Pending, Decided
<1> QED BY <1>1, <1>2, <1>3, <1>4, <1>5, <1>6, StepEffect DEF RowEffect

LEMMA HeldIsKept ==
    ASSUME TypeOK, RequestsJustified, [Next]_vars,
           NEW w \in Workers, req'[w] = req[w],
           NEW i \in Ids, i \in req[w].held
    PROVE  Exists(i)'
<1>1. Exists(i)
  BY DEF RequestsJustified, Justified
<1>2. ASSUME NEW v \in Workers, Deleted(v, i) PROVE FALSE
  BY <1>2 DEF Deleted
<1>3. ASSUME NEW v \in Workers, Moved(v, i) PROVE Exists(i)'
  BY <1>1, <1>3, TargetIsLive DEF Moved, Exists
<1>4. ASSUME NEW v \in Workers, Prolonged(v, i) PROVE Exists(i)'
  BY <1>1, <1>4 DEF Prolonged, Exists, Live, Pending
<1> QED
  BY <1>1, <1>2, <1>3, <1>4, StepEffect
     DEF RowEffect, Inserted, Expired, Exists, Live, Pending

LEMMA ClockAdvances ==
    ASSUME TypeOK, [Next]_vars
    PROVE  now \in Nat /\ now' \in Nat /\ now <= now'
<1>1. now \in Nat
  BY DEF TypeOK
<1>2. now' = now \/ now' = now + 1
  <2>1. ASSUME NEW w \in Workers, Finish(w) PROVE now' = now
    BY <2>1 DEF Finish, CommitSubmit, CommitApprove, RollbackApprove,
                CommitReject, CommitExpire, CommitExtend, CommitPurge,
                CommitJob, Commit, Fail
  <2>2. ASSUME NEW w \in Workers, NEW i \in Ids, RowRequest(w, i)
        PROVE  now' = now
    BY <2>2 DEF RowRequest, BeginSubmit, BeginApprove, BeginReject,
                BeginExpire, BeginExtend, Begin
  <2>3. ASSUME NEW w \in Workers, BatchExpire(w) \/ BeginPurge(w) \/ BeginJob(w) \/ NotifyJob(w)
        PROVE  now' = now
    BY <2>3 DEF BatchExpire, BeginPurge, BeginJob, NotifyJob
  <2>4. ASSUME NEW i \in Ids,
               CreateSystem(i) \/ CreateDetected(i) \/ CreateFace(i) \/ View(i)
        PROVE  now' = now
    BY <2>4 DEF CreateSystem, CreateDetected, CreateFace, View, Insert
  <2> QED BY <2>1, <2>2, <2>3, <2>4 DEF Next, Tick, vars
<1> QED BY <1>1, <1>2

\* A request that is not touched by the step stays justified.
LEMMA StaysJustified ==
    ASSUME IInv, [Next]_vars, NEW w \in Workers, req'[w] = req[w]
    PROVE  Justified(w)'
<1> USE DEF IInv
<1>1. Justified(w)
  BY DEF RequestsJustified
<1>2. \A i \in Ids : RowKept(i) /\ exc[i] \in Row /\ exc'[i] \in Row
  BY RowIsKept, TypeStep DEF TypeOK
<1>3. /\ req[w].op \in RowOps => req[w].id \in Ids
      /\ req[w].held \subseteq Ids
      /\ Expiring(w) \subseteq Ids
      /\ req[w].ids \subseteq Ids
      /\ req[w].due \in Time
  <2>1. req[w] \in Request /\ (req[w].op \in RowOps => req[w].id \in Ids)
    BY DEF TypeOK
  <2> QED BY <2>1 DEF Request, Expiring, RowOps, Target
<1>4. Expiring(w)' = Expiring(w)
  BY DEF Expiring
<1>5. req[w].op \in RowOps => exc'[req[w].id].status # "NONE"
  BY <1>1, <1>2, <1>3 DEF Justified, RowKept
<1>6. \A i \in req[w].held : Exists(i)'
  BY <1>3, HeldIsKept
<1>7. ASSUME NEW i \in Expiring(w) \cup req[w].ids
      PROVE  /\ exc'[i].status # "NONE"
             /\ exc'[i].expires # NoTime => exc'[i].expires <= now'
  <2>1. exc[i].status # "NONE" /\ (exc[i].expires # NoTime => exc[i].expires <= now)
    BY <1>1 DEF Justified
  <2>2. RowKept(i) /\ exc[i].expires \in Time
    BY <1>2, <1>3 DEF Row
  <2> QED BY <2>1, <2>2, ClockAdvances DEF RowKept, Time
<1>8. (req[w].op = "extend" /\ exc'[req[w].id].expires # NoTime)
        => exc'[req[w].id].expires <= req[w].due
  BY <1>1, <1>2, <1>3 DEF Justified, RowKept, RowOps
<1>9. ASSUME req[w].op \in {"approve", "reject"}, Exists(req[w].id)'
      PROVE  Explained(exc'[req[w].id])
  <2>1. req[w].op \in RowOps
    BY <1>9 DEF RowOps, Target
  <2>2. Exists(req[w].id) /\ Explained(exc[req[w].id])
    BY <1>1, <1>2, <1>3, <1>9, <2>1 DEF Justified, RowKept
  <2> QED BY <1>2, <1>3, <1>9, <2>1, <2>2 DEF RowKept
<1> QED BY <1>4, <1>5, <1>6, <1>7, <1>8, <1>9 DEF Justified, Explained, Exists

\* A request is justified when it is made.
LEMMA BeginJustified ==
    ASSUME IInv, NEW w \in Workers, NEW i \in Ids, RowRequest(w, i)
    PROVE  Justified(w)'
<1> USE DEF IInv
<1>1. exc[i] \in Row /\ now \in Nat
  BY DEF TypeOK
<1>2. ASSUME NEW op \in DOMAIN Target, Begin(w, i, op),
             op = "expire" => (exc[i].expires # NoTime => exc[i].expires <= now)
      PROVE  Justified(w)'
  <2>1. /\ req'[w].op = op /\ req'[w].id = i /\ req'[w].held = {}
        /\ req'[w].ids = {} /\ exc' = exc /\ now' = now
    BY <1>2 DEF Begin, Idle, TypeOK
  <2>2. Exists(i) /\ exc[i].status # "NONE"
    BY <1>2 DEF Begin, Exists, Live, Pending, Decided
  <2>3. op \in {"approve", "reject"} => Explained(exc[i])
    <3>1. op \in {"approve", "reject"} =>
            exc[i].status \in Decided \cup {"PENDING_ADMIN"}
      BY <1>2 DEF Begin, CanTransition, ALLOWED_TRANSITIONS, Target, Exists,
                  Decided
    <3> QED BY <3>1 DEF DecidedOnlyAfterExplanation
  <2>4. op # "extend" /\ op # "job" /\ op # "purge"
    BY DEF Target
  <2>5. Expiring(w)' = IF op = "expire" THEN {i} ELSE {}
    BY <2>1, <2>4 DEF Expiring
  <2> QED BY <1>2, <2>1, <2>2, <2>3, <2>4, <2>5
          DEF Justified, Exists, Explained
<1>3. CASE BeginExtend(w, i)
  <2>1. PICK h \in ExtendHours :
          /\ req'[w].op = "extend" /\ req'[w].id = i /\ req'[w].held = {}
          /\ req'[w].ids = {}
          /\ req'[w].due = ExtensionBase(exc[i]) + h
    BY <1>3 DEF BeginExtend, TypeOK, Idle
  <2>2. exc' = exc /\ now' = now /\ exc[i].status # "NONE"
    BY <1>3 DEF BeginExtend
  <2>3. Expiring(w)' = {}
    BY <2>1 DEF Expiring
  <2>4. exc[i].expires # NoTime => exc[i].expires <= req'[w].due
    <3>1. (exc[i].expires # NoTime /\ exc[i].extended # NoTime)
            => exc[i].expires <= exc[i].extended
      BY DEF DeadlinesOrdered
    <3>2. h \in Nat
      BY HoursAssumption
    <3> QED BY <1>1, <2>1, <3>1, <3>2, NoTimeAssumption
            DEF ExtensionBase, get_effective_deadline, Past, Row, Time
  <2> QED BY <2>1, <2>2, <2>3, <2>4 DEF Justified, Exists, Explained
<1>4. CASE BeginSubmit(w, i) \/ BeginApprove(w, i) \/ BeginReject(w, i)
  BY <1>2, <1>4 DEF BeginSubmit, BeginApprove, BeginReject, Target
<1>5. CASE BeginExpire(w, i)
  BY <1>2, <1>5 DEF BeginExpire, Target
<1> QED BY <1>3, <1>4, <1>5 DEF RowRequest

LEMMA OverdueIsPast ==
    ASSUME IInv, NEW i \in OverdueIds
    PROVE  /\ i \in Ids
           /\ Exists(i)
           /\ exc[i].status = "PENDING_EMPLOYEE"
           /\ exc[i].expires # NoTime => exc[i].expires <= now
<1>1. i \in Ids /\ Overdue(exc[i]) /\ exc[i] \in Row /\ now \in Nat
  BY DEF OverdueIds, IInv, TypeOK
<1>2. (exc[i].expires # NoTime /\ exc[i].extended # NoTime)
        => exc[i].expires <= exc[i].extended
  BY <1>1 DEF IInv, DeadlinesOrdered
<1> QED BY <1>1, <1>2
        DEF Overdue, Past, get_effective_deadline, Exists, Live, Pending, Row, Time

\* What the job changes while it goes through its rows: the request alone.
LEMMA NotifyJobSets ==
    ASSUME TypeOK, NEW w \in Workers, NotifyJob(w)
    PROVE  \E i \in req[w].ids :
             /\ Exists(i) /\ exc' = exc /\ now' = now
             /\ req[w].op = "job" /\ req'[w].op = "job"
             /\ req'[w].ids = req[w].ids
             /\ req'[w].held = req[w].held \cup {i}
             /\ \A v \in Workers \ {w} : req'[v] = req[v]
<1>1. PICK i \in req[w].ids \ req[w].held :
        /\ req[w].op = "job" /\ Exists(i) /\ exc' = exc /\ now' = now
        /\ req' = [req EXCEPT ![w] =
                     [req[w] EXCEPT !.held = req[w].held \cup {i},
                                    !.keys = req[w].keys
                                               \cup NewKeys({i}, "job")]]
  BY DEF NotifyJob
<1>2. req \in [Workers -> Request]
  BY DEF TypeOK
<1> HIDE DEF NewKeys
<1>3. req'[w] = [req[w] EXCEPT !.held = req[w].held \cup {i},
                               !.keys = req[w].keys \cup NewKeys({i}, "job")]
  BY <1>1, <1>2
<1>4. req[w] \in Request
  BY <1>2
<1>5. /\ req'[w].op = req[w].op /\ req'[w].ids = req[w].ids
      /\ req'[w].held = req[w].held \cup {i}
  BY <1>3, <1>4 DEF Request
<1>6. \A v \in Workers \ {w} : req'[v] = req[v]
  BY <1>1, <1>2
<1> QED BY <1>1, <1>5, <1>6

LEMMA BatchJustified ==
    ASSUME IInv, NEW w \in Workers, BeginPurge(w) \/ BeginJob(w) \/ NotifyJob(w)
    PROVE  Justified(w)'
<1>1. exc' = exc /\ now' = now
  BY DEF BeginPurge, BeginJob, NotifyJob
<1>2. CASE BeginPurge(w)
  <2>1. /\ req'[w].op = "purge" /\ req'[w].held = OverdueIds
        /\ req'[w].ids \subseteq OverdueIds
                \cup {j \in Ids : exc[j].status = "EXPIRED"}
    BY <1>2 DEF BeginPurge, IInv, TypeOK, Idle
  <2>2. Expiring(w)' = OverdueIds
    BY <2>1 DEF Expiring
  <2>3. req'[w].op \notin RowOps
    BY <2>1 DEF RowOps, Target
  <2>4. \A j \in Ids : exc[j].status = "EXPIRED" =>
          /\ exc[j].status # "NONE"
          /\ exc[j].expires # NoTime => exc[j].expires <= now
    BY DEF IInv, ExpiredOnlyAfterExpiresAt
  <2>5. \A j \in OverdueIds \cup req'[w].ids :
          /\ exc[j].status # "NONE"
          /\ exc[j].expires # NoTime => exc[j].expires <= now
    BY <2>1, <2>4, OverdueIsPast
  <2>6. \A j \in OverdueIds : Exists(j)
    BY OverdueIsPast
  <2> QED BY <1>1, <2>1, <2>2, <2>3, <2>5, <2>6 DEF Justified, Exists
<1>3. CASE BeginJob(w)
  <2> DEFINE due == {i \in Ids : /\ exc[i].status = "PENDING_EMPLOYEE"
                                 /\ exc[i].expires # NoTime
                                 /\ exc[i].expires <= now}
  <2>1. req'[w].op = "job" /\ req'[w].held = {} /\ req'[w].ids = due
    BY <1>3 DEF BeginJob, IInv, TypeOK, Idle
  <2>2. Expiring(w)' = due
    BY <2>1 DEF Expiring
  <2>3. req'[w].op \notin RowOps
    BY <2>1 DEF RowOps, Target
  <2> QED BY <1>1, <2>1, <2>2, <2>3 DEF Justified
<1>4. CASE NotifyJob(w)
  <2>1. PICK i \in req[w].ids :
          /\ Exists(i)
          /\ req'[w].op = "job" /\ req[w].op = "job"
          /\ req'[w].held = req[w].held \cup {i}
          /\ req'[w].ids = req[w].ids
    BY <1>4, NotifyJobSets DEF IInv
  <2>2. Justified(w)
    BY DEF IInv, RequestsJustified
  <2>3. Expiring(w)' = req[w].ids /\ Expiring(w) = req[w].ids
    BY <2>1 DEF Expiring
  <2>4. req'[w].op \notin RowOps
    BY <2>1 DEF RowOps, Target
  <2>5. \A j \in req'[w].held : Exists(j)
    BY <2>1, <2>2 DEF Justified
  <2>6. \A j \in req[w].ids :
          /\ exc[j].status # "NONE"
          /\ exc[j].expires # NoTime => exc[j].expires <= now
    BY <2>2, <2>3 DEF Justified
  <2> QED BY <1>1, <2>1, <2>3, <2>4, <2>5, <2>6 DEF Justified, Exists
<1> QED BY <1>2, <1>3, <1>4

LEMMA IdleJustified ==
    ASSUME NEW w, req'[w] = Idle
    PROVE  Justified(w)'
BY IdleType DEF Justified, Expiring, Idle

LEMMA RequestsStep ==
    ASSUME IInv, [Next]_vars
    PROVE  RequestsJustified'
<1> SUFFICES ASSUME NEW w \in Workers PROVE Justified(w)'
  BY DEF RequestsJustified
<1>1. CASE req'[w] = req[w]
  BY <1>1, StaysJustified
<1>2. CASE req'[w] # req[w]
  <2>1. \A v \in Workers : \A r : req' = [req EXCEPT ![v] = r] => v = w
    BY <1>2 DEF IInv, TypeOK
  <2>2. req' # req
    BY <1>2
  <2>3. ASSUME NEW v \in Workers, NEW i \in Ids, RowRequest(v, i)
        PROVE  Justified(w)'
    <3>1. \E r : req' = [req EXCEPT ![v] = r]
      BY <2>3 DEF RowRequest, BeginSubmit, BeginApprove, BeginReject,
                  BeginExpire, BeginExtend, Begin
    <3> QED BY <2>1, <2>3, <3>1, BeginJustified
  <2>4. ASSUME NEW v \in Workers, BeginPurge(v) \/ BeginJob(v) \/ NotifyJob(v)
        PROVE  Justified(w)'
    <3>1. \E r : req' = [req EXCEPT ![v] = r]
      BY <2>4 DEF BeginPurge, BeginJob, NotifyJob
    <3> QED BY <2>1, <2>4, <3>1, BatchJustified
  <2>5. ASSUME NEW v \in Workers, Finish(v) PROVE Justified(w)'
    <3>1. req' = [req EXCEPT ![v] = Idle]
      BY <2>5 DEF Finish, CommitSubmit, CommitApprove, RollbackApprove,
                  CommitReject, CommitExpire, CommitExtend, CommitPurge,
                  CommitJob, Commit, Fail
    <3>2. req'[w] = Idle
      BY <2>1, <3>1 DEF IInv, TypeOK
    <3> QED BY <3>2, IdleJustified
  <2>6. Tick \/ UNCHANGED vars => req' = req
    BY DEF Tick, vars
  <2>7. \A i \in Ids : CreateSystem(i) \/ CreateDetected(i) \/ CreateFace(i)
                         \/ View(i) => req' = req
    BY DEF CreateSystem, CreateDetected, CreateFace, View, Insert
  <2>8. \A v \in Workers : BatchExpire(v) => req' = req
    BY DEF BatchExpire
  <2> QED BY <2>2, <2>3, <2>4, <2>5, <2>6, <2>7, <2>8 DEF Next
<1> QED BY <1>1, <1>2

LEMMA DecidedStep ==
    ASSUME IInv, [Next]_vars
    PROVE  DecidedOnlyAfterExplanation'
<1> SUFFICES ASSUME NEW i \in Ids,
                    exc'[i].status \in Decided \cup {"PENDING_ADMIN"}
             PROVE  Explained(exc'[i])
  BY DEF DecidedOnlyAfterExplanation, Explained
<1> USE DEF IInv
<1>1. RowEffect(i)
  BY StepEffect
<1>2. exc[i].status \in Decided \cup {"PENDING_ADMIN"} => Explained(exc[i])
  BY DEF DecidedOnlyAfterExplanation
<1>3. CASE exc'[i] = exc[i]
  BY <1>2, <1>3 DEF Explained
<1>4. CASE Inserted(i)
  BY <1>4 DEF Inserted, Explained, Pending, Decided
<1>5. ASSUME NEW w \in Workers, Moved(w, i) PROVE Explained(exc'[i])
  <2>1. Explained(exc[i]) => Explained(exc'[i])
    BY <1>5 DEF Moved, Explained
  <2>2. CASE exc'[i].status = exc[i].status
    BY <1>2, <2>1, <2>2
  <2>3. CASE req[w].op = "submit"
    BY <1>5, <2>3 DEF Moved, Explained
  <2>4. CASE req[w].op \in {"approve", "reject"}
    BY <1>5, <2>1, <2>4 DEF Moved, RequestsJustified, Justified
  <2>5. CASE req[w].op = "expire" /\ exc'[i].status = Target[req[w].op]
    BY <2>5 DEF Target, Decided
  <2> QED BY <1>5, <2>2, <2>3, <2>4, <2>5 DEF Moved, Target
<1>6. ASSUME NEW w \in Workers, Prolonged(w, i) PROVE Explained(exc'[i])
  BY <1>2, <1>6 DEF Prolonged, SameColumns, Explained, Decided
<1>7. ASSUME NEW w \in Workers, Deleted(w, i) PROVE FALSE
  BY <1>7 DEF Deleted, NoRow, Decided
<1>8. CASE Expired(i)
  BY <1>8 DEF Expired, Decided
<1> QED BY <1>1, <1>3, <1>4, <1>5, <1>6, <1>7, <1>8 DEF RowEffect

LEMMA ExpiredStep ==
    ASSUME IInv, [Next]_vars
    PROVE  ExpiredOnlyAfterExpiresAt'
<1> SUFFICES ASSUME NEW i \in Ids, exc'[i].status = "EXPIRED",
                    exc'[i].expires # NoTime
             PROVE  exc'[i].expires <= now'
  BY DEF ExpiredOnlyAfterExpiresAt
<1> USE DEF IInv
<1>1. RowEffect(i) /\ exc[i] \in Row
  BY StepEffect DEF TypeOK
<1>2. /\ exc[i].expires \in Nat /\ exc[i].expires <= now
      /\ exc'[i].expires = exc[i].expires
      => exc'[i].expires <= now'
  BY ClockAdvances
<1>3. exc[i].expires # NoTime => exc[i].expires \in Nat
  BY <1>1 DEF Row, Time
<1>4. exc[i].status = "EXPIRED" /\ exc[i].expires # NoTime => exc[i].expires <= now
  BY DEF ExpiredOnlyAfterExpiresAt
<1>5. CASE exc'[i] = exc[i]
  BY <1>2, <1>3, <1>4, <1>5
<1>6. CASE Inserted(i)
  BY <1>6 DEF Inserted, Pending
<1>7. ASSUME NEW w \in Workers, Moved(w, i) PROVE exc'[i].expires <= now'
  <2>1. CASE exc'[i].status = exc[i].status
    BY <1>2, <1>3, <1>4, <1>7, <2>1 DEF Moved
  <2>2. CASE exc'[i].status = Target[req[w].op]
    <3>1. req[w].op = "expire"
      BY <1>7, <2>2 DEF Moved, Target
    <3>2. i \in Expiring(w)
      BY <1>7, <3>1 DEF Moved, Expiring
    <3> QED BY <1>2, <1>3, <1>7, <3>2 DEF Moved, RequestsJustified, Justified
  <2> QED BY <1>7, <2>1, <2>2 DEF Moved
<1>8. ASSUME NEW w \in Workers, Prolonged(w, i) PROVE exc'[i].expires <= now'
  BY <1>2, <1>3, <1>4, <1>8 DEF Prolonged, SameColumns
<1>9. ASSUME NEW w \in Workers, Deleted(w, i) PROVE FALSE
  BY <1>9 DEF Deleted, NoRow
<1>10. CASE Expired(i)
  <2>1. exc[i].expires # NoTime => exc[i].expires <= now
    BY <1>10, OverdueIsPast DEF Expired, RequestsJustified, Justified
  <2> QED BY <1>2, <1>3, <1>10, <2>1 DEF Expired, SameColumns
<1> QED BY <1>1, <1>5, <1>6, <1>7, <1>8, <1>9, <1>10 DEF RowEffect

LEMMA DeadlinesStep ==
    ASSUME IInv, [Next]_vars
    PROVE  DeadlinesOrdered'
<1> SUFFICES ASSUME NEW i \in Ids, exc'[i].expires # NoTime,
                    exc'[i].extended # NoTime
             PROVE  exc'[i].expires <= exc'[i].extended
  BY DEF DeadlinesOrdered
<1> USE DEF IInv
<1>1. RowEffect(i)
  BY StepEffect
<1>2. exc[i].expires # NoTime /\ exc[i].extended # NoTime
        => exc[i].expires <= exc[i].extended
  BY DEF DeadlinesOrdered
<1>3. ASSUME NEW w \in Workers, Moved(w, i)
      PROVE  exc'[i].expires <= exc'[i].extended
  BY <1>2, <1>3 DEF Moved
<1>4. ASSUME NEW w \in Workers, Prolonged(w, i)
      PROVE  exc'[i].expires <= exc'[i].extended
  BY <1>4 DEF Prolonged, SameColumns, RequestsJustified, Justified
<1>5. ASSUME NEW w \in Workers, Deleted(w, i) PROVE FALSE
  BY <1>5 DEF Deleted, NoRow
<1> QED BY <1>1, <1>2, <1>3, <1>4, <1>5
        DEF RowEffect, Inserted, Expired, SameColumns

LEMMA InvStep == IInv /\ [Next]_vars => IInv'
BY TypeStep, RequestsStep, DecidedStep, ExpiredStep, DeadlinesStep DEF IInv

LEMMA InvInit == Init => IInv
<1> SUFFICES ASSUME Init PROVE IInv
  OBVIOUS
<1>1. TypeOK
  BY NoRowType, IdleType DEF Init, TypeOK
<1>2. \A w \in Workers : Justified(w)
  BY IdleType DEF Init, Justified, Expiring, Idle
<1> QED BY <1>1, <1>2
        DEF Init, IInv, RequestsJustified, DecidedOnlyAfterExplanation,
            ExpiredOnlyAfterExpiresAt, DeadlinesOrdered, NoRow, Decided

(***************************************************************************)
(* No decision, and no case that waits for one, without an explanation or  *)
(* a row created for the administrator, however requests interleave.       *)
(***************************************************************************)
THEOREM Explanations == Spec => []DecidedOnlyAfterExplanation
<1>1. IInv => DecidedOnlyAfterExplanation
  BY DEF IInv
<1> QED BY <1>1, InvInit, InvStep, PTL DEF Spec

(***************************************************************************)
(* No row is EXPIRED before the deadline it was created with.              *)
(***************************************************************************)
THEOREM ExpiryNotEarly == Spec => []ExpiredOnlyAfterExpiresAt
<1>1. IInv => ExpiredOnlyAfterExpiresAt
  BY DEF IInv
<1> QED BY <1>1, InvInit, InvStep, PTL DEF Spec

(***************************************************************************)
(* What a request checked when it loaded the row holds until it commits.   *)
(***************************************************************************)
THEOREM StaleRequestsJustified == Spec => []RequestsJustified
<1>1. IInv => RequestsJustified
  BY DEF IInv
<1> QED BY <1>1, InvInit, InvStep, PTL DEF Spec

---------------------------------------------------------------------------
(* The tables that refer to a row: audit rows and notifications are added   *)
(* for rows that exist after the step, and only a purge takes them away.    *)

\* The notifications the job has inserted are about its own rows.
KeysOwn ==
    \A w \in Workers :
        req[w].op = "job" => \A k \in req[w].keys : k[1] \in req[w].ids

LEMMA NewKeysOwn ==
    ASSUME NEW S, NEW event, NEW k \in NewKeys(S, event)
    PROVE  k[1] \in S
BY DEF NewKeys

LEMMA BeginSets ==
    ASSUME TypeOK, NEW w \in Workers, NEW i \in Ids,
           NEW op \in DOMAIN Target, Begin(w, i, op)
    PROVE  /\ \A v \in Workers \ {w} : req'[v] = req[v]
           /\ req'[w].op = op /\ req'[w].id = i
BY DEF Begin, TypeOK, Idle

LEMMA KeysOwnStep ==
    ASSUME TypeOK, KeysOwn, [Next]_vars
    PROVE  KeysOwn'
<1> SUFFICES ASSUME NEW w \in Workers, req'[w].op = "job"
             PROVE  \A k \in req'[w].keys : k[1] \in req'[w].ids
  BY DEF KeysOwn
<1>1. CASE req'[w] = req[w]
  BY <1>1 DEF KeysOwn
<1>2. CASE req'[w] # req[w]
  <2>1. ASSUME NEW v \in Workers, NEW i \in Ids, RowRequest(v, i) PROVE FALSE
    <3>1. CASE BeginExtend(v, i)
      BY <1>2, <3>1 DEF BeginExtend, TypeOK, Idle
    <3>2. \A op \in DOMAIN Target : op # "job"
      BY DEF Target
    <3>3. \A op \in DOMAIN Target : ~Begin(v, i, op)
      BY <1>2, <3>2, BeginSets
    <3> QED BY <2>1, <3>1, <3>3
            DEF RowRequest, BeginSubmit, BeginApprove, BeginReject,
                BeginExpire, Target
  <2>2. ASSUME NEW v \in Workers, BeginJob(v)
        PROVE  \A k \in req'[w].keys : k[1] \in req'[w].ids
    BY <1>2, <2>2 DEF BeginJob, TypeOK, Idle
  <2>3. ASSUME NEW v \in Workers, NotifyJob(v)
        PROVE  \A k \in req'[w].keys : k[1] \in req'[w].ids
    <3>1. PICK i \in req[v].ids \ req[v].held :
            /\ req[v].op = "job"
            /\ req' = [req EXCEPT ![v] =
                          [req[v] EXCEPT !.held = req[v].held \cup {i},
                              !.keys = req[v].keys \cup NewKeys({i}, "job")]]
      BY <2>3 DEF NotifyJob
    <3>2. v = w
      BY <1>2, <3>1 DEF TypeOK
    <3>3. /\ req'[w].keys = req[w].keys \cup NewKeys({i}, "job")
          /\ req'[w].ids = req[w].ids
      BY <3>1, <3>2 DEF TypeOK, Request
    <3>4. \A k \in req[w].keys : k[1] \in req[w].ids
      BY <3>1, <3>2 DEF KeysOwn
    <3> QED BY <3>1, <3>2, <3>3, <3>4, NewKeysOwn
  <2>4. ASSUME NEW v \in Workers, BeginPurge(v) PROVE FALSE
    BY <1>2, <2>4 DEF BeginPurge, TypeOK, Idle
  <2>5. ASSUME NEW v \in Workers, Finish(v) PROVE FALSE
    <3>1. req' = [req EXCEPT ![v] = Idle]
      BY <2>5 DEF Finish, CommitSubmit, CommitApprove, RollbackApprove,
                  CommitReject, CommitExpire, CommitExtend, CommitPurge,
                  CommitJob, Commit, Fail
    <3> QED BY <1>2, <3>1 DEF TypeOK, Idle
  <2>6. Tick \/ UNCHANGED vars => req'[w] = req[w]
    BY DEF Tick, vars
  <2>7. \A i \in Ids : CreateSystem(i) \/ CreateDetected(i) \/ CreateFace(i)
                         \/ View(i) => req'[w] = req[w]
    BY DEF CreateSystem, CreateDetected, CreateFace, View, Insert
  <2>8. \A v \in Workers : BatchExpire(v) => req'[w] = req[w]
    BY DEF BatchExpire
  <2> QED BY <1>2, <2>1, <2>2, <2>3, <2>4, <2>5, <2>6, <2>7, <2>8 DEF Next
<1> QED BY <1>1, <1>2

\* A step adds no audit row and no notification about a row that is deleted.
LEMMA RecordsOfLiveRows ==
    ASSUME TypeOK, KeysOwn, [Next]_vars, NEW i \in Ids,
           exc'[i].status = "PURGED"
    PROVE  /\ \A a \in audit' : a.id = i => a \in audit
           /\ \A n \in notified' : n[1] = i => n \in notified
<1> DEFINE Kept == /\ \A a \in audit' : a.id = i => a \in audit
                   /\ \A n \in notified' : n[1] = i => n \in notified
<1> SUFFICES Kept OBVIOUS
<1>1. ASSUME audit' = audit, notified' = notified PROVE Kept
  BY <1>1
<1>2. ASSUME NEW j \in Ids, CreateSystem(j) \/ CreateDetected(j) \/ CreateFace(j)
      PROVE  Kept
  <2>1. i # j
    <3>1. PICK s \in Pending, t \in Time : Insert(j, s, t)
      BY <1>2, CreateInserts
    <3>2. i = j => exc'[i].status = s
      BY <3>1 DEF Insert, TypeOK, NoRow
    <3> QED BY <3>2 DEF Pending
  <2>2. audit' = audit \/ \E s \in Pending : audit' = audit \cup {AuditRow(j, s)}
    BY <1>2 DEF CreateSystem, CreateDetected, CreateFace, Pending
  <2>3. notified' = notified \/ notified' = notified \cup {<<j, "detected">>}
    BY <1>2 DEF CreateSystem, CreateDetected, CreateFace, Announce
  <2> QED BY <2>1, <2>2, <2>3 DEF AuditRow
<1>3. ASSUME NEW w \in Workers, NEW op \in DOMAIN Target, NEW row,
             Commit(w, op, row), row.status \in Live
      PROVE  Kept
  <2>1. req[w].op = op /\ req[w].id \in Ids
    BY <1>3, WrittenType DEF Commit
  <2>2. req[w].id # i
    BY <1>3, <2>1 DEF Commit, TypeOK, Live, Pending, Decided
  <2>3. \A k \in NewKeys({req[w].id}, op) : k[1] = req[w].id
    BY NewKeysOwn
  <2>4. audit' = audit \cup {AuditRow(req[w].id, Target[op])}
        /\ notified' = notified \cup NewKeys({req[w].id}, op)
    BY <1>3 DEF Commit
  <2>5. AuditRow(req[w].id, Target[op]).id = req[w].id
    BY DEF AuditRow
  <2> HIDE DEF AuditRow, NewKeys
  <2>6. \A a \in audit' : a.id = i => a \in audit
    BY <2>2, <2>4, <2>5
  <2>7. \A n \in notified' : n[1] = i => n \in notified
    BY <2>2, <2>3, <2>4
  <2> QED BY <2>6, <2>7
<1>4. ASSUME NEW w \in Workers,
             \/ CommitSubmit(w) \/ CommitApprove(w) \/ CommitReject(w)
             \/ CommitExpire(w)
      PROVE  Kept
  <2>1. req[w].op \in DOMAIN Target /\ Exists(req[w].id)
    BY <1>4 DEF CommitSubmit, CommitApprove, CommitReject, CommitExpire,
                Commit, Flushes, Target
  <2>2. Written(w) \in Live /\ exc[req[w].id] \in Row
    BY <2>1, TargetIsLive, WrittenType DEF Written, Exists, TypeOK
  <2>3. CASE CommitSubmit(w)
    BY <1>3, <2>2, <2>3 DEF CommitSubmit, Row, Target
  <2>4. CASE CommitApprove(w)
    BY <1>3, <2>2, <2>4 DEF CommitApprove, Row, Target
  <2>5. CASE CommitReject(w)
    BY <1>3, <2>2, <2>5 DEF CommitReject, Row, Target
  <2>6. CASE CommitExpire(w)
    BY <1>3, <2>2, <2>6 DEF CommitExpire, Row, Target
  <2> QED BY <1>4, <2>3, <2>4, <2>5, <2>6
<1>5. ASSUME NEW w \in Workers, CommitPurge(w) PROVE Kept
  BY <1>5 DEF CommitPurge
<1>6. ASSUME NEW w \in Workers, CommitJob(w) PROVE Kept
  <2>1. i \notin req[w].ids
    <3>1. i \in req[w].ids => exc'[i].status = "EXPIRED"
      BY <1>6, ExpireRowsEffect DEF CommitJob
    <3> QED BY <3>1
  <2>2. \A k \in req[w].keys : k[1] \in req[w].ids
    BY <1>6 DEF CommitJob, KeysOwn
  <2>3. /\ audit' = audit \cup {AuditRow(j, "EXPIRED") : j \in req[w].ids}
        /\ notified' = notified \cup req[w].keys
    BY <1>6 DEF CommitJob
  <2> QED BY <2>1, <2>2, <2>3 DEF AuditRow
<1>7. ASSUME NEW w \in Workers, RollbackApprove(w) \/ CommitExtend(w) \/ Fail(w)
      PROVE  audit' = audit /\ notified' = notified
  BY <1>7 DEF RollbackApprove, CommitExtend, Fail
<1>8. ASSUME NEW w \in Workers, BatchExpire(w) \/ BeginPurge(w) \/ BeginJob(w) \/ NotifyJob(w)
      PROVE  audit' = audit /\ notified' = notified
  BY <1>8 DEF BatchExpire, BeginPurge, BeginJob, NotifyJob
<1>9. ASSUME NEW w \in Workers, NEW j \in Ids, RowRequest(w, j)
      PROVE  audit' = audit /\ notified' = notified
  BY <1>9 DEF RowRequest, BeginSubmit, BeginApprove, BeginReject, BeginExpire,
              BeginExtend, Begin
<1>10. ASSUME Tick \/ UNCHANGED vars \/ \E j \in Ids : View(j)
       PROVE  audit' = audit /\ notified' = notified
  BY <1>10 DEF Tick, vars, View
<1> HIDE DEF Kept
<1> QED
  BY <1>1, <1>2, <1>4, <1>5, <1>6, <1>7, <1>8, <1>9, <1>10 DEF Next, Finish

\* Only a purge takes audit rows away, and only those of the rows it deletes.
LEMMA AuditIsKept ==
    ASSUME TypeOK, [Next]_vars, NEW i \in Ids, exc'[i].status # "PURGED"
    PROVE  \A a \in audit : a.id = i => a \in audit'
<1>1. ASSUME NEW w \in Workers, CommitPurge(w)
      PROVE  \A a \in audit : a.id = i => a \in audit'
  <2>1. i \notin req[w].ids
    BY <1>1 DEF CommitPurge, NoRow
  <2> QED BY <1>1, <2>1 DEF CommitPurge
<1>2. ASSUME NEW w \in Workers, Finish(w), ~CommitPurge(w)
      PROVE  audit \subseteq audit'
  BY <1>2 DEF Finish, CommitSubmit, CommitApprove, RollbackApprove,
              CommitReject, CommitExpire, CommitExtend, CommitJob, Commit, Fail
<1>3. ASSUME NEW w \in Workers, BatchExpire(w) \/ BeginPurge(w) \/ BeginJob(w) \/ NotifyJob(w)
      PROVE  audit' = audit
  BY <1>3 DEF BatchExpire, BeginPurge, BeginJob, NotifyJob
<1>4. ASSUME NEW w \in Workers, NEW j \in Ids, RowRequest(w, j)
      PROVE  audit' = audit
  BY <1>4 DEF RowRequest, BeginSubmit, BeginApprove, BeginReject, BeginExpire,
              BeginExtend, Begin
<1>5. ASSUME NEW j \in Ids,
             CreateSystem(j) \/ CreateDetected(j) \/ CreateFace(j) \/ View(j)
      PROVE  audit \subseteq audit'
  BY <1>5 DEF CreateSystem, CreateDetected, CreateFace, View
<1>6. Tick \/ UNCHANGED vars => audit' = audit
  BY DEF Tick, vars
<1> QED BY <1>1, <1>2, <1>3, <1>4, <1>5, <1>6 DEF Next

\* The inductive invariant of the tables that refer to a row.
RecordsInv == /\ IInv
              /\ KeysOwn
              /\ AuditExplainsStatus
              /\ PurgedLeavesNothing

LEMMA AuditStep ==
    ASSUME IInv, AuditExplainsStatus, [Next]_vars
    PROVE  AuditExplainsStatus'
<1> SUFFICES ASSUME NEW i \in Ids,
                    exc'[i].status \in Decided \cup {"PENDING_ADMIN"},
                    exc'[i].status # exc'[i].origin
             PROVE  \E a \in audit' : a.id = i /\ a.to = exc'[i].status
  BY DEF AuditExplainsStatus
<1>1. RowEffect(i)
  BY StepEffect DEF IInv
<1>2. exc'[i].status # "PURGED"
  BY DEF Decided
<1>3. ASSUME exc'[i].status = exc[i].status, exc'[i].origin = exc[i].origin
      PROVE  \E a \in audit' : a.id = i /\ a.to = exc'[i].status
  <2>1. \E a \in audit : a.id = i /\ a.to = exc[i].status
    BY <1>3 DEF AuditExplainsStatus
  <2> QED BY <1>2, <1>3, <2>1, AuditIsKept DEF IInv
<1>4. ASSUME NEW w \in Workers, Moved(w, i), exc'[i].status # exc[i].status
      PROVE  \E a \in audit' : a.id = i /\ a.to = exc'[i].status
  <2>1. /\ audit' = audit \cup {AuditRow(i, Target[req[w].op])}
        /\ exc'[i].status = Target[req[w].op]
    BY <1>4 DEF Moved
  <2>2. /\ AuditRow(i, Target[req[w].op]).id = i
        /\ AuditRow(i, Target[req[w].op]).to = Target[req[w].op]
    BY DEF AuditRow
  <2> QED BY <2>1, <2>2
<1>5. ASSUME NEW w \in Workers, Moved(w, i)
      PROVE  exc'[i].origin = exc[i].origin
  BY <1>5 DEF Moved
<1>6. ASSUME NEW w \in Workers, Prolonged(w, i)
      PROVE  exc'[i].status = exc[i].status /\ exc'[i].origin = exc[i].origin
  BY <1>6 DEF Prolonged, SameColumns, Decided
<1>7. ~Inserted(i) /\ ~Expired(i)
  BY DEF Inserted, Expired, Decided
<1>8. \A w \in Workers : ~Deleted(w, i)
  BY <1>2 DEF Deleted, NoRow
<1> QED BY <1>1, <1>3, <1>4, <1>5, <1>6, <1>7, <1>8 DEF RowEffect

LEMMA PurgeStep ==
    ASSUME IInv, KeysOwn, PurgedLeavesNothing, [Next]_vars
    PROVE  PurgedLeavesNothing'
<1> SUFFICES ASSUME NEW i \in Ids, exc'[i].status = "PURGED"
             PROVE  /\ \A a \in audit' : a.id # i
                    /\ \A n \in notified' : n[1] # i
  BY DEF PurgedLeavesNothing
<1>1. RowEffect(i)
  BY StepEffect DEF IInv
<1>2. CASE exc'[i] = exc[i]
  BY <1>2, RecordsOfLiveRows DEF IInv, PurgedLeavesNothing
<1>3. ASSUME NEW w \in Workers, Deleted(w, i)
      PROVE  /\ \A a \in audit' : a.id # i
             /\ \A n \in notified' : n[1] # i
  BY <1>3 DEF Deleted
<1>4. \A w \in Workers : ~Moved(w, i) /\ ~Prolonged(w, i)
  BY TargetIsLive DEF Moved, Prolonged, Exists, Live, Pending, Decided
<1>5. ~Inserted(i) /\ ~Expired(i)
  BY DEF Inserted, Expired, Pending
<1> QED BY <1>1, <1>2, <1>3, <1>4, <1>5 DEF RowEffect

LEMMA RecordsInvStep == RecordsInv /\ [Next]_vars => RecordsInv'
BY InvStep, KeysOwnStep, AuditStep, PurgeStep DEF RecordsInv, IInv

LEMMA RecordsInvInit == Init => RecordsInv
<1>1. Init => KeysOwn /\ AuditExplainsStatus /\ PurgedLeavesNothing
  BY IdleType
     DEF Init, KeysOwn, AuditExplainsStatus, PurgedLeavesNothing, NoRow, Idle,
         Decided, RowOps
<1> QED BY <1>1, InvInit DEF RecordsInv

(***************************************************************************)
(* The audit rows of a live row account for its status whatever requests   *)
(* interleave: a commit writes status and audit row in one transaction,    *)
(* and only the purge of the row takes them away.                          *)
(***************************************************************************)
THEOREM StatusAccountedFor == Spec => []AuditExplainsStatus
<1>1. RecordsInv => AuditExplainsStatus
  BY DEF RecordsInv
<1> QED BY <1>1, RecordsInvInit, RecordsInvStep, PTL DEF Spec

(***************************************************************************)
(* Nothing refers to a purged row, although requests that loaded it before *)
(* the purge may still commit: their UPDATE finds no row.                  *)
(***************************************************************************)
THEOREM PurgeIsComplete == Spec => []PurgedLeavesNothing
<1>1. RecordsInv => PurgedLeavesNothing
  BY DEF RecordsInv
<1> QED BY <1>1, RecordsInvInit, RecordsInvStep, PTL DEF Spec

---------------------------------------------------------------------------
(* A row presented as EXPIRED by an expiry that is rolled back stays past   *)
(* its deadline until somebody extends it.                                  *)

ShownInv ==
    \A i \in shown :
        /\ exc[i].status # "NONE"
        /\ Exists(i) => Past(get_effective_deadline(exc[i]))

\* A row is added to shown only while it is overdue, and leaves it only by an
\* extension.
LEMMA ShownEffect ==
    ASSUME TypeOK, [Next]_vars, NEW i \in shown'
    PROVE  i \in Ids /\ (i \in shown \/ (Overdue(exc[i]) /\ exc' = exc))
<1>1. i \in shown => i \in Ids
  BY DEF TypeOK
<1>2. ASSUME NEW j \in Ids, View(j)
      PROVE  i \in shown \/ (i = j /\ Overdue(exc[i]) /\ exc' = exc)
  BY <1>2 DEF View
<1>3. ASSUME NEW w \in Workers, Finish(w) PROVE i \in shown
  BY <1>3 DEF Finish, CommitSubmit, CommitApprove, RollbackApprove,
              CommitReject, CommitExpire, CommitExtend, CommitPurge,
              CommitJob, Commit, Fail
<1>4. ASSUME NEW w \in Workers, NEW j \in Ids, RowRequest(w, j)
      PROVE  i \in shown
  BY <1>4 DEF RowRequest, BeginSubmit, BeginApprove, BeginReject, BeginExpire,
              BeginExtend, Begin
<1>5. ASSUME NEW w \in Workers, BatchExpire(w) \/ BeginPurge(w) \/ BeginJob(w) \/ NotifyJob(w)
      PROVE  i \in shown
  BY <1>5 DEF BatchExpire, BeginPurge, BeginJob, NotifyJob
<1>6. ASSUME NEW j \in Ids, CreateSystem(j) \/ CreateDetected(j) \/ CreateFace(j)
      PROVE  i \in shown
  BY <1>6 DEF CreateSystem, CreateDetected, CreateFace, Insert
<1>7. Tick \/ UNCHANGED vars => i \in shown
  BY DEF Tick, vars
<1> QED BY <1>1, <1>2, <1>3, <1>4, <1>5, <1>6, <1>7 DEF Next

\* After the step, the deadline of such a row is over.
OverNext(row) == /\ get_effective_deadline(row) # NoTime
                 /\ get_effective_deadline(row) < now'

LEMMA PastStaysPast ==
    ASSUME TypeOK, [Next]_vars, NEW row \in Row, NEW new \in Row,
           Past(get_effective_deadline(row)),
           new.expires = row.expires, new.extended = row.extended
    PROVE  OverNext(new)
<1>1. now \in Nat /\ now' \in Nat /\ now <= now'
  BY ClockAdvances
<1>2. get_effective_deadline(row) \in Time
  BY DEF get_effective_deadline, Row
<1>3. get_effective_deadline(new) = get_effective_deadline(row)
  BY DEF get_effective_deadline
<1> QED BY <1>1, <1>2, <1>3 DEF Past, OverNext, Time

LEMMA ShownStep ==
    ASSUME IInv, ShownInv, [Next]_vars
    PROVE  ShownInv'
<1> SUFFICES ASSUME NEW i \in shown'
             PROVE  /\ exc'[i].status # "NONE"
                    /\ Exists(i)' => OverNext(exc'[i])
  BY DEF ShownInv, OverNext, Past, get_effective_deadline
<1> USE DEF IInv
<1>1. i \in Ids /\ (i \in shown \/ (Overdue(exc[i]) /\ exc' = exc))
  BY ShownEffect
<1>2. RowEffect(i) /\ exc[i] \in Row /\ exc'[i] \in Row
  BY <1>1, StepEffect, TypeStep DEF TypeOK
<1>3. ASSUME Exists(i), exc'[i].expires = exc[i].expires,
             exc'[i].extended = exc[i].extended
      PROVE  OverNext(exc'[i])
  <2>1. Past(get_effective_deadline(exc[i]))
    BY <1>1, <1>3 DEF ShownInv, Overdue
  <2> QED BY <1>2, <1>3, <2>1, PastStaysPast
<1>4. CASE Overdue(exc[i]) /\ exc' = exc
  <2>1. exc[i].status = "PENDING_EMPLOYEE"
    BY <1>4 DEF Overdue
  <2> QED BY <1>3, <1>4, <2>1 DEF Exists, Live, Pending
<1>5. CASE i \in shown
  <2>1. exc[i].status # "NONE"
    BY <1>5 DEF ShownInv
  <2>2. CASE exc'[i] = exc[i]
    BY <1>3, <2>1, <2>2 DEF Exists
  <2>3. ~Inserted(i)
    BY <2>1 DEF Inserted
  <2>4. ASSUME NEW w \in Workers, Moved(w, i)
        PROVE  /\ exc'[i].status # "NONE"
               /\ OverNext(exc'[i])
    BY <1>3, <2>1, <2>4, TargetIsLive DEF Moved, Live, Pending, Decided
  <2>5. \A w \in Workers : ~Prolonged(w, i)
    BY DEF Prolonged
  <2>6. CASE Expired(i)
    BY <1>3, <2>6 DEF Expired, SameColumns
  <2>7. ASSUME NEW w \in Workers, Deleted(w, i)
        PROVE  exc'[i].status = "PURGED"
    BY <2>7 DEF Deleted, NoRow
  <2> QED BY <1>2, <2>2, <2>3, <2>4, <2>5, <2>6, <2>7
          DEF RowEffect, Exists, Live, Pending, Decided
<1> QED BY <1>1, <1>4, <1>5

\* A request to explain a row is accepted only before the deadline.
LEMMA SubmitEffect ==
    ASSUME TypeOK, [Next]_vars, NEW w \in Workers,
           req[w] = Idle, req'[w].op = "submit"
    PROVE  \E i \in Ids : /\ req'[w].id = i /\ Exists(i)
                          /\ ~Past(get_effective_deadline(exc[i]))
                          /\ shown' = shown
<1>1. req'[w] # req[w] /\ req'[w] # Idle
  BY DEF Idle
<1>2. ASSUME NEW v \in Workers, NEW i \in Ids, BeginSubmit(v, i)
      PROVE  /\ req'[w].id = i /\ Exists(i)
             /\ ~Past(get_effective_deadline(exc[i])) /\ shown' = shown
  BY <1>1, <1>2, BeginSets DEF BeginSubmit, Begin, Target, TypeOK, Idle
<1>3. ASSUME NEW v \in Workers, NEW i \in Ids,
             BeginApprove(v, i) \/ BeginReject(v, i) \/ BeginExpire(v, i)
      PROVE  FALSE
  BY <1>1, <1>3, BeginSets DEF BeginApprove, BeginReject, BeginExpire, Target
<1>4. ASSUME NEW v \in Workers, NEW i \in Ids, BeginExtend(v, i)
      PROVE  FALSE
  BY <1>1, <1>4 DEF BeginExtend, TypeOK, Idle
<1>5. ASSUME NEW v \in Workers, BeginPurge(v) \/ BeginJob(v) \/ NotifyJob(v)
      PROVE  FALSE
  <2>1. CASE BeginPurge(v) \/ BeginJob(v)
    BY <1>1, <2>1 DEF BeginPurge, BeginJob, TypeOK, Idle
  <2>2. CASE NotifyJob(v)
    BY <1>1, <2>2, NotifyJobSets
  <2> QED BY <1>5, <2>1, <2>2
<1>6. ASSUME NEW v \in Workers, Finish(v) PROVE FALSE
  <2>1. req' = [req EXCEPT ![v] = Idle]
    BY <1>6 DEF Finish, CommitSubmit, CommitApprove, RollbackApprove,
                CommitReject, CommitExpire, CommitExtend, CommitPurge,
                CommitJob, Commit, Fail
  <2> QED BY <1>1, <2>1 DEF TypeOK
<1>7. Tick \/ UNCHANGED vars => FALSE
  BY <1>1 DEF Tick, vars
<1>8. \A i \in Ids : ~(CreateSystem(i) \/ CreateDetected(i) \/ CreateFace(i)
                          \/ View(i))
  BY <1>1 DEF CreateSystem, CreateDetected, CreateFace, View, Insert
<1>9. \A v \in Workers : ~BatchExpire(v)
  BY <1>1 DEF BatchExpire
<1> QED BY <1>2, <1>3, <1>4, <1>5, <1>6, <1>7, <1>8, <1>9 DEF Next, RowRequest

(***************************************************************************)
(* Who has been told that a row is EXPIRED, by an answer whose expiry is    *)
(* never committed, is refused when trying to explain it: the deadline that *)
(* made the answer say so is still over for whoever asks later, unless an   *)
(* administrator extends it.  It holds whatever requests interleave.        *)
(***************************************************************************)
THEOREM ShownExpiredIsRefused == Spec => ShownExpiredIsClosed
<1>1. Init => IInv /\ ShownInv
  BY InvInit DEF Init, ShownInv
<1>2. IInv /\ ShownInv /\ [Next]_vars => (IInv /\ ShownInv)'
  BY InvStep, ShownStep
<1>3. IInv /\ ShownInv /\ [Next]_vars =>
        [\A w \in Workers : (req[w] = Idle /\ req'[w].op = "submit")
                               => req'[w].id \notin shown]_req
  BY SubmitEffect DEF IInv, ShownInv
<1> QED BY <1>1, <1>2, <1>3, PTL DEF Spec, ShownExpiredIsClosed

---------------------------------------------------------------------------
(* Decisions and stale requests.  Whatever requests interleave, a decided   *)
(* row is moved only by a request that loaded it before the decision.       *)

\* What the checks of the handlers say of the status they loaded.
Loaded(w) ==
    LET r == req[w]
    IN  r.op \in DOMAIN Target => /\ r.seen \in Live
                                 /\ CanTransition(r.seen, Target[r.op])

RequestsLoaded == \A w \in Workers : Loaded(w)

LEMMA LoadedStep ==
    ASSUME TypeOK, RequestsLoaded, [Next]_vars
    PROVE  RequestsLoaded'
<1> SUFFICES ASSUME NEW w \in Workers, req'[w].op \in DOMAIN Target
             PROVE  /\ req'[w].seen \in Live
                    /\ CanTransition(req'[w].seen, Target[req'[w].op])
  BY DEF RequestsLoaded, Loaded, CanTransition
<1>1. CASE req'[w] = req[w]
  BY <1>1 DEF RequestsLoaded, Loaded
<1>2. CASE req'[w] # req[w]
  <2>1. ASSUME NEW v \in Workers, NEW i \in Ids, NEW op \in DOMAIN Target,
               Begin(v, i, op)
        PROVE  /\ req'[w].seen \in Live
               /\ CanTransition(req'[w].seen, Target[req'[w].op])
    BY <1>2, <2>1 DEF Begin, TypeOK, Idle, Exists
  <2>2. ASSUME NEW v \in Workers, NEW i \in Ids, BeginExtend(v, i) PROVE FALSE
    BY <1>2, <2>2 DEF BeginExtend, TypeOK, Idle, Target
  <2>3. ASSUME NEW v \in Workers, BeginPurge(v) \/ BeginJob(v) \/ NotifyJob(v)
        PROVE  FALSE
    <3>1. CASE BeginPurge(v) \/ BeginJob(v)
      <4>1. req'[w].op \in {"purge", "job"}
        BY <1>2, <3>1 DEF BeginPurge, BeginJob, TypeOK, Idle
      <4> QED BY <4>1 DEF Target
    <3>2. CASE NotifyJob(v)
      BY <1>2, <3>2, NotifyJobSets DEF Target
    <3> QED BY <2>3, <3>1, <3>2
  <2>4. ASSUME NEW v \in Workers, Finish(v) PROVE FALSE
    <3>1. req' = [req EXCEPT ![v] = Idle]
      BY <2>4 DEF Finish, CommitSubmit, CommitApprove, RollbackApprove,
                  CommitReject, CommitExpire, CommitExtend, CommitPurge,
                  CommitJob, Commit, Fail
    <3> QED BY <1>2, <3>1 DEF TypeOK, Idle, Target
  <2>5. Tick \/ UNCHANGED vars => FALSE
    BY <1>2 DEF Tick, vars
  <2>6. \A i \in Ids : ~(CreateSystem(i) \/ CreateDetected(i) \/ CreateFace(i)
                            \/ View(i))
    BY <1>2 DEF CreateSystem, CreateDetected, CreateFace, View, Insert
  <2>7. \A v \in Workers : ~BatchExpire(v)
    BY <1>2 DEF BatchExpire
  <2> QED
    BY <2>1, <2>2, <2>3, <2>4, <2>5, <2>6, <2>7
       DEF Next, RowRequest, BeginSubmit, BeginApprove, BeginReject,
           BeginExpire, Target
<1> QED BY <1>1, <1>2

\* Request w chose row i when the row was not decided.
ChoseUndecided(w, i) ==
    \/ req[w].op \in RowOps /\ req[w].id = i /\ req[w].seen \notin Decided
    \/ req[w].op = "job" /\ i \in req[w].ids
    \/ req[w].op = "purge" /\ i \in req[w].ids \cup req[w].held

UndoneOnlyByStaleRequests ==
    [][\A i \in Ids :
          (exc[i].status \in Decided /\ exc'[i].status # exc[i].status)
            => \E w \in Workers : ChoseUndecided(w, i)]_exc

LEMMA UndoneStep ==
    ASSUME IInv, RequestsLoaded, [Next]_vars, NEW i \in Ids,
           exc[i].status \in Decided, exc'[i].status # exc[i].status
    PROVE  \E w \in Workers : ChoseUndecided(w, i)
<1>1. RowEffect(i)
  BY StepEffect DEF IInv
<1>2. ~Inserted(i)
  BY DEF Inserted, Decided
<1>3. ASSUME NEW w \in Workers, Moved(w, i) PROVE ChoseUndecided(w, i)
  <2>1. /\ req[w].op \in DOMAIN Target /\ req[w].id = i
        /\ req[w].seen # Target[req[w].op]
    BY <1>3 DEF Moved
  <2>2. /\ req[w].seen \in Live
        /\ Target[req[w].op] \in ALLOWED_TRANSITIONS[req[w].seen]
    BY <2>1 DEF RequestsLoaded, Loaded, CanTransition
  <2>3. req[w].seen \notin Decided
    BY <2>2 DEF ALLOWED_TRANSITIONS, Decided
  <2> QED BY <2>1, <2>3 DEF ChoseUndecided, RowOps
<1>4. ASSUME NEW w \in Workers, Prolonged(w, i) PROVE ChoseUndecided(w, i)
  BY <1>4 DEF Prolonged, ChoseUndecided, RowOps, Decided
<1>5. ASSUME NEW w \in Workers, Deleted(w, i) PROVE ChoseUndecided(w, i)
  BY <1>5 DEF Deleted, ChoseUndecided
<1>6. ASSUME NEW w \in Workers, i \in Expiring(w), Expired(i)
      PROVE  ChoseUndecided(w, i)
  <2>1. CASE req[w].op = "expire"
    <3>1. req[w].id = i /\ req[w].op \in DOMAIN Target
          /\ Target[req[w].op] = "EXPIRED"
      BY <1>6, <2>1 DEF Expiring, Target
    <3>2. /\ req[w].seen \in Live
          /\ CanTransition(req[w].seen, "EXPIRED")
      BY <3>1 DEF RequestsLoaded, Loaded
    <3>3. req[w].seen \notin Decided
      BY <3>2 DEF CanTransition, ALLOWED_TRANSITIONS, Decided
    <3> QED BY <3>1, <3>3 DEF ChoseUndecided, RowOps
  <2>2. CASE req[w].op # "expire"
    BY <1>6, <2>2 DEF Expiring, ChoseUndecided
  <2> QED BY <2>1, <2>2
<1>7. i \notin OverdueIds
  BY DEF OverdueIds, Overdue, Decided
<1> QED BY <1>1, <1>2, <1>3, <1>4, <1>5, <1>6, <1>7 DEF RowEffect, Expired

(***************************************************************************)
(* Whatever requests interleave, an approved or rejected row is moved only  *)
(* by a request that chose it while it was undecided: the handlers check    *)
(* the status they load (ensure_allowed_exception_transition), and the only *)
(* hole is the time between that load and the commit.                       *)
(***************************************************************************)
THEOREM StaleRequestsOnly == Spec => UndoneOnlyByStaleRequests
<1>1. Init => IInv /\ RequestsLoaded
  BY InvInit DEF Init, RequestsLoaded, Loaded, Idle, Target
<1>2. IInv /\ RequestsLoaded /\ [Next]_vars => (IInv /\ RequestsLoaded)'
  BY InvStep, LoadedStep DEF IInv
<1>3. IInv /\ RequestsLoaded /\ [Next]_vars =>
        [\A i \in Ids :
           (exc[i].status \in Decided /\ exc'[i].status # exc[i].status)
             => \E w \in Workers : ChoseUndecided(w, i)]_exc
  BY UndoneStep
<1> QED BY <1>1, <1>2, <1>3, PTL DEF Spec, UndoneOnlyByStaleRequests

---------------------------------------------------------------------------
(* Fresh copies.  A stale request can undo a decision; what the transition  *)
(* table promises is kept by every request whose copy of the row no other   *)
(* request has overtaken, whatever the others do to other rows meanwhile.   *)

\* Row i is still as request w loaded it.
Fresh(w, i) ==
    LET r == req[w]
    IN  /\ (r.op \in DOMAIN Target /\ r.id = i) =>
             /\ r.seen = exc[i].status
             /\ CanTransition(r.seen, Target[r.op])
        /\ (r.op = "extend" /\ r.id = i) =>
             /\ r.seen = exc[i].status
             /\ r.seen \in {"PENDING_EMPLOYEE", "EXPIRED"}
             /\ r.due \in Nat
             /\ get_effective_deadline(exc[i]) # NoTime =>
                  get_effective_deadline(exc[i]) <= r.due
        /\ (r.op = "purge" /\ i \in r.held) => exc[i].status = "PENDING_EMPLOYEE"
        /\ (r.op = "purge" /\ i \in r.ids) =>
             /\ exc[i].status = "EXPIRED" \/ Overdue(exc[i])
             /\ PastRetention(exc[i])
        /\ (r.op = "job" /\ i \in r.ids) => exc[i].status = "PENDING_EMPLOYEE"

CopiesFresh ==
    \A w \in Workers : \A i \in Ids : i \notin overtaken[w] => Fresh(w, i)

LEMMA IdleFresh ==
    ASSUME NEW w, NEW i, req'[w] = Idle
    PROVE  Fresh(w, i)'
BY DEF Fresh, Idle, Target

\* A step is accounted for by the history variables, or it is a stutter.
LEMMA StepOverlap ==
    ASSUME [Next]_vars
    PROVE  Overlap \/ UNCHANGED vars
<1>1. ASSUME NEW w \in Workers, Finish(w) PROVE Overlap
  BY <1>1 DEF Finish, CommitSubmit, CommitApprove, RollbackApprove,
              CommitReject, CommitExpire, CommitExtend, CommitPurge,
              CommitJob, Commit, Fail
<1>2. ASSUME NEW w \in Workers, NEW i \in Ids, RowRequest(w, i) PROVE Overlap
  BY <1>2 DEF RowRequest, BeginSubmit, BeginApprove, BeginReject,
              BeginExpire, BeginExtend, Begin
<1>3. ASSUME NEW w \in Workers,
             BatchExpire(w) \/ BeginPurge(w) \/ BeginJob(w) \/ NotifyJob(w)
      PROVE  Overlap
  BY <1>3 DEF BatchExpire, BeginPurge, BeginJob, NotifyJob
<1>4. ASSUME NEW i \in Ids,
             CreateSystem(i) \/ CreateDetected(i) \/ CreateFace(i) \/ View(i)
      PROVE  Overlap
  BY <1>4 DEF CreateSystem, CreateDetected, CreateFace, View, Insert
<1> QED BY <1>1, <1>2, <1>3, <1>4 DEF Next, Tick

\* A copy that is not overtaken by the step was not overtaken before, and the
\* row it is a copy of is as it was.
LEMMA CopyKept ==
    ASSUME TypeOK, [Next]_vars, NEW w \in Workers, NEW i \in Ids,
           req'[w] # Idle, i \notin overtaken'[w]
    PROVE  /\ i \notin overtaken[w]
           /\ i \in RowsOf(w) => exc'[i] = exc[i]
<1>1. CASE UNCHANGED vars
  BY <1>1 DEF vars
<1>2. CASE Overlap
  <2>1. overtaken'[w] = overtaken[w] \cup (RowsOf(w) \cap Rewritten)
    BY <1>2 DEF Overlap
  <2> QED BY <2>1 DEF Rewritten
<1> QED BY <1>1, <1>2, StepOverlap

LEMMA StaysFresh ==
    ASSUME IInv, [Next]_vars, NEW w \in Workers, NEW i \in Ids, Fresh(w, i),
           req'[w] = req[w], i \in RowsOf(w) => exc'[i] = exc[i]
    PROVE  Fresh(w, i)'
<1>1. now \in Nat /\ now' \in Nat /\ now <= now'
  BY ClockAdvances DEF IInv
<1>2. CASE i \notin RowsOf(w)
  BY <1>2 DEF RowsOf, Fresh
<1>3. CASE exc'[i] = exc[i]
  <2>1. exc[i] \in Row
    BY DEF IInv, TypeOK
  <2>2. get_effective_deadline(exc[i]) \in Time
    BY <2>1 DEF get_effective_deadline, Row
  <2>3. PastRetention(exc[i]) => PastRetention(exc[i])'
    BY <1>1, <1>3, <2>2, HoursAssumption
       DEF PastRetention, Time, get_effective_deadline
  <2>4. Overdue(exc[i]) => Overdue(exc[i])'
    BY <1>1, <1>3, <2>2 DEF Overdue, Past, Time, get_effective_deadline
  <2>5. get_effective_deadline(exc[i])' = get_effective_deadline(exc[i])
    BY <1>3 DEF get_effective_deadline
  <2> QED BY <1>3, <2>3, <2>4, <2>5 DEF Fresh
<1> QED BY <1>2, <1>3

LEMMA BeginFresh ==
    ASSUME IInv, NEW w \in Workers, NEW j \in Ids, RowRequest(w, j),
           NEW i \in Ids
    PROVE  Fresh(w, i)'
<1> USE DEF IInv
<1>1. ASSUME NEW op \in DOMAIN Target, Begin(w, j, op) PROVE Fresh(w, i)'
  <2>1. /\ req'[w].op = op /\ req'[w].id = j /\ req'[w].seen = exc[j].status
        /\ exc' = exc /\ CanTransition(exc[j].status, Target[op])
    BY <1>1 DEF Begin, Idle, TypeOK
  <2>2. op # "extend" /\ op # "job" /\ op # "purge"
    BY DEF Target
  <2> QED BY <2>1, <2>2 DEF Fresh
<1>2. CASE BeginExtend(w, j)
  <2>1. PICK h \in ExtendHours :
          /\ req'[w].op = "extend" /\ req'[w].id = j
          /\ req'[w].seen = exc[j].status
          /\ req'[w].due = ExtensionBase(exc[j]) + h
    BY <1>2 DEF BeginExtend, Idle, TypeOK
  <2>2. exc' = exc /\ exc[j].status \in {"PENDING_EMPLOYEE", "EXPIRED"}
    BY <1>2 DEF BeginExtend
  <2>3. "extend" \notin DOMAIN Target
    BY DEF Target
  <2>4. exc[j] \in Row /\ now \in Nat /\ h \in Nat
    BY HoursAssumption DEF TypeOK
  <2>5. get_effective_deadline(exc[j]) \in Time
    BY <2>4 DEF get_effective_deadline, Row
  <2>6. /\ req'[w].due \in Nat
        /\ get_effective_deadline(exc[j]) # NoTime =>
             get_effective_deadline(exc[j]) <= req'[w].due
    BY <2>1, <2>4, <2>5 DEF ExtensionBase, Past, Time
  <2>7. get_effective_deadline(exc[j])' = get_effective_deadline(exc[j])
    BY <2>2 DEF get_effective_deadline
  <2> QED BY <2>1, <2>2, <2>3, <2>6, <2>7 DEF Fresh
<1> QED BY <1>1, <1>2 DEF RowRequest, BeginSubmit, BeginApprove, BeginReject,
                          BeginExpire, Target

LEMMA BatchFresh ==
    ASSUME TypeOK, NEW w \in Workers, BeginPurge(w) \/ BeginJob(w),
           NEW i \in Ids
    PROVE  Fresh(w, i)'
<1>1. exc' = exc /\ now' = now /\ "purge" \notin DOMAIN Target
      /\ "job" \notin DOMAIN Target
  BY DEF BeginPurge, BeginJob, Target
<1>2. CASE BeginPurge(w)
  <2>1. /\ req'[w].op = "purge" /\ req'[w].held = OverdueIds
        /\ req'[w].ids = {j \in OverdueIds
                               \cup {k \in Ids : exc[k].status = "EXPIRED"} :
                             PastRetention(exc[j])}
    BY <1>2 DEF BeginPurge, TypeOK, Idle
  <2>2. i \in req'[w].held => exc[i].status = "PENDING_EMPLOYEE"
    BY <2>1 DEF OverdueIds, Overdue
  <2>3. i \in req'[w].ids => /\ exc[i].status = "EXPIRED" \/ Overdue(exc[i])
                             /\ PastRetention(exc[i])
    BY <2>1 DEF OverdueIds
  <2> QED BY <1>1, <2>1, <2>2, <2>3
          DEF Fresh, Overdue, PastRetention, Past, get_effective_deadline
<1>3. CASE BeginJob(w)
  <2>1. /\ req'[w].op = "job"
        /\ i \in req'[w].ids => exc[i].status = "PENDING_EMPLOYEE"
    BY <1>3 DEF BeginJob, TypeOK, Idle
  <2> QED BY <1>1, <2>1 DEF Fresh
<1> QED BY <1>2, <1>3

LEMMA FreshStep ==
    ASSUME IInv, CopiesFresh, [Next]_vars
    PROVE  CopiesFresh'
<1> SUFFICES ASSUME NEW w \in Workers, NEW i \in Ids, i \notin overtaken'[w],
                    req'[w] # Idle
             PROVE  Fresh(w, i)'
  BY IdleFresh DEF CopiesFresh
<1> USE DEF IInv
<1>1. /\ Fresh(w, i)
      /\ i \in RowsOf(w) => exc'[i] = exc[i]
  BY CopyKept DEF CopiesFresh
<1>2. CASE req'[w] = req[w]
  BY <1>1, <1>2, StaysFresh
<1>3. CASE req'[w] # req[w]
  <2>1. ASSUME NEW v \in Workers, Finish(v) PROVE FALSE
    <3>1. req' = [req EXCEPT ![v] = Idle]
      BY <2>1 DEF Finish, CommitSubmit, CommitApprove, RollbackApprove,
                  CommitReject, CommitExpire, CommitExtend, CommitPurge,
                  CommitJob, Commit, Fail
    <3> QED BY <1>3, <3>1 DEF TypeOK
  <2>2. ASSUME NEW v \in Workers, NEW j \in Ids, RowRequest(v, j)
        PROVE  Fresh(w, i)'
    <3>1. \E r : req' = [req EXCEPT ![v] = r]
      BY <2>2 DEF RowRequest, BeginSubmit, BeginApprove, BeginReject,
                  BeginExpire, BeginExtend, Begin
    <3>2. v = w
      BY <1>3, <3>1 DEF TypeOK
    <3> QED BY <2>2, <3>2, BeginFresh
  <2>3. ASSUME NEW v \in Workers, BeginPurge(v) \/ BeginJob(v)
        PROVE  Fresh(w, i)'
    <3>1. v = w
      BY <1>3, <2>3 DEF BeginPurge, BeginJob, TypeOK
    <3> QED BY <2>3, <3>1, BatchFresh
  <2>4. ASSUME NEW v \in Workers, NotifyJob(v) PROVE Fresh(w, i)'
    <3>1. /\ v = w /\ req[w].op = "job" /\ req'[w].op = "job"
          /\ req'[w].ids = req[w].ids /\ exc' = exc
      BY <1>3, <2>4 DEF NotifyJob, TypeOK
    <3>2. "job" \notin DOMAIN Target
      BY DEF Target
    <3> QED BY <1>1, <3>1, <3>2 DEF Fresh
  <2>5. Tick \/ UNCHANGED vars => FALSE
    BY <1>3 DEF Tick, vars
  <2>6. \A j \in Ids : ~(CreateSystem(j) \/ CreateDetected(j) \/ CreateFace(j)
                            \/ View(j))
    BY <1>3 DEF CreateSystem, CreateDetected, CreateFace, View, Insert
  <2>7. \A v \in Workers : ~BatchExpire(v)
    BY <1>3 DEF BatchExpire
  <2> QED BY <2>1, <2>2, <2>3, <2>4, <2>5, <2>6, <2>7 DEF Next
<1> QED BY <1>2, <1>3

\* A request that ends with the step has a fresh copy of the rows outside Stale.
LEMMA EndsFresh ==
    ASSUME CopiesFresh, NEW w \in Workers, NEW i \in Ids \ Stale,
           req'[w] = Idle
    PROVE  Fresh(w, i)
BY DEF CopiesFresh, Stale

\* The inductive invariant of rows that are rewritten from fresh copies.
FreshInv == /\ IInv
            /\ CopiesFresh
            /\ DecisionMatchesStatus

\* Moved, for a request with a fresh copy.
LEMMA FreshMove ==
    ASSUME NEW w \in Workers, NEW i \in Ids, Fresh(w, i), Moved(w, i)
    PROVE  /\ exc'[i].status = Target[req[w].op]
           /\ \/ exc'[i].status = exc[i].status
              \/ /\ exc[i].status = "PENDING_EMPLOYEE"
                 /\ exc'[i].status \in {"PENDING_ADMIN", "EXPIRED"}
              \/ /\ exc[i].status = "PENDING_ADMIN"
                 /\ exc'[i].status \in Decided
<1>1. /\ req[w].op \in DOMAIN Target /\ req[w].id = i
      /\ req[w].seen = exc[i].status
      /\ CanTransition(exc[i].status, Target[req[w].op])
      /\ exc[i].status \in Live
      /\ exc'[i].status = IF req[w].seen = Target[req[w].op]
                          THEN exc[i].status ELSE Target[req[w].op]
  BY DEF Moved, Fresh, Exists
<1>2. exc'[i].status = Target[req[w].op]
  BY <1>1
<1>3. CASE exc[i].status = Target[req[w].op]
  BY <1>2, <1>3
<1>4. CASE Target[req[w].op] \in ALLOWED_TRANSITIONS[exc[i].status]
  <2>1. CASE exc[i].status = "PENDING_EMPLOYEE"
    BY <1>1, <1>2, <1>4, <2>1 DEF ALLOWED_TRANSITIONS
  <2>2. CASE exc[i].status = "PENDING_ADMIN"
    BY <1>1, <1>2, <1>4, <2>2 DEF ALLOWED_TRANSITIONS
  <2>3. CASE exc[i].status \notin {"PENDING_EMPLOYEE", "PENDING_ADMIN"}
    BY <1>1, <1>4, <2>3 DEF ALLOWED_TRANSITIONS
  <2> QED BY <2>1, <2>2, <2>3
<1> QED BY <1>1, <1>2, <1>3, <1>4 DEF CanTransition

\* Expired, for requests with a fresh copy: the row waited for the employee.
LEMMA FreshExpiry ==
    ASSUME CopiesFresh, NEW i \in Ids \ Stale, Expired(i)
    PROVE  exc[i].status \in {"PENDING_EMPLOYEE", "EXPIRED"}
<1>1. CASE i \in OverdueIds
  BY <1>1 DEF OverdueIds, Overdue
<1>2. ASSUME NEW w \in Workers, i \in Expiring(w), req'[w] = Idle
      PROVE  exc[i].status \in {"PENDING_EMPLOYEE", "EXPIRED"}
  <2>1. Fresh(w, i)
    BY <1>2, EndsFresh
  <2>2. CASE req[w].op = "expire"
    <3>1. i = req[w].id /\ Target[req[w].op] = "EXPIRED"
          /\ req[w].op \in DOMAIN Target
      BY <1>2, <2>2 DEF Expiring, Target
    <3>2. CanTransition(exc[i].status, "EXPIRED") /\ exc[i].status \in Live
      BY <2>1, <3>1 DEF Fresh, Expired, Exists
    <3>3. exc[i].status = "PENDING_ADMIN" => "EXPIRED" \notin ALLOWED_TRANSITIONS[exc[i].status]
      BY <3>2 DEF ALLOWED_TRANSITIONS, Decided
    <3>4. exc[i].status \in Decided => "EXPIRED" \notin ALLOWED_TRANSITIONS[exc[i].status]
      BY <3>2 DEF ALLOWED_TRANSITIONS, Decided
    <3> QED BY <3>2, <3>3, <3>4 DEF CanTransition, Live, Pending
  <2>3. CASE req[w].op = "job"
    BY <1>2, <2>1, <2>3 DEF Expiring, Fresh
  <2>4. CASE req[w].op = "purge"
    BY <1>2, <2>1, <2>4 DEF Expiring, Fresh
  <2> QED BY <1>2, <2>2, <2>3, <2>4 DEF Expiring
<1> QED BY <1>1, <1>2 DEF Expired

LEMMA FreshPurge ==
    ASSUME CopiesFresh, NEW i \in Ids \ Stale, NEW w \in Workers, Deleted(w, i)
    PROVE  /\ exc[i].status = "EXPIRED" \/ Overdue(exc[i])
           /\ PastRetention(exc[i])
BY EndsFresh DEF Deleted, Fresh

LEMMA FreshExtension ==
    ASSUME CopiesFresh, NEW i \in Ids \ Stale, NEW w \in Workers,
           Prolonged(w, i)
    PROVE  /\ exc[i].status \in {"PENDING_EMPLOYEE", "EXPIRED"}
           /\ exc'[i].extended \in Nat
           /\ get_effective_deadline(exc[i]) # NoTime =>
                get_effective_deadline(exc[i]) <= exc'[i].extended
BY EndsFresh DEF Prolonged, Fresh

\* Every step moves each row along the transition table, or not at all,
\* unless it ends a request with an old copy of the row.
LEMMA StepIsMove ==
    ASSUME IInv, CopiesFresh, [Next]_vars, NEW i \in Ids \ Stale
    PROVE  \/ exc'[i].status = exc[i].status
           \/ <<exc[i].status, exc'[i].status>> \in Lifecycle!Moves
<1> USE DEF Lifecycle!Moves, Lifecycle!Created, Lifecycle!Worked,
            Lifecycle!Extended, Lifecycle!Purged, Lifecycle!Pending
<1>1. RowEffect(i)
  BY StepEffect DEF IInv
<1>2. CASE Inserted(i)
  BY <1>2 DEF Inserted, Pending
<1>3. ASSUME NEW w \in Workers, Moved(w, i)
      PROVE  \/ exc'[i].status = exc[i].status
             \/ <<exc[i].status, exc'[i].status>> \in Lifecycle!Worked
  <2>1. Fresh(w, i)
    BY <1>3, EndsFresh DEF Moved
  <2> QED BY <1>3, <2>1, FreshMove DEF Decided
<1>4. ASSUME NEW w \in Workers, Prolonged(w, i)
      PROVE  \/ exc'[i].status = exc[i].status
             \/ <<exc[i].status, exc'[i].status>> \in Lifecycle!Extended
  BY <1>4, FreshExtension DEF Prolonged
<1>5. CASE Expired(i)
  BY <1>5, FreshExpiry DEF Expired
<1>6. ASSUME NEW w \in Workers, Deleted(w, i)
      PROVE  <<exc[i].status, exc'[i].status>> \in Lifecycle!Purged
  BY <1>6, FreshPurge DEF Deleted, NoRow, Overdue
<1> QED BY <1>1, <1>2, <1>3, <1>4, <1>5, <1>6 DEF RowEffect

\* Whatever a request does from an old copy, it does to a row that exists.
LEMMA StepIsOverwrite ==
    ASSUME IInv, [Next]_vars, NEW i \in Ids
    PROVE  \/ exc'[i].status = exc[i].status
           \/ <<exc[i].status, exc'[i].status>> \in Lifecycle!Created
           \/ <<exc[i].status, exc'[i].status>> \in Lifecycle!Overwritten
<1> USE DEF Lifecycle!Created, Lifecycle!Overwritten, Lifecycle!Pending,
            Lifecycle!Decided, Lifecycle!Statuses
<1>1. RowEffect(i)
  BY StepEffect DEF IInv
<1>2. CASE Inserted(i)
  BY <1>2 DEF Inserted, Pending
<1>3. ASSUME exc[i].status \in Live, exc'[i].status \in Live \cup {"PURGED"}
      PROVE  <<exc[i].status, exc'[i].status>> \in Lifecycle!Overwritten
  BY <1>3 DEF Live, Pending, Decided
<1>4. ASSUME NEW w \in Workers, Moved(w, i)
      PROVE  exc[i].status \in Live /\ exc'[i].status \in Live
  BY <1>4, TargetIsLive DEF Moved, Exists
<1>5. ASSUME NEW w \in Workers, Prolonged(w, i)
      PROVE  exc[i].status \in Live /\ exc'[i].status \in Live
  BY <1>5 DEF Prolonged, Exists, Live, Pending
<1>6. CASE Expired(i)
  BY <1>3, <1>6 DEF Expired, Exists, Live
<1>7. ASSUME NEW w \in Workers, Deleted(w, i)
      PROVE  \/ exc'[i].status = exc[i].status
             \/ <<exc[i].status, exc'[i].status>> \in Lifecycle!Overwritten
  <2>1. exc'[i].status = "PURGED"
    BY <1>7 DEF Deleted, NoRow
  <2>2. exc[i].status # "NONE" /\ exc[i].status \in Statuses
    BY <1>7 DEF Deleted, IInv, RequestsJustified, Justified, TypeOK, Row
  <2> QED BY <1>3, <2>1, <2>2 DEF Statuses
<1> QED BY <1>1, <1>2, <1>3, <1>4, <1>5, <1>6, <1>7 DEF RowEffect

\* A row that a request rewrites from an old copy is raced from then on.
LEMMA StaleIsRaced ==
    ASSUME [Next]_vars
    PROVE  /\ raced \subseteq raced'
           /\ \A i \in Ids : i \in Stale /\ exc'[i] # exc[i] => i \in raced'
<1>1. CASE UNCHANGED vars
  BY <1>1 DEF vars
<1>2. CASE Overlap
  BY <1>2 DEF Overlap, Rewritten
<1> QED BY <1>1, <1>2, StepOverlap

LEMMA DecisionStep ==
    ASSUME IInv, CopiesFresh, DecisionMatchesStatus, [Next]_vars
    PROVE  DecisionMatchesStatus'
<1> SUFFICES ASSUME NEW i \in Ids, i \notin raced', exc'[i].status \in Decided
             PROVE  exc'[i].decision = exc'[i].status
  BY DEF DecisionMatchesStatus
<1>1. RowEffect(i)
  BY StepEffect DEF IInv
<1>2. i \notin raced /\ (exc'[i] = exc[i] \/ i \in Ids \ Stale)
  BY StaleIsRaced
<1>3. CASE exc'[i] = exc[i]
  BY <1>2, <1>3 DEF DecisionMatchesStatus
<1>4. CASE i \in Ids \ Stale
  <2>1. ASSUME NEW w \in Workers, Moved(w, i)
        PROVE  exc'[i].decision = exc'[i].status
    <3>1. exc'[i].status = Target[req[w].op]
      BY <1>4, <2>1, EndsFresh, FreshMove DEF Moved
    <3>2. req[w].op \in {"approve", "reject"}
      BY <2>1, <3>1 DEF Moved, Target, Decided
    <3> QED BY <2>1, <3>1, <3>2 DEF Moved
  <2>2. ASSUME NEW w \in Workers, Prolonged(w, i) PROVE FALSE
    BY <1>4, <2>2, FreshExtension DEF Prolonged, Decided
  <2>3. ~Inserted(i) /\ ~Expired(i)
    BY DEF Inserted, Expired, Pending, Decided
  <2>4. \A w \in Workers : ~Deleted(w, i)
    BY DEF Deleted, NoRow, Decided
  <2> QED BY <1>1, <1>3, <2>1, <2>2, <2>3, <2>4 DEF RowEffect
<1> QED BY <1>2, <1>3, <1>4

LEMMA FreshInvStep == FreshInv /\ [Next]_vars => FreshInv'
BY InvStep, FreshStep, DecisionStep DEF FreshInv

LEMMA FreshInvInit == Init => FreshInv
<1>1. Init => CopiesFresh /\ DecisionMatchesStatus
  BY DEF Init, CopiesFresh, Fresh, Idle, Target, DecisionMatchesStatus,
         NoRow, Decided
<1> QED BY <1>1, InvInit DEF FreshInv

(***************************************************************************)
(* For any number of threads, the columns the deciding administrator wrote  *)
(* are those of the decision in force, for every row that no request        *)
(* rewrote from a copy another request had overtaken: approve and reject    *)
(* write status and columns together, and a fresh request moves no decided  *)
(* row.                                                                     *)
(***************************************************************************)
THEOREM DecisionColumns == Spec => []DecisionMatchesStatus
<1>1. FreshInv => DecisionMatchesStatus
  BY DEF FreshInv
<1> QED BY <1>1, FreshInvStep, FreshInvInit, PTL DEF Spec

(***************************************************************************)
(* For any number of threads, an approved or rejected row stays so, except  *)
(* at the commit of a request whose copy of the row has been overtaken.     *)
(***************************************************************************)
THEOREM DecisionsStay == Spec => DecisionsAreFinal
<1>1. FreshInv /\ [Next]_vars =>
        [\A i \in Ids \ Stale :
            exc[i].status \in Decided => exc'[i].status = exc[i].status]_exc
  <2> SUFFICES ASSUME FreshInv, [Next]_vars, NEW i \in Ids \ Stale,
                      exc[i].status \in Decided
               PROVE  exc'[i].status = exc[i].status
    OBVIOUS
  <2>1. \/ exc'[i].status = exc[i].status
        \/ <<exc[i].status, exc'[i].status>> \in Lifecycle!Moves
    BY StepIsMove DEF FreshInv
  <2> QED BY <2>1 DEF Decided, Lifecycle!Moves, Lifecycle!Created,
                      Lifecycle!Worked, Lifecycle!Extended, Lifecycle!Purged
<1> QED BY <1>1, FreshInvStep, FreshInvInit, PTL DEF Spec, DecisionsAreFinal

(***************************************************************************)
(* For any number of threads, purge-expired deletes only rows that are      *)
(* expired or overdue and whose effective deadline is further back than the *)
(* retention, except those another request rewrote after the selection.     *)
(***************************************************************************)
THEOREM PurgesArePastGrace == Spec => PurgedOnlyPastGrace
<1>1. FreshInv /\ [Next]_vars =>
        [\A i \in Ids \ Stale :
           Purges(i)
             => /\ exc[i].status = "EXPIRED" \/ Overdue(exc[i])
                /\ Past(get_effective_deadline(exc[i]))
                /\ get_effective_deadline(exc[i]) + Grace < now]_exc
  <2> SUFFICES ASSUME FreshInv, [Next]_vars, NEW i \in Ids \ Stale,
                      exc[i].status # "PURGED", exc'[i].status = "PURGED"
               PROVE  /\ exc[i].status = "EXPIRED" \/ Overdue(exc[i])
                      /\ Past(get_effective_deadline(exc[i]))
                      /\ get_effective_deadline(exc[i]) + Grace < now
    BY DEF Purges
  <2>1. RowEffect(i) /\ exc[i] \in Row /\ now \in Nat
    BY StepEffect DEF FreshInv, IInv, TypeOK
  <2>2. \A w \in Workers : ~Moved(w, i) /\ ~Prolonged(w, i)
    BY TargetIsLive DEF Moved, Prolonged, Exists, Live, Pending, Decided
  <2>3. PICK w \in Workers : Deleted(w, i)
    BY <2>1, <2>2 DEF RowEffect, Inserted, Expired, Pending
  <2>4. /\ exc[i].status = "EXPIRED" \/ Overdue(exc[i])
        /\ PastRetention(exc[i])
    BY <2>3, FreshPurge DEF FreshInv
  <2>5. get_effective_deadline(exc[i]) \in Time
    BY <2>1 DEF get_effective_deadline, Row
  <2> QED BY <2>1, <2>4, <2>5, HoursAssumption DEF PastRetention, Past, Time
<1> QED BY <1>1, FreshInvStep, FreshInvInit, PTL DEF Spec, PurgedOnlyPastGrace

\* The effective deadline of a row only moves forward.
LEMMA DeadlineStep ==
    ASSUME IInv, CopiesFresh, [Next]_vars, NEW i \in Ids \ Stale
    PROVE  DeadlineKept(i)
<1>1. RowEffect(i) /\ exc[i] \in Row
  BY StepEffect DEF IInv, TypeOK
<1>2. get_effective_deadline(exc[i]) \in Time
  BY <1>1 DEF get_effective_deadline, Row
<1>3. ASSUME exc'[i].expires = exc[i].expires,
             exc'[i].extended = exc[i].extended
      PROVE  DeadlineKept(i)
  <2>1. get_effective_deadline(exc'[i]) = get_effective_deadline(exc[i])
    BY <1>3 DEF get_effective_deadline
  <2> QED BY <1>2, <2>1 DEF DeadlineKept, Time
<1>4. ~Inserted(i) \/ ~Exists(i)
  BY DEF Inserted, Exists, Live, Pending, Decided
<1>5. ASSUME NEW w \in Workers, Prolonged(w, i) PROVE DeadlineKept(i)
  <2>1. /\ exc'[i].extended \in Nat
        /\ get_effective_deadline(exc[i]) # NoTime =>
             get_effective_deadline(exc[i]) <= exc'[i].extended
    BY <1>5, FreshExtension
  <2>2. get_effective_deadline(exc'[i]) = exc'[i].extended
    BY <2>1, NoTimeAssumption DEF get_effective_deadline
  <2> QED BY <2>1, <2>2, NoTimeAssumption DEF DeadlineKept
<1>6. ASSUME NEW w \in Workers, Deleted(w, i) PROVE DeadlineKept(i)
  BY <1>6 DEF Deleted, NoRow, DeadlineKept, Exists, Live, Pending, Decided
<1>7. ASSUME NEW w \in Workers, Moved(w, i) PROVE DeadlineKept(i)
  BY <1>3, <1>7 DEF Moved
<1>8. CASE Expired(i)
  BY <1>3, <1>8 DEF Expired, SameColumns
<1> QED BY <1>1, <1>3, <1>4, <1>5, <1>6, <1>7, <1>8
        DEF RowEffect, DeadlineKept

(***************************************************************************)
(* For any number of threads and whatever hours they ask for, extensions,   *)
(* expiries and revivals never move the effective deadline of a row back,   *)
(* except at the commit of a request whose copy has been overtaken: there a *)
(* later extension may undo an earlier one (reports.py:2081).               *)
(***************************************************************************)
THEOREM DeadlinesMoveForward == Spec => DeadlineMovesForward
<1>1. FreshInv /\ [Next]_vars => [\A i \in Ids \ Stale : DeadlineKept(i)]_exc
  BY DeadlineStep DEF FreshInv
<1> QED BY <1>1, FreshInvStep, FreshInvInit, PTL DEF Spec, DeadlineMovesForward

(***************************************************************************)
(* For any number of threads the workflow implements ExceptionLifecycle:    *)
(* rows begin as NONE there too, and whatever a step of the handlers does   *)
(* to the rows moves each status along the documented table, or rewrites an *)
(* existing row from an overtaken copy; a purged row never comes back.      *)
(***************************************************************************)
THEOREM LifecycleImplemented == Spec => ImplementsLifecycle
<1>1. Init => Lifecycle!Init
  BY DEF Init, Lifecycle!Init, NoRow
<1>2. FreshInv /\ FreshInv' /\ [Next]_vars
        => [Lifecycle!Next]_<<[i \in Ids |-> exc[i].status], raced>>
  <2> SUFFICES ASSUME FreshInv, FreshInv', [Next]_vars PROVE Lifecycle!Next
    OBVIOUS
  <2>1. /\ \A i \in Ids : exc'[i].status \in Statuses
        /\ raced' \subseteq Ids
    BY DEF FreshInv, IInv, TypeOK, Row
  <2>2. Statuses = Lifecycle!Statuses
    BY DEF Statuses, Live, Pending, Decided, Lifecycle!Statuses,
           Lifecycle!Pending, Lifecycle!Decided
  <2>3. [i \in Ids |-> exc'[i].status] \in [Ids -> Lifecycle!Statuses]
    BY <2>1, <2>2
  <2>4. ASSUME NEW i \in Ids
        PROVE  \/ exc'[i].status = exc[i].status
               \/ <<exc[i].status, exc'[i].status>> \in Lifecycle!Moves
               \/ /\ i \in raced'
                  /\ <<exc[i].status, exc'[i].status>> \in Lifecycle!Overwritten
    <3>1. CASE i \notin Stale
      BY <3>1, StepIsMove DEF FreshInv
    <3>2. CASE i \in Stale
      BY <3>2, StaleIsRaced, StepIsOverwrite DEF FreshInv, Lifecycle!Moves
    <3> QED BY <3>1, <3>2
  <2>5. raced \subseteq raced'
    BY StaleIsRaced
  <2> QED BY <2>1, <2>3, <2>4, <2>5 DEF Lifecycle!Next
<1> QED BY <1>1, <1>2, FreshInvStep, FreshInvInit, PTL
        DEF Spec, ImplementsLifecycle, Lifecycle!Spec
===========================================================================
