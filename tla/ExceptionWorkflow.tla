------------------------ MODULE ExceptionWorkflow -------------------------
(***************************************************************************)
(* The attendance exception workflow: the endpoints of api/reports.py that *)
(* create, explain, decide, expire, extend and purge exceptions, and the   *)
(* expiry job.  A handler runs in a thread of its own.  It loads the row   *)
(* (READ COMMITTED, no row lock), decides on what it loaded, and commits;  *)
(* the ORM then updates the columns it changed WHERE id = ..., so other    *)
(* requests may commit between the load and the commit.  A handler is      *)
(* therefore a Begin action (load and checks) and a Commit action; an      *)
(* error, a crash or a disconnect between the two is Fail, a rollback.     *)
(***************************************************************************)
EXTENDS Naturals, FiniteSets

CONSTANTS Ids,          \* identifiers of exception rows; one is never reused
          NoId,         \* no row
          Workers,      \* threads serving requests
          Mailed,       \* rows whose employee has a user with an e-mail
          NoTime,       \* a NULL timestamp
          Deadlines,    \* deadlines the system caller may ask for
          PolicyHours,  \* deadline hours of the exception policy
          ExtendHours,  \* hours an administrator may extend by
          Grace,        \* retention of expired rows (grace_period_days)
          MaxTime,      \* bound of the clock
          MaxDeadline   \* bound of the extended deadlines

ASSUME NoTimeAssumption == NoTime \notin Nat
ASSUME NoIdAssumption   == NoId \notin Ids
ASSUME HoursAssumption  ==
    /\ Deadlines \subseteq Nat
    /\ PolicyHours \subseteq Nat
    /\ ExtendHours \subseteq Nat \ {0}
    /\ Grace \in Nat
    /\ MaxTime \in Nat
    /\ MaxDeadline \in Nat

VARIABLES now,          \* the clock, in hours
          exc,          \* exc[i] : the committed row i
          audit,        \* attendance_exception_audits, committed
          notified,     \* dedupe keys of attendance_exception_notifications
          sent,         \* mails handed to the sender, as <<row, event>>
          shown,        \* rows some response has presented as EXPIRED
          req           \* req[w] : the request thread w is serving

\* History variables: no handler reads them, the properties do.
VARIABLES overtaken,    \* overtaken[w] : rows the request of w has loaded and
                        \* another request has rewritten since
          raced         \* rows some request rewrote from such an old copy

vars == <<now, exc, audit, notified, sent, shown, req, overtaken, raced>>

---------------------------------------------------------------------------
(* Rows. NONE: not created; PURGED: deleted. *)

Pending  == {"PENDING_EMPLOYEE", "PENDING_ADMIN"}
Decided  == {"APPROVED", "REJECTED"}
Live     == Pending \cup Decided \cup {"EXPIRED"}
Statuses == Live \cup {"NONE", "PURGED"}

Time == Nat \cup {NoTime}

\* origin (the status at creation) and decision (who last wrote the columns
\* admin_note, decided_by, ...) are what the properties need of the row.
Row == [status : Statuses, origin : Pending \cup {"NONE"},
        expires : Time, extended : Time,
        submitted : BOOLEAN, decision : Decided \cup {"NONE"}]

NoRow == [status |-> "NONE", origin |-> "NONE", expires |-> NoTime,
          extended |-> NoTime, submitted |-> FALSE, decision |-> "NONE"]

Exists(i) == exc[i].status \in Live

\* Mutant: an expired row can still be explained.
LateTransitions ==
    [s \in Live |->
        CASE s = "PENDING_EMPLOYEE" -> {"PENDING_ADMIN", "EXPIRED"}
          [] s = "PENDING_ADMIN"    -> Decided
          [] s = "EXPIRED"          -> {"PENDING_ADMIN"}
          [] OTHER                  -> {}]

ALLOWED_TRANSITIONS ==
    [s \in Live |->
        CASE s = "PENDING_EMPLOYEE" -> {"PENDING_ADMIN", "EXPIRED"}
          [] s = "PENDING_ADMIN"    -> Decided
          [] OTHER                  -> {}]

\* Mutants: a decision may be corrected; no transition is refused.
CanCorrect(from, to)    == from = to \/ from \in Decided
                                    \/ to \in ALLOWED_TRANSITIONS[from]
CanTransitTo(from, to)  == from \in Live /\ to \in Live

\* ensure_allowed_exception_transition: repeating the current status is fine.
CanTransition(from, to) == from = to \/ to \in ALLOWED_TRANSITIONS[from]

get_effective_deadline(row) ==
    IF row.extended # NoTime THEN row.extended ELSE row.expires

Past(t) == t # NoTime /\ t < now

\* Mutant: any deadline counts as past.
OverdueAnyTime(row) == /\ row.status = "PENDING_EMPLOYEE"
                       /\ get_effective_deadline(row) # NoTime

Overdue(row) ==
    row.status = "PENDING_EMPLOYEE" /\ Past(get_effective_deadline(row))

---------------------------------------------------------------------------
(* Requests. *)

Target == [submit |-> "PENDING_ADMIN", approve |-> "APPROVED",
           reject |-> "REJECTED", expire |-> "EXPIRED"]

RowOps == DOMAIN Target \cup {"extend"}    \* handlers of one row
Ops    == RowOps \cup {"purge", "job"}

Keys == Ids \X (Ops \cup {"detected"})

\* seen : status loaded; due : new deadline; ids : rows of a batch; held :
\* rows updated but not committed, hence locked; keys : dedupe keys of the
\* notifications the job has inserted but not committed.
Request == [op : Ops \cup {"idle"}, id : Ids \cup {NoId}, seen : Statuses,
            due : Time, ids : SUBSET Ids, held : SUBSET Ids,
            keys : SUBSET Keys]

Idle == [op |-> "idle", id |-> NoId, seen |-> "NONE", due |-> NoTime,
         ids |-> {}, held |-> {}, keys |-> {}]

Unlocked(S) == \A w \in Workers : req[w].held \cap S = {}

UnlockedFor(w, S) == \A v \in Workers \ {w} : req[v].held \cap S = {}

\* Administrators are told of a submission, the employee of everything else.
Addressed(i, event) == event = "submit" \/ i \in Mailed

\* create_exception_notification_record: the keys that are not there yet;
\* where one is, neither notification nor mail, and the handler goes on.
NewKeys(S, event) == {<<i, event>> : i \in {j \in S : Addressed(j, event)}}
                       \ notified

---------------------------------------------------------------------------
(* The history of overlapping requests.  Every action ends with Overlap. *)

\* The rows the request of w is about, loaded when it began.
RowsOf(w) == {req[w].id} \cup req[w].ids \cup req[w].held

Rewritten == {i \in Ids : exc'[i] # exc[i]}

\* The rows that the request ending with this step, if any, acts upon by an
\* old copy.
Stale == {i \in Ids : \E w \in Workers : i \in overtaken[w] /\ req'[w] = Idle}

Overlap ==
    /\ overtaken' = [w \in Workers |->
                        IF req'[w] = Idle THEN {}
                        ELSE overtaken[w] \cup (RowsOf(w) \cap Rewritten)]
    /\ raced' = raced \cup (Rewritten \cap Stale)

---------------------------------------------------------------------------
Init == /\ now = 0
        /\ exc = [i \in Ids |-> NoRow]
        /\ audit = {}
        /\ notified = {}
        /\ sent = {}
        /\ shown = {}
        /\ req = [w \in Workers |-> Idle]
        /\ overtaken = [w \in Workers |-> {}]
        /\ raced = {}

Tick == /\ now < MaxTime
        /\ now' = now + 1
        /\ UNCHANGED <<exc, audit, notified, sent, shown, req>>
        /\ Overlap

\* The audit row kept here: that row i was taken to a status.
AuditRow(i, to) == [id |-> i, to |-> to]

Insert(i, status, expires) ==
    /\ exc[i].status = "NONE"
    /\ exc' = [exc EXCEPT ![i] = [NoRow EXCEPT !.status = status,
                                               !.origin = status,
                                               !.expires = expires]]
    /\ UNCHANGED <<now, shown, req>>
    /\ Overlap

Announce(i) == /\ notified' = notified \cup {<<i, "detected">>}
               /\ sent' = sent \cup {<<i, "detected">>}

\* POST /attendance-exceptions/system: the caller may give the deadline;
\* otherwise the policy gives one to a row that waits for the employee.
CreateSystem(i) ==
    /\ \E s \in Pending, t \in Deadlines \cup {NoTime} :
         /\ s = "PENDING_EMPLOYEE" => t # NoTime
         /\ Insert(i, s, t)
         /\ audit' = audit \cup {AuditRow(i, s)}
         /\ IF s = "PENDING_ADMIN" \/ i \in Mailed
            THEN Announce(i)
            ELSE UNCHANGED <<notified, sent>>

\* The rows that check-in, check-out and status insert: a location exception
\* with a policy deadline, a LARGE_TIME_DEVIATION one, which goes to the
\* administrator, and an AUTO_CLOSED or MISSED_CHECKOUT one, which has no
\* deadline and is announced to nobody.  The announcement of the others is a
\* second transaction, which a request cut short does not reach.
CreateDetected(i) ==
    /\ \/ /\ Insert(i, "PENDING_EMPLOYEE", NoTime)
          /\ UNCHANGED <<notified, sent>>
       \/ /\ \/ Insert(i, "PENDING_ADMIN", NoTime)
             \/ \E h \in PolicyHours : Insert(i, "PENDING_EMPLOYEE", now + h)
          /\ Announce(i) \/ UNCHANGED <<notified, sent>>
    /\ UNCHANGED audit

\* flag-no-camera: without a policy row there is no deadline.
CreateFace(i) ==
    /\ \E t \in {now + h : h \in PolicyHours} \cup {NoTime} :
         Insert(i, "PENDING_EMPLOYEE", t)
    /\ audit' = audit \cup {AuditRow(i, "PENDING_EMPLOYEE")}
    /\ UNCHANGED <<notified, sent>>

---------------------------------------------------------------------------
(* Handlers of one row that move its status. *)

Begin(w, i, op) ==
    /\ req[w] = Idle
    /\ Exists(i)
    /\ CanTransition(exc[i].status, Target[op])
    /\ req' = [req EXCEPT ![w] = [Idle EXCEPT !.op = op, !.id = i,
                                              !.seen = exc[i].status]]
    /\ UNCHANGED <<now, exc, audit, notified, sent, shown>>
    /\ Overlap

\* Mutant: a row that is gone goes unnoticed.
FlushesBlindly(w) == Unlocked({req[w].id})

\* The UPDATE waits for a locked row and fails (Fail) when the row is gone.
Flushes(w) == Exists(req[w].id) /\ Unlocked({req[w].id})

\* The ORM writes the status column only when it differs from the loaded one.
Written(w) == LET r == req[w]
              IN  IF r.seen = Target[r.op] THEN exc[r.id].status
                                           ELSE Target[r.op]

\* Mutant: the audit row is forgotten.
CommitUnaudited(w, op, row) ==
    /\ req[w].op = op
    /\ Flushes(w)
    /\ exc' = [exc EXCEPT ![req[w].id] = row]
    /\ notified' = notified \cup NewKeys({req[w].id}, op)
    /\ sent' = sent \cup NewKeys({req[w].id}, op)
    /\ req' = [req EXCEPT ![w] = Idle]
    /\ UNCHANGED <<now, audit, shown>>
    /\ Overlap

\* The dedupe key is looked up after the decision, next to the flush.  (Two
\* requests that both look it up before either commits: the insert of the
\* second fails, which is Fail.)
Commit(w, op, row) ==
    /\ req[w].op = op
    /\ Flushes(w)
    /\ exc' = [exc EXCEPT ![req[w].id] = row]
    /\ audit' = audit \cup {AuditRow(req[w].id, Target[op])}
    /\ notified' = notified \cup NewKeys({req[w].id}, op)
    /\ sent' = sent \cup NewKeys({req[w].id}, op)
    /\ req' = [req EXCEPT ![w] = Idle]
    /\ UNCHANGED <<now, shown>>
    /\ Overlap

\* Mutant: the deadline is not looked at.
SubmitAnyTime(w, i) == Begin(w, i, "submit")

BeginSubmit(w, i) == /\ ~Past(get_effective_deadline(exc[i]))
                     /\ Begin(w, i, "submit")

CommitSubmit(w) ==
    Commit(w, "submit", [exc[req[w].id] EXCEPT !.status = Written(w),
                                               !.submitted = TRUE])

BeginApprove(w, i) == Begin(w, i, "approve")

CommitApprove(w) ==
    Commit(w, "approve", [exc[req[w].id] EXCEPT !.status = Written(w),
                                                !.decision = "APPROVED"])

\* The overtime integration raised: the handler rolls everything back, then
\* goes on as if it had not, and the queued mail leaves with the response.
RollbackApprove(w) ==
    /\ req[w].op = "approve"
    /\ Flushes(w)
    /\ sent' = sent \cup NewKeys({req[w].id}, "approve")
    /\ req' = [req EXCEPT ![w] = Idle]
    /\ UNCHANGED <<now, exc, audit, notified, shown>>
    /\ Overlap

BeginReject(w, i) == Begin(w, i, "reject")

\* Mutants: the columns of the decision are not written; they get the event.
RejectStatusOnly(w) ==
    Commit(w, "reject", [exc[req[w].id] EXCEPT !.status = Written(w)])
RejectAsEvent(w) ==
    Commit(w, "reject", [exc[req[w].id] EXCEPT !.status = Written(w),
                                               !.decision = "reject"])

CommitReject(w) ==
    Commit(w, "reject", [exc[req[w].id] EXCEPT !.status = Written(w),
                                               !.decision = "REJECTED"])

\* Mutant: the deadline is not compared with the clock.
ExpireAnyTime(w, i) == /\ exc[i].expires # NoTime
                       /\ Begin(w, i, "expire")

\* The endpoint looks at expires_at alone.
BeginExpire(w, i) == /\ exc[i].expires # NoTime
                     /\ exc[i].expires <= now
                     /\ Begin(w, i, "expire")

CommitExpire(w) ==
    Commit(w, "expire", [exc[req[w].id] EXCEPT !.status = Written(w)])

---------------------------------------------------------------------------
(* Extension of the deadline. *)

\* Mutant: extensions count from now on.
ExtendFromNow(row) == IF row.status = "NONE" THEN 0 ELSE now

ExtensionBase(row) ==
    LET t == get_effective_deadline(row)
    IN  IF t = NoTime \/ Past(t) THEN now ELSE t

BeginExtend(w, i) ==
    /\ req[w] = Idle
    /\ exc[i].status \in {"PENDING_EMPLOYEE", "EXPIRED"}
    /\ \E h \in ExtendHours :
         LET due == ExtensionBase(exc[i]) + h
         IN  /\ due <= MaxDeadline
             /\ req' = [req EXCEPT ![w] =
                           [Idle EXCEPT !.op = "extend", !.id = i,
                                        !.seen = exc[i].status,
                                        !.due = due]]
    /\ UNCHANGED <<now, exc, audit, notified, sent, shown>>
    /\ Overlap

CommitExtend(w) ==
    LET r == req[w]
        status == IF r.seen = "EXPIRED" THEN "PENDING_EMPLOYEE"
                                        ELSE exc[r.id].status
    IN  /\ r.op = "extend"
        /\ Exists(r.id)
        /\ Unlocked({r.id})
        /\ exc' = [exc EXCEPT ![r.id] = [@ EXCEPT !.status = status,
                                                  !.extended = r.due]]
        /\ shown' = shown \ {r.id}
        /\ req' = [req EXCEPT ![w] = Idle]
        /\ UNCHANGED <<now, audit, notified, sent>>
        /\ Overlap

---------------------------------------------------------------------------
(* Batches. *)

OverdueIds == {i \in Ids : Overdue(exc[i])}

ExpireRows(S) ==
    [i \in Ids |-> IF i \in S THEN [exc[i] EXCEPT !.status = "EXPIRED"]
                              ELSE exc[i]]

\* One UPDATE ... WHERE: the condition is checked again on locked rows.
BatchExpire(w) ==
    /\ req[w] = Idle
    /\ OverdueIds # {}
    /\ Unlocked(OverdueIds)
    /\ exc' = ExpireRows(OverdueIds)
    /\ UNCHANGED <<now, audit, notified, sent, shown, req>>
    /\ Overlap

\* The list and detail endpoints run the same expiry, answer with it, and
\* close their session without a commit.
View(i) ==
    /\ Overdue(exc[i])
    /\ Unlocked({i})
    /\ shown' = shown \cup {i}
    /\ UNCHANGED <<now, exc, audit, notified, sent, req>>
    /\ Overlap

\* Mutant: the retention is not waited for.
PastDeadline(row) == Past(get_effective_deadline(row))

PastRetention(row) == LET t == get_effective_deadline(row)
                      IN  t # NoTime /\ t + Grace < now

\* The rows to delete are chosen after the (uncommitted) batch expiry.
BeginPurge(w) ==
    LET expired == OverdueIds
                     \cup {i \in Ids : exc[i].status = "EXPIRED"}
    IN  /\ req[w] = Idle
        /\ Unlocked(OverdueIds)
        /\ req' = [req EXCEPT ![w] =
                      [Idle EXCEPT !.op = "purge", !.held = OverdueIds,
                                   !.ids = {i \in expired : PastRetention(exc[i])}]]
        /\ UNCHANGED <<now, exc, audit, notified, sent, shown>>
        /\ Overlap

\* DELETE ... WHERE id IN (...): the status is not looked at again.
CommitPurge(w) ==
    LET r == req[w]
    IN  /\ r.op = "purge"
        /\ UnlockedFor(w, r.ids)
        /\ exc' = [i \in Ids |->
                      IF i \in r.ids THEN [NoRow EXCEPT !.status = "PURGED"]
                                     ELSE ExpireRows(r.held)[i]]
        /\ audit' = {a \in audit : a.id \notin r.ids}
        /\ notified' = {n \in notified : n[1] \notin r.ids}
        /\ req' = [req EXCEPT ![w] = Idle]
        /\ UNCHANGED <<now, sent, shown>>
        /\ Overlap

\* expire_overdue_exceptions: the candidates, by expires_at alone.
BeginJob(w) ==
    LET due == {i \in Ids : /\ exc[i].status = "PENDING_EMPLOYEE"
                            /\ exc[i].expires # NoTime
                            /\ exc[i].expires <= now}
    IN  /\ req[w] = Idle
        /\ due # {}
        /\ req' = [req EXCEPT ![w] = [Idle EXCEPT !.op = "job", !.ids = due]]
        /\ UNCHANGED <<now, exc, audit, notified, sent, shown>>
        /\ Overlap

\* One row of the batch whose employee has not been told: the notification is
\* flushed, and with it the row, and the mail leaves before the commit.
NotifyJob(w) ==
    \E i \in req[w].ids \ req[w].held :
        LET r   == req[w]
            new == NewKeys({i}, "job")
        IN  /\ r.op = "job"
            /\ new # {}
            /\ Exists(i)
            /\ Unlocked({i})
            /\ req' = [req EXCEPT ![w] = [r EXCEPT !.held = r.held \cup {i},
                                                  !.keys = r.keys \cup new]]
            /\ sent' = sent \cup new
            /\ UNCHANGED <<now, exc, audit, notified, shown>>
            /\ Overlap

CommitJob(w) ==
    LET r == req[w]
    IN  /\ r.op = "job"
        /\ \A i \in r.ids : Exists(i)
        /\ UnlockedFor(w, r.ids)
        /\ NewKeys(r.ids, "job") \subseteq r.keys
        /\ exc' = ExpireRows(r.ids)
        /\ audit' = audit \cup {AuditRow(i, "EXPIRED") : i \in r.ids}
        /\ notified' = notified \cup r.keys
        /\ req' = [req EXCEPT ![w] = Idle]
        /\ UNCHANGED <<now, sent, shown>>
        /\ Overlap

---------------------------------------------------------------------------
Fail(w) == /\ req[w] # Idle
           /\ req' = [req EXCEPT ![w] = Idle]
           /\ UNCHANGED <<now, exc, audit, notified, sent, shown>>
           /\ Overlap

RowRequest(w, i) ==
    \/ BeginSubmit(w, i) \/ BeginApprove(w, i) \/ BeginReject(w, i)
    \/ BeginExpire(w, i) \/ BeginExtend(w, i)

Finish(w) ==
    \/ CommitSubmit(w) \/ CommitApprove(w) \/ RollbackApprove(w)
    \/ CommitReject(w) \/ CommitExpire(w) \/ CommitExtend(w)
    \/ CommitPurge(w)  \/ CommitJob(w)    \/ Fail(w)

Next == \/ Tick
        \/ \E i \in Ids : CreateSystem(i) \/ CreateDetected(i)
                           \/ CreateFace(i) \/ View(i)
        \/ \E w \in Workers, i \in Ids : RowRequest(w, i)
        \/ \E w \in Workers : \/ BatchExpire(w) \/ BeginPurge(w)
                             \/ BeginJob(w) \/ NotifyJob(w)
        \/ \E w \in Workers : Finish(w)

Spec == Init /\ [][Next]_vars

---------------------------------------------------------------------------
(* Properties. *)

TypeOK ==
    /\ now \in Nat
    /\ exc \in [Ids -> Row]
    /\ audit \subseteq [id : Ids, to : Statuses]
    /\ notified \subseteq Keys
    /\ sent \subseteq Keys
    /\ shown \subseteq Ids
    /\ req \in [Workers -> Request]
    /\ \A w \in Workers : req[w].op \in RowOps => req[w].id \in Ids
    /\ overtaken \in [Workers -> SUBSET Ids]
    /\ raced \subseteq Ids

\* The case was put to an administrator: the employee explained, or the row
\* was created for the administrator.
Explained(row) == row.submitted \/ row.origin = "PENDING_ADMIN"

\* No interleaving of requests lets a decision, or a case that waits for one,
\* stand although nobody put it to an administrator: approve and reject act
\* on a status loaded earlier, while extensions and expiries commit.
DecidedOnlyAfterExplanation ==
    \A i \in Ids : exc[i].status \in Decided \cup {"PENDING_ADMIN"}
                      => Explained(exc[i])

\* A row with a deadline of its own is EXPIRED only once that deadline has
\* come, whatever extensions, expiries and stale requests commit in between.
ExpiredOnlyAfterExpiresAt ==
    \A i \in Ids : (exc[i].status = "EXPIRED" /\ exc[i].expires # NoTime)
                      => exc[i].expires <= now

\* An extended deadline is never before the original one: what a request that
\* extends, expires or purges a row relies upon.
DeadlinesOrdered ==
    \A i \in Ids :
        (exc[i].expires # NoTime /\ exc[i].extended # NoTime)
          => exc[i].expires <= exc[i].extended

Expiring(w) == CASE req[w].op = "expire" -> {req[w].id}
                 [] req[w].op = "job"    -> req[w].ids
                 [] req[w].op = "purge"  -> req[w].held
                 [] OTHER                -> {}

Justified(w) ==
    LET r == req[w]
    IN  /\ r.op \in RowOps => exc[r.id].status # "NONE"
        /\ \A i \in r.held : Exists(i)
        /\ \A i \in Expiring(w) \cup r.ids :
             /\ exc[i].status # "NONE"
             /\ exc[i].expires # NoTime => exc[i].expires <= now
        /\ (r.op = "extend" /\ exc[r.id].expires # NoTime)
             => exc[r.id].expires <= r.due
        /\ (r.op \in {"approve", "reject"} /\ Exists(r.id))
             => Explained(exc[r.id])

\* The rows a request is about to expire or to delete are past due, the
\* deadline it is about to write is not before the original one, the case it
\* is about to decide has been explained, the rows it holds are not deleted.
\* These facts were checked when the request loaded the row; no request that
\* commits in between ends them.
RequestsJustified == \A w \in Workers : Justified(w)

\* A decision and a submission can always be accounted for: the audit rows of
\* a live row hold an entry that leads to its status.
AuditExplainsStatus ==
    \A i \in Ids :
        (/\ exc[i].status \in Decided \cup {"PENDING_ADMIN"}
         /\ exc[i].status # exc[i].origin)
          => \E a \in audit : a.id = i /\ a.to = exc[i].status

\* A purge takes with it all that refers to the row, and nothing refers to it
\* later on, although requests begun before may still commit.
PurgedLeavesNothing ==
    \A i \in Ids : exc[i].status = "PURGED"
                      => /\ \A a \in audit : a.id # i
                         /\ \A n \in notified : n[1] # i

\* The columns written by the deciding administrator are those of the
\* decision in force, for every row that no request rewrote from a copy that
\* another request had overtaken.
DecisionMatchesStatus ==
    \A i \in Ids \ raced :
        exc[i].status \in Decided => exc[i].decision = exc[i].status

\* However requests interleave, an approved or rejected row stays so
\* (ALLOWED_TRANSITIONS is empty there), except at the commit of a request
\* that loaded the row before another request rewrote it.
DecisionsAreFinal ==
    [][\A i \in Ids \ Stale :
          exc[i].status \in Decided => exc'[i].status = exc[i].status]_exc

Purges(i) == exc[i].status # "PURGED" /\ exc'[i].status = "PURGED"

\* A row is deleted only if it is past its deadline and past the retention,
\* except by a purge that selected it before another request rewrote it.
PurgedOnlyPastGrace ==
    [][\A i \in Ids \ Stale :
          Purges(i)
            => /\ exc[i].status = "EXPIRED" \/ Overdue(exc[i])
               /\ Past(get_effective_deadline(exc[i]))
               /\ get_effective_deadline(exc[i]) + Grace < now]_exc

\* "Delete EXPIRED exceptions": not so when an extension revives a row
\* between the selection and the DELETE, which does not look again.
PurgesExpired ==
    [][\A i \in Ids : Purges(i) => exc[i].status = "EXPIRED"
                                    \/ Overdue(exc[i])]_exc

\* The deadline that counts for row i does not move back with this step.
DeadlineKept(i) ==
    (Exists(i) /\ Exists(i)' /\ get_effective_deadline(exc[i]) # NoTime)
      => /\ get_effective_deadline(exc'[i]) # NoTime
         /\ get_effective_deadline(exc[i]) <= get_effective_deadline(exc'[i])

\* However many extensions a row is given, by whatever hours, and whatever
\* revives or expires it, its deadline only moves forward, except at the
\* commit of a request whose copy of the row another one has overtaken.
DeadlineMovesForward == [][\A i \in Ids \ Stale : DeadlineKept(i)]_exc

\* "The new deadline is: effective_deadline + extend_hours": not so when two
\* extensions load the same deadline, for the later commit may then take
\* back what the earlier one has given.
ExtensionsAddUp == [][\A i \in Ids : DeadlineKept(i)]_exc

\* A deadline an administrator has extended is honoured: a row becomes
\* EXPIRED only when its effective deadline is over.  The expire endpoint and
\* the job do not keep it: they look at expires_at alone.
ExtensionHonoured ==
    [][\A i \in Ids :
          (exc[i].status = "PENDING_EMPLOYEE" /\ exc'[i].status = "EXPIRED")
            => get_effective_deadline(exc[i]) <= now]_exc

\* A mail that tells an employee of an approval speaks of one that has been
\* recorded ("OT integration must not fail the exception approval").  It is
\* not so when the rollback after a failing integration undoes the approval.
ApprovalMailIsTrue ==
    \A i \in Ids :
        (<<i, "approve">> \in sent /\ Exists(i))
          => \E a \in audit : a.id = i /\ a.to = "APPROVED"

\* The employee who has been shown a row as EXPIRED, by an expiry that is
\* rolled back with its session, cannot begin to explain it all the same, as
\* long as nobody extends its deadline.
ShownExpiredIsClosed ==
    [][\A w \in Workers :
          (req[w] = Idle /\ req'[w].op = "submit")
            => req'[w].id \notin shown]_req

\* The status column implements the workflow's transition table, for every
\* row until a request rewrites it from an overtaken copy.
Lifecycle == INSTANCE ExceptionLifecycle
                WITH status <- [i \in Ids |-> exc[i].status]

ImplementsLifecycle == Lifecycle!Spec
===========================================================================
