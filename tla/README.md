# Formal models of the Chamcong attendance backend

The backend (FastAPI, SQLAlchemy, PostgreSQL) records when employees check in
and out, raises *exceptions* about what looks wrong, and lets employees explain
and administrators decide them; approved exceptions and overtime feed the
payroll reports. This directory holds TLA+ models of that program, the TLC
configurations that check them and proofs checked by TLAPS. The models are
written from the source under `src/`; every definition that stands for code is
traced to its lines in `PROJECT.json`.

## How the program runs, and how the models see it

Every endpoint is a synchronous function run in a thread of the server's pool
with a database session of its own (`core/db.py`: `autocommit=False,
autoflush=False`, closed, hence rolled back, after the response). PostgreSQL
runs at READ COMMITTED. A handler loads rows without locking them, decides on
what it loaded, and commits; the ORM then writes *the columns whose value
changed since the load*, `WHERE id = ...`. So between a check and the write it
justifies other requests may commit. Only check-in and check-out take a lock
(`SELECT ... FOR UPDATE` of the employee row), and any commit releases it.
UNIQUE constraints (`AttendanceLog(employee, work_date, type)`, one exception
per check-in log, `dedupe_key` of a notification, one overtime record per
employee and date) are the last defence: the loser of an insert fails.

A model step is therefore what one request does between two points at which it
depends on the database: *load and check*, then *commit*. A request in flight is
a record `req[w]` of its thread `w` with what it remembers from the load. A crash,
a lost connection or a constraint violation is a step that forgets the request
(`Fail`, `Conflict`).

## Inventory

| Component | State | Operations | Hard part | What must hold |
|---|---|---|---|---|
| Exception workflow (`api/reports.py`, `services/attendance_exception_*.py`) | `attendance_exceptions`, audits, notifications | create, explain, approve, reject, expire, extend, batch expiry, purge, lazy expiry, expiry job | checks on stale rows, two notions of deadline, rollback after a failing integration | transition table, decisions final and explained, deadlines honoured, purge only after retention |
| Attendance sessions (`api/attendance.py`, `services/attendance_time.py`) | `attendance_logs`, the exception of a session, the employee row lock | check-in, check-out, status, auto-close at the cutoff, missed check-out, approval with a check-out time | the lock is released by the auto-close commit; status takes none; a log and its exception are two transactions; the rule changes between IN and OUT | one open session, disjoint sessions, no suspect log unflagged, days closed by the system reported, precedence of types, status agrees with check-in |
| Overtime (`services/overtime_service.py`, `api/overtime.py`) | `overtime_records`, audits | auto-create at check-out, approve, reject, edit, bulk approve, creation from an exception | two handlers that loaded the same PENDING record; two creators of one record | payable minutes are those of the decision in force |
| Tokens and passwords (`api/auth.py`, `services/auth/*`, `core/security.py`, `main.py`) | `refresh_tokens`, `password_reset_tokens` | login, refresh, logout, logout-all, forgot, reset, change password, cleanup loop | tokens are read as active and revoked later, one by one; new rows are not flushed before the queries that look for them | one token per login, none after it ended; the link that works is the last one mailed |
| Leave (`api/leave.py`) | `leave_requests` | request, create by administrator, approve, reject, balance | overlap is checked before the insert, nothing constrains it; the push follows the commit | no day is granted twice; the push tells the decision that stands; balances count days |
| Reminders and cleanup (`scheduler.py`, `main.py`) | in-memory set of sent reminders | minute loop, daily cleanup | people check in and out between the queries of a round; the set is lost on restart | a reminder is sent once in a life of the server, and in time |
| Rules, groups and shift resolution (`api/rules.py`, `api/groups.py`, `api/employees.py`) | rules, groups, shifts, per-employee overrides | CRUD, resolution order | one default by a partial index and an UPDATE that clears the others; references to inactive rows, date ranges of overrides | the default is the one asked for |
| Employees and users (`api/employees.py`, `api/users.py`) | `employees`, `users` | create, update, assign, delete, restore | soft delete that unlinks the account, stale writes of single columns | who resigned has no account |
| Location risk, face quality, geofences (`services/location_risk.py`, `services/face_quality.py`, `services/geo.py`, `api/geofences.py`, `api/face.py`) | files, geofences | scoring, distance, upload, flag without camera | floating-point scoring | thresholds are monotone |
| Reports and exports (`api/reports.py`, `api/attendance.py`, `services/report_consistency.py`) | none | dashboards, timesheet, Excel, statistics | many projections of the same rows, each with its own precedence | projections agree; a check-out the system made up does not pass for a complete day |
| Mail, FCM, reCAPTCHA (`services/mail`, `services/fcm_service.py`, `services/auth`) | notification status | send | external services | none |
| Schema migrations, scripts (`alembic`, `scripts`) | the schema | one-off | none at run time | none |

The hazards each of these is exposed to, with the line where it bites and the
property that watches it, are the `hazards` of `PROJECT.json`.

## Modules

### `ExceptionLifecycle` — the promise

One variable, `status[i]`: the moves `ALLOWED_TRANSITIONS` permits, plus the
creation, the revival of an EXPIRED row that *extend-deadline* documents and
the deletion *purge-expired* documents.

### `ExceptionWorkflow` — the mechanism

| Variable | Code |
|---|---|
| `exc[i]` | the committed row *i*: `status`, `expires_at`, `extended_deadline_at`, whether an explanation was submitted, who decided |
| `audit`, `notified` | rows of `attendance_exception_audits`, `dedupe_key`s of notifications |
| `sent` | mails handed to the background task |
| `shown` | rows a GET presented as EXPIRED by an expiry that was rolled back |
| `req[w]` | the handler thread *w* is in, between load and commit |
| `now` | the clock |

`BeginX`/`CommitX` are the two halves of handler *X* (submit, approve, reject,
expire, extend, purge, job). `Written(w)` is the ORM's rule: the status column is
part of the UPDATE only when it differs from what was loaded, which matters
because `ensure_allowed_exception_transition` accepts a repeated status. The dedupe
key of a notification is looked up at the commit (`NewKeys`): where another request
has inserted it, there is no second mail and the handler goes on. The job flushes
each row it notifies about and holds it from then on (`NotifyJob`, `held`), as a purge
holds the rows of the expiry it has flushed; a batch expiry is one UPDATE. Creations
are single transactions. `RollbackApprove` is
`reports.py:1906-1907`. Rows of `resolve` are those of `approve` (it calls it),
`reopen` always refuses.

Two history variables say which overlaps of requests matter: `overtaken[w]` are the rows
that the request of *w* has loaded and another request has rewritten since, `raced`
the rows some request then rewrote from such an old copy. Properties that the code
keeps except there speak of `Ids \ raced`, or, of one step, of `Ids \ Stale`.

### `AttendanceSession`

The days of one employee: `ins[d]`, `outs[d]` are the IN and OUT logs of work
date *d* with the rule snapshot of the IN log, `exc[d]` the exception about that
session and `outExc[d]` the one about its OUT log (UNIQUE by log), `lock` the employee row, `rule` what
`_get_effective_time_rule` would answer now. Requests go through `Start` (lock,
clock, look for a session past its cutoff), `AutoClose` (OUT log and exception
in one transaction, *which releases the lock*), `Check` (the second look),
`ReportMissed`, `InsertIn`/`InsertOut`, and `ReadException`/`WriteException` for
each exception the log calls for. `Replaces` is the precedence of exception
types as the four `_ensure_*_exception` functions implement it. `Approve` is the
approval of an AUTO_CLOSED or MISSED_CHECKOUT exception with the actual
check-out time, an upsert of the OUT log without a lock; `FlagFace` and `CreateSystem` are
*flag-no-camera* and `POST /attendance-exceptions/system`, which raise an exception about
either log, the latter of any type and whatever the session looks like. What location, GPS risk
and client clock say are inputs (`Outcomes`).

A cutoff of 0 minutes is falsy in Python: `SnapshotCutoff` falls back on the
default, while the work date is computed with the 0 (`attendance.py:872`).

History: `overtaken` are the threads whose request another one has overtaken by writing a
log, `raced` that such a request wrote a log itself; `settled` the dates whose
exception was closed while it was about something else than an automatic closing,
`overwritten` those whose exception got its type from a request with an outdated copy.

### `Overtime`

The overtime of one employee: `log[d]` is what the OUT log of date *d* amounts to
in overtime minutes (the split of a session into regular and overtime minutes is
a number here), `rec[d]` the row of `overtime_records`, `audit[d]` the decisions of
its audit trail, `enabled` the company-wide switch, `told` the dates whose
approval mail has been recorded, `asked` those an exception was approved for with
overtime due. `CheckOut`/`AutoCreate` are the two transactions of a check-out;
`BeginApprove`, `BeginReject`, `BeginEdit` and `BeginBulk` load records and decide,
`CommitDecision` stores: `Written` takes from the decision only the columns that
differ from what was loaded, and `Store` adds the audit entry. `BeginException`/
`CommitException` are the approval of an exception with a check-out time and
overtime minutes; `OutLogFound` is whether its query sees the log that it has
added but not flushed.

### `Roster`

The tables that say who is on which shift: `db` holds employees, groups, shifts,
overrides and the rows that refer to an employee. A handler is one record of
`Accepted`, a row to insert or delete or the columns its `setattr`s have changed;
`Load` passes the checks, `ClearOtherDefaults` is the `UPDATE ... SET is_default =
false` that runs before the flush of the row itself (`groups.py:302`, `:389`), `Commit` writes and
is refused where `Consistent` (foreign keys, `UNIQUE(user_id)`, the partial index on
defaults) would be broken. `Serve` is a request nobody interrupts. `Slow` names the
tables whose requests may be interrupted. `EffectiveShift` is the resolution in the
order of `_get_effective_time_rule`. `due[g]` is a history variable: the default that was last
asked for; `raced` records that a request committed over a row another one had
changed since its load.

### `Leave`

`leave[i]` are the rows, `req[w]` the write that thread *w* has checked, `told[i]`
the pushes about a row. `CreateLeaveRequest`, `AdminCreate`, `Approve` and `Reject` are
the handlers up to their checks; `Apply` inserts or updates and sends the push. Every
commit makes the requests in flight stale (`Overtaken`), and a row written by a stale
request enters `raced`, so that a property can say "unless overtaken" and mean
exactly the rows concerned. `LeaveBalance` is the balance of a year as
`compute_leave_balance` adds it up, leave by leave, clipped at both ends.

### `Timesheet`

Extends `Leave` by check-ins, check-outs, automatic closing, missed check-outs,
exceptions raised about either log, approvals, overtime records and holidays, with
requests served whole, and states what is computed from these tables: `CellCode` and
`SheetDay` (timesheet of the administrators), `AbsentDays` and `StatsWorked` (statistics of
the employee), `DailyReport`, `DashboardRows`, `ExportRows`, and `shift_window`, `Regular`,
`OvertimeOf` (the split of a session). Times are steps from 00:00 of the work date, so a
check-out after midnight is larger than a day.

A day has up to two exceptions, `exc` about its IN log and `outExc` about its OUT log;
`second` says of an exception that the other one has the smaller id. The code reduces
them to one in two ways: `ReportException` is the map of `reports.py:290`, by id with
MISSED_CHECKOUT before others, which the dashboard, the export and the timesheet use;
`DailyExceptions` what the map of `attendance.py:1015` may come to, since its query
has no order and the first pending row stays, which the daily report uses.

### `CheckoutReminders`

The thread of `scheduler.py`: `round` is where it is (asleep until `at`, has run the
query for check-outs, has run the one for check-ins, is pushing), `sent` the set in
memory, `session` what the employees do in the meantime. `QueryOut` and `QueryIn` are
two steps because they are two statements at READ COMMITTED; `Push` marks before it
sends, whatever the result (`scheduler.py:112`). `QueryFails` is the `except` around a round, `Stop`
and `Start` a restart, which forgets `sent` and, since `got` counts one life of
the server, `got`. `disturbed` is the history of windows in which a fault fell.

### `Tokens`

`refresh` are the rows of refresh tokens, `links` those of the reset links, `req[w]`
what a request in flight has read. A refresh, a logout and a logout-all revoke the
rows they read; a reset revokes by an UPDATE over the table as it then is. `login`
names a session by its first token, `ended` the sessions that were logged out,
`last[u]` the link mailed last. `raced` are the users for whom a stale request has
written; a reset takes its user out again, because its UPDATE sees every committed row.
A row counts as expired at its last instant while the JWT still decodes then
(`is_expired`, `Decodes`).

## Runs

A run is one question. All runs but `overtime_unrecorded` pass; the slowest take about
two minutes with two TLC workers. "Up to overtaken requests" stands for the
exception that the property makes: a request that acts on something another one has
rewritten since it looked.

| Run | Instance | Shows |
|---|---|---|
| `exception_concurrent` | one row, two threads, extensions by one or two hours, both kinds of deadline; 880,798 states | what stale requests cannot break: cases decided or waiting have been put to an administrator, a row is expired only after its deadline, what was shown as EXPIRED cannot be explained any more, the audit trail explains the status, nothing is left of a purged row; up to overtaken requests: decision columns agree with the status, decisions are final, purges keep to the retention, deadlines move forward, the transition table is implemented |
| `session_overlap` | three days of two ticks, two threads that may fail anywhere, a rule that changes between a cutoff of 0 and one of a tick; 906,048 states | a second open session needs the commit of an automatic closing; up to overtaken requests: one open session, sessions disjoint, check-outs before the cutoff, `/status` agrees with `/checkin` |
| `session_concurrent` | two days, two threads, decisions, approvals and raised exceptions; 1,862,230 states | a session ends after it began; the exception of a day closed by the system says so, unless it was closed for another reason before |
| `session_flags` | two days, two threads, fair; 389,751 states | a suspect log eventually has an exception; precedence of types up to outdated copies |
| `overtime` | two dates, two threads | what is paid was approved; decisions are recorded; overtime rests on a check-out |
| `overtime_unrecorded` *(violation)* | one date, one thread | overtime asked for with an approval is silently not recorded |
| `roster` | one employee, two groups, two shifts, one interrupted request among whole ones; 384,279 states | who resigned has no account and the default is the one asked for, up to overtaken requests |
| `leave` | one employee, three days, two rows, one interrupted request | no day granted twice and no false push, up to overtaken requests; the balance counts days, also across the turn of a year |
| `timesheet` | a day and a night shift, two days of which one a Sunday, a holiday that comes and goes, one leave; 648,400 states | statistics, daily report, export, dashboard and timesheet agree on time worked, statistics and timesheet on absences |
| `timesheet_days` | the same shifts, one day with exceptions of three types about either log in either order; 537,783 states | minutes are split as defined minute by minute; the reports agree on time worked, and an invented check-out is not a complete day before an exception of the day is decided |
| `reminders` | a day shift and one that ends at midnight, two restarts, failing queries and pushes, fair | nobody is reminded twice in one life of the server; whoever stays through the window of a day shift is reminded in time |
| `tokens` | one user, three tokens, two links, one interrupted request, a clock that passes every deadline | a login has at most one usable token, none after it ended; the last link mailed is the one that works, up to overtaken requests |

Bounds. Two threads are enough for one stale read against one commit, which is
the shape of every race here: handlers load once and commit once, and the
proofs lift the invariants to any number. Where a model also has `Serve`, a
request served whole, one interrupted thread is enough, because the requests that
overtake it need not be interrupted themselves. One exception row suffices
because handlers of different rows share nothing but the batch expiry and the
purge; that these keep to their rows is proved, for any number of them. Two lengths of
extension are what it takes for one to take back what another gave. Hours run to
`MaxTime` and deadlines to `MaxDeadline`, so that a deadline, its extension and
the end of the retention all fall inside the horizon. In `AttendanceSession` a day has
`DayLength` = 3 ticks: before the cutoff, before the end of the shift, after it;
`Patience` bounds how long a request in flight outlives the tick in which it read the
clock, one tick, so that a cutoff may fall in between. `session_overlap` has three
days, since the lock-release race needs a session past its cutoff and two later
work dates, and hence days of two ticks, before and after the cutoff; its rule is
edited on the second and on the third day (`EditTimes`), with sessions of the days
before open. `Reviewed` bounds the sessions whose exceptions are raised, decided or
approved from outside: one in `session_concurrent`, none in the runs about logs alone;
`SystemTypes` are the types the system caller reports there. Overtime amounts and
minutes are one value each, different from each other and from the rounded amount, so that every source of minutes is told apart.

`roster` has one employee: what employees share (an account, an override's shift) is
guarded by constraints that `Consistent` states for all of them, and the properties
speak of one employee at a time. Two groups and two shifts are what it takes for a
shift of another group and for two defaults of one. `leave`: two rows are an
overlap, three days hold a leave that crosses either end of a year (any period of
days serves as a year). `timesheet`: `DayLength` = 6 makes a step four hours; the
cutoff lies after midnight, the check-outs on either side of the end of the shift, the
check-ins at its beginning or before it, in `timesheet_days` also after the day shift.
There one day (`Reviewed`) is enough, because the exceptions of a day bear on that day
only. `Workers` is empty because interleavings are the subject of the other modules. `reminders`: a window of 3, a poll of 1 and a
slack of 1 are the proportions of 20 minutes, 5 minutes and a slow round
(`WindowAssumption`); seven ticks reach the next day, so that the window of the
late shift passes midnight. `tokens`: three tokens are two logins, or one
refreshed twice; two links are what two requests for a link make; the clock passes
the life of a token, of a link and the retention.

Symmetry is used on threads and, in `overtime`, on dates, in `roster` on groups and
shifts, in runs without liveness.

Deadlock is checked except in `leave`, the runs of `Timesheet`, `reminders` and `tokens`, where
the bounded calendar or clock and the bounded tables really end.

Fairness. `session_flags` assumes `WF_vars(Proceed(w))`, a thread that
began a request runs on until it answers. This is what a thread of the server's
pool does as long as the process lives; nothing forces an employee or an
administrator to send a request. With `MayFail` the property is false by design:
the log and its exception are two transactions. `reminders` assumes `WF_vars(Round)`,
the thread goes on while the server is up, and `WF_vars(Tick)`, time passes; a
started round takes at most `Slack` and a sleep ends when it should (`OnTime`).
Neither employees nor a restart are fair: a server that stays down reminds
nobody, and the property says so through `disturbed`.

## Where the code and its documents differ

`overtime_unrecorded` is kept as a run, quoted in `findings` of `PROJECT.json`.
The following properties are stated in the modules, are what a comment, a docstring
or a test says, and do *not* hold of the code. They belong to no run; to see the
behaviour, name the property in the configuration mentioned.

| Property | How to see it | Said | Done |
|---|---|---|---|
| `ExtensionHonoured` (`ExceptionWorkflow`) | `ExceptionConcurrent.cfg` as PROPERTY | an extension moves the deadline (`attendance_exception_workflow.py:161`) | the expire endpoint compares with `expires_at` only (`reports.py:1978`), and so does the job |
| `PurgesExpired` | `ExceptionConcurrent.cfg` as PROPERTY | "Delete EXPIRED exceptions" (`reports.py:2113`) | the rows are selected as EXPIRED, the DELETE (`reports.py:2152`) goes by their ids and takes one that an extension has revived since |
| `ExtensionsAddUp` | `ExceptionConcurrent.cfg` as PROPERTY | the hours are added to the deadline in force (`reports.py:2059`) | they are added to the deadline loaded (`reports.py:2082`): of two extensions the later commit takes back what the earlier gave |
| `ApprovalMailIsTrue` | `ExceptionConcurrent.cfg` | the mail tells of the approval | it is handed over before the integration that may roll the approval back (`reports.py:1907`) |
| `MissedIsMissing` (`AttendanceSession`) | `SessionConcurrent.cfg` as PROPERTY | the note says that no check-out was recorded (`attendance.py:519`) | `/status` takes no lock (`attendance.py:1115`) and reports a check-out missing that has just been committed |
| `MissedAfterShiftEnd` (`AttendanceSession`) | `SessionConcurrent.cfg` as PROPERTY, with `Rules <- NightRule` | a night shift ends on the next day (`scheduler.py:98`) | `attendance.py:824` takes the end on the work date, so the missed check-out is due before the shift begins |
| `ClaimTakesEffect` (`Roster`) | `Roster.cfg` as PROPERTY | a request for a default makes its shift the default (`groups.py:305`) | an update that loaded the shift as default changes nothing (`groups.py:389`) and leaves the default to who took it in between, or to none |
| `ForgottenIsHalf` (`Timesheet`) | `Timesheet.cfg` | "1/2T" is for who forgot to check out (`reports.py:2337`) | the code of the cell looks for MISSED_CHECKOUT (`reports.py:2257`), which the automatic closing has turned into AUTO_CLOSED |
| `OnlyPendingTakesPriority` | `TimesheetDays.cfg` | "Both pending" (`reports.py:326`) is where MISSED_CHECKOUT goes first | the status of the newer row is not tested (`reports.py:325`): a decided one displaces a pending exception |
| `DailyShowsPending` | `TimesheetDays.cfg` | a day with a pending exception shows it (`tests/test_minimum_flows.py:1211`) | the query has no order (`attendance.py:1035`), so that another pending row may come first and the day closed by the system shows as COMPLETE |

Further disagreements that were met while modelling:

*Exceptions.*
* The second of two handlers that loaded the same row overwrites the decision of the first
  (`reports.py:1838`): without `\ Stale`, `DecisionsAreFinal` is violated in
  `ExceptionConcurrent.cfg`, and with it the transition table.
* Without `\ raced` so is `DecisionMatchesStatus`: an approval that found the row APPROVED
  already leaves the status out of its UPDATE, so that a rejection committed in between
  keeps the status and loses the other columns.
* `auto_expire_overdue` says "Mutates status in DB"
  (`attendance_exception_workflow.py:169`); the views that call it never commit,
  so that the expiry is shown and rolled back. `shown` records it.

*Sessions.*
* The commit of an automatic closing releases the lock in the middle of a check-in
  (`attendance.py:910`), so that two requests may each have found no open session: without
  `~raced`, `AtMostOneOpenSession`, `SessionsDisjoint`, `RealOutBeforeCutoff` and
  `StatusTellsTheTruth` are violated in `SessionOverlap.cfg`, the last because `/status` closes
  the latest session while `/checkin` finds an earlier one still open.
* Without `\ Overwrites`, `PrecedenceKept` is violated by two threads: exceptions are upserted
  from a copy read earlier.
* The automatic closing leaves a decided exception alone (`attendance.py:494`): a day whose
  MISSED_CHECKOUT was rejected before the cutoff is closed by the system and nobody is
  told. `AutoClosedIsReported` excepts these days (`settled`).
* The system caller may report a check-out missing that is there (`reports.py:1671`): it
  gives the type, and no log is looked at. `MissedIsMissing` is about what requests of
  the employee report.
* A pending MISSED_CHECKOUT stays when the employee then checks out.

*Overtime.* A stale rejection that commits between the load and the commit of an
edit leaves a REJECTED record with minutes; it pays nothing. Time before the shift
counts as overtime.

*Leave.* An approval looks neither at the quota nor at overlaps: a stale approval of a
request rejected in between, whose days were asked for again, grants them twice.
`days_used` counts overlapping leaves twice, which is why `BalanceCountsDays` asks
for `raced = {}`.

*Reports.*
* `absent_days` subtracts every check-in, also those of weekends, holidays and days of
  leave (`attendance.py:1798`); `AbsenceAgrees` says what is left.
* The timesheet marks weekdays to come with K.
* A session closed by the system counts all its regular minutes.
* An exception decided before the cutoff stays decided when the session is then closed by
  the system, and the day shows as COMPLETE; so it does when a decided MISSED_CHECKOUT
  about the OUT log displaces the pending AUTO_CLOSED (`OnlyPendingTakesPriority`). Hence
  `InventedIsPending` asks that *some* exception of the day was decided.
* The filter `status=ABSENT` of the dashboard matches nothing: only days with logs
  have rows.

*Roster.* `raced` covers what overlapping requests leave: a resignation loaded
before an assignment leaves an account on a resigned employee; two requests for a
default may leave a group with none. A violated foreign key is not caught
and answers 500.

*Reminders.* The query asks for `work_date` = today, so a shift that ends after
midnight is not reminded then, although `scheduler.py:98` computes its end; check-outs are
fetched before check-ins, and a push may follow a check-out; a restart repeats
reminders. `stop` waits three seconds for the thread; the set itself lives until the
process ends.

*Tokens.* `replaced_by_jti` is never set, since the query for the new row runs before
it is flushed (`auth.py:233`); a login or refresh in flight survives a reset or a
logout-all; two overlapping requests for a link leave two that work; a change of the
password revokes no token.

## Proofs

Eight modules hold theorems checked by TLAPS, one per component (`XProofs` extends
`X`; `TimesheetProofs` also extends `LeaveProofs`). Every safety property, action
property and refinement that a passing run checks is stated by a theorem, for
every number of rows, threads, employees, dates, shifts and amounts. The theorems
rest on the named assumptions that the modules make of their constants, and on nothing
about how requests are scheduled: any number of threads may be between their load and
their commit. Where two requests that loaded the same rows do break a promise, the
property itself excepts what an overtaken request wrote, by a history variable that
the actions maintain (`raced`, `Stale`, `Overwrites`), and the theorem says that nothing
else breaks it. One theorem has a hypothesis, `ReportsComeAfterTheShift`: `DayShifts`, that no
shift of a rule ends after midnight, without which it is false.

Of the assumptions on constants one is a claim about the deployment:
`WindowAssumption`, that 5 minutes and twice what the pushes of a round take fit into
the window of 20. The pushes before the window delay the round in it, and that round
is to end before the shift does; with a window of 2, a poll of 1 and a slack of 1 TLC
finds `DayShiftReminded` violated, by a server that stops after the end of the shift and
before the late push. The assumptions that say a NULL is no row (`NullAssumption`,
`NoneAssumption`, `NoRowAssumption`, part of `RosterAssumption`) are about how the models
write NULL and not about the program.

### Exception workflow

None of the invariants is inductive alone: whether
`CommitReject` keeps `DecidedOnlyAfterExplanation` depends on what the handler saw
when it loaded the row. `RequestsJustified` says what the code can rely on
instead of a lock: the facts checked at the load are of a kind that no other
request ends (`expires_at` is never changed once set, an explanation never
withdrawn, the clock only advances). `IInv` is `TypeOK`, the three row invariants
and `RequestsJustified`; `RowKept` is the lemma that every step preserves such
facts, `StaysJustified` carries it to the other threads, `BeginJustified` and the
commit lemmas treat the thread that moves. `TypeCorrect`, `Explanations`,
`ExpiryNotEarly` and `StaleRequestsJustified` follow.

`RecordsInv` adds what is kept about a row elsewhere: the notifications a request has
prepared are about its own rows (`KeysOwn`), without which a purge could be followed
by a notification of the row it deleted. `StatusAccountedFor` and `PurgeIsComplete`
follow. `ShownInv` is that a row shown as EXPIRED by an expiry that was rolled back is
overdue by the effective deadline, or gone: time alone never undoes that, only an
extension takes the row out of `shown`, hence `ShownExpiredIsRefused`.
`StaleRequestsOnly` says for any number of threads how far the missing lock reaches: a
decided row changes only by the commit of a request that loaded it undecided
(`RequestsLoaded`: what a request in flight has seen permits its transition).

What holds up to overtaken requests rests on `FreshInv`: for every row that a request
has loaded and nobody has rewritten since (`i \notin overtaken[w]`), what it has loaded
is what is there, and its checks hold of it now (`Fresh`, `CopiesFresh`): the status permits
the transition, the deadline to be written is not before the one in force, the row to
be purged is past its retention. `StepOverlap` ties the history variables to the step. A
commit on such a row is then a step as if the request were alone, and a commit on any
other puts the row into `raced`. `DecisionColumns`, `DecisionsStay`,
`PurgesArePastGrace` and `DeadlinesMoveForward` follow, and `LifecycleImplemented`: under
`status[i] <- exc[i].status` every step of the handlers is a step of `ExceptionLifecycle`,
whose `Overwritten` move is taken only for rows rewritten from an overtaken copy, or
leaves its status alone.

### Attendance sessions

For any number of threads. `Locked` is what the row lock is worth: a check-out holds
it from its clock reading to its write, and whoever holds it looks only at check-ins
that are not later than its own clock, because those to come were begun before it
took the lock. `RequestsSound` says what each step of a request relies on,
`SessionsSound` that a check-in precedes its cutoff and that exceptions are about
sessions. With these, `OutAfterIn` is inductive (`SessionsEndAfterTheyBegin`). `ReportInv`
adds what a request that is about to close a session knows of its exception (`Informed`):
if it is decided, whether about a closing, and if it says AUTO_CLOSED, that it still does
or was taken over by an outdated copy; `AutoClosedDaysAreReported` follows. `SecondInv` is that as long
as nothing was closed by the system or an administrator, sessions are opened one
by one under the lock (`SecondSessionNeedsAClosing`): the lock fails exactly where
the commit of an automatic closing releases it. `DueInv` gives
`ReportsComeAfterTheShift`.
`SuspectIsPursued` is the safety part of `SuspectIsFlagged`: without failures, a suspect
log has its exception or a request that is on its way to write one, whatever other
threads and administrators do to the row.

`OrderlyInv` is that until an overtaken request writes a log (`~raced`), every request nobody
has overtaken is right about the logs (`Current`: no log is later than its clock, a check-in
about to be written finds no open session, a check-out is in time for the cutoff), one
session at most is open, sessions are disjoint and check-outs in time. A log written by a
request that is not overtaken keeps these, and makes all other requests in flight
overtaken. `OneSessionAtATime`, `NoMinuteTwice`, `CheckOutsBeatTheCutoff` and
`StatusIsTrue` follow for any number of threads, with or without failures. `Ranks` and
`ReplacedByHigher` are the lemmas on the precedence: of the types that `Replaces` lets a
check take over, none ranks higher than its own; `HigherTypesStay` follows for every
request whose copy is not outdated.

### Overtime

What is paid is the result of two columns, `status` and
`approved_minutes`, that different requests may have written. `RecordInv` says that
whatever minutes a record holds are 0, NULL or those of an approving audit entry,
also while the record is not approved; `Sound` says that a request in flight writes minutes
together with the entry for them, and that a decision it saw is still a decision.
`StoreRecord` is the heart: column by column, the stored record is either the
decision or what was there. `TypeCorrect`, `PaidAudited`, `DecisionsRecorded` and
`CheckoutFirst` follow.

### Roster

`IInv` is that the constraints hold (`Consistent`), that a default is the one asked for
and a resigned employee unlinked outside `raced`, and of each request in flight
(`InFlight`) that it is `Writable`, a row of its table or columns of one, and, while no other
request has committed, `Current`, what its handler has checked of the rows.
`NewRowType`, `ClearedTables`, `DetachedTables` and `ResultTables` say what the
statements of a commit make of the tables, the flush and the cascades of a delete
included; `DefaultsWritten` and `ResignedWritten` take the two properties through them.
`ResignedHaveNoAccount` and `DefaultIsTheLastAsked` hold outside `raced`.

### Leave

`NoDayTwice` and `ToldWhatStands` speak of the rows outside `raced`. The
invariant adds what a request in flight may rely on: while it is `fresh`, nothing was
committed since its checks, so the days it wants are still free and the row it
decides is still as it saw it (`Sound`); and every commit ends the freshness of all others,
so the fact need only be kept over steps that write nothing. `NoLeaveTwice` and
`ToldTruly` follow for any number of employees, requests, days and threads: the
uncoordinated checks suffice exactly as long as requests do not overlap.

`BalanceIsOfDays` equates a sum over leaves, each clipped at both ends of the
year, with the number of days of leave in it. The sum is a fold that takes its elements
by CHOOSE. Its laws (`SumAdds`: the sum of two columns; `SumCounts`: the sizes of disjoint sets
add up to the size of the union) are proved by a minimal counterexample among the subsets of
a finite set (`MinimalSubset`), since strict inclusion is well-founded on these. `Ordered`, that no
leave ends before it begins, is the invariant the clipping needs.

### Timesheet

`WindowIsShift` equates the window that `shift_window` computes, which ends on the next day
when the shift passes midnight, with the minutes that `InShift` puts into the shift;
`MinutesAdd` follows by the cardinality of intervals. `SheetInv` is `DaySound` for each day of
each employee: overtime is recorded only for ended sessions, and the IN log of a day closed
by the system has an exception, older than one about the OUT log, which is AUTO_CLOSED
unless it was decided (`AutoSound`). `InventedStaysPending` follows by cases of `Newer`: only
a decided exception, or a MISSED_CHECKOUT about the OUT log, takes the place of the older one,
and the latter hides the day only if it is decided itself. `WorkedIsTheSame` compares sums of products,
differences and single columns by `SumAdds`, and `AbsenceIsMarked` compares a count by
subtraction with a count of marked days by the sizes of a set and its parts.

### Reminders

A key that is due is not yet in `sent` (`QueryIn` takes it from the rest),
and who is not in `sent` has got nothing. Because `Push` marks before it sends, both
are kept whether or not the push succeeds; `RemindedOnce` follows for any window,
poll interval and number of employees.

`HandledInTime` is the safety part of `DayShiftReminded`: the clock does not go past the end
of the shift before the reminder is sent or there is an excuse. `TimeInv` says where
the thread may be and that a window in which the server is down is disturbed. `Promise`
begins to hold when somebody is checked in before the window and is kept by every step,
of the thread, the employees, a stop and the clock: the round that matters begins at
most `Poll + Slack` after the beginning of the window and asks for the work date of
the employee (`DateBetween`), so that `QueryIn` finds the row.

### Tokens

`OneTokenPerSession` relates two rows and the ended sessions; it is kept because
a request that is still `fresh` finds the rows it revokes active (`Sound`), so that the
token it adds has no rival and the session it continues is not over. A stale refresh
or logout puts its user into `raced`; a reset may take the user out because it needs
nothing of what it has read. `Kept` is what a write leaves of the tokens of other
users, which is why requests of different users never disturb each other.
`OneTokenALogin` follows for any number of users, tokens and threads.

For the links, `LinksInv` says that the unused links of a user are the last one
mailed and expired ones, and `LinkSound` that a fresh request for a link has read all
unused ones, so that it marks them; `OnlyTheLastLinkWorks` follows.

### Model-checked only

`SuspectIsFlagged` and `DayShiftReminded`: liveness under fairness is beyond the prover.
What keeps either from failing by a wrong step is `SuspectIsPursued` and
`HandledInTime`; that the thread gets there is left to TLC.
`overtime_unrecorded` is a counterexample and nothing to prove.

## Not modelled, and the plan

Not modelled because it changes no shared state or is outside the program: mail,
FCM and captcha services, Excel layout, floating-point scores of location and
face quality (their outcome is an input), migrations and one-off scripts. The
purge of exceptions is left out of `AttendanceSession` and `Timesheet`; the work date that the
system caller may give an exception is taken to be that of the log. Reminder mails of the
expiry job and the delivery status of notifications are abstracted, and so are the
label of a check-out (EARLY, ON_TIME, LATE), seconds (the models count whole steps), the
values of the active rule and of the exception policy, geofences of a group, the counters
and trends of the dashboard. That an employee is on one active shift of the own group
is the text of the query that looks the shift up (`attendance.py:180`) and of the partial
index, and stated nowhere as a property. Logs without a
snapshot of their rule, which older versions wrote, are taken to be absent.

What the models do not bring together: `Timesheet` takes requests whole, and the
interleavings of `AttendanceSession` and `Leave` are not carried into it.

Left to prove: of what a run checks, only the two liveness properties. Next in
line are statements that no run checks yet:

1. that a request of `AttendanceSession` that nobody overtakes is what `Timesheet` takes a
   request to be, a step served whole, so that the equalities of the reports carry over;
2. how many sessions can be open at once when automatic closings race, for any number
   of threads;
3. the hazards without a property, listed with their reasons in `PROJECT.json`.
