------------------------ MODULE ExceptionLifecycle ------------------------
(***************************************************************************)
(* What the exception workflow promises about one column, the status of an *)
(* attendance exception: the life of a row as ALLOWED_TRANSITIONS          *)
(* (services/attendance_exception_workflow.py) and the docstrings of the   *)
(* extend-deadline and purge-expired endpoints describe it.  Requests,     *)
(* deadlines, audit rows and e-mails belong to ExceptionWorkflow, which    *)
(* implements this module: a row follows the table until a request writes  *)
(* it from a copy that another request has overtaken.                      *)
(***************************************************************************)
CONSTANT Ids            \* identifiers of attendance_exceptions rows

VARIABLES status,       \* status[i] : what a reader of row i sees
          raced         \* rows written from an overtaken copy

Pending  == {"PENDING_EMPLOYEE", "PENDING_ADMIN"}
Decided  == {"APPROVED", "REJECTED"}
Statuses == Pending \cup Decided \cup {"EXPIRED", "NONE", "PURGED"}

(***************************************************************************)
(* The moves of one row.  A request may move several rows (a batch).       *)
(***************************************************************************)
Created  == {"NONE"} \X Pending
Worked   == {<<"PENDING_EMPLOYEE", "PENDING_ADMIN">>,
             <<"PENDING_EMPLOYEE", "EXPIRED">>,
             <<"PENDING_ADMIN", "APPROVED">>,
             <<"PENDING_ADMIN", "REJECTED">>}
Extended == {<<"EXPIRED", "PENDING_EMPLOYEE">>}
Purged   == {"EXPIRED", "PENDING_EMPLOYEE"} \X {"PURGED"}
Moves    == Created \cup Worked \cup Extended \cup Purged

\* What a request with an old copy can do: no row comes back from PURGED.
Overwritten == (Pending \cup Decided \cup {"EXPIRED"})
                 \X (Statuses \ {"NONE"})

Init == /\ status = [i \in Ids |-> "NONE"]
        /\ raced = {}

Next == /\ status' \in [Ids -> Statuses]
        /\ raced \subseteq raced' /\ raced' \subseteq Ids
        /\ \A i \in Ids :
             \/ status'[i] = status[i]
             \/ <<status[i], status'[i]>> \in Moves
             \/ i \in raced' /\ <<status[i], status'[i]>> \in Overwritten

Spec == Init /\ [][Next]_<<status, raced>>
===========================================================================
