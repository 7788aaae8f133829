------------------------------- MODULE Roster -------------------------------
(***************************************************************************)
(* Employees, groups, shifts and shift overrides (api/employees.py,        *)
(* api/groups.py) and the shift an employee is on (api/attendance.py).     *)
(* A handler loads and checks rows, later its statements run and commit:   *)
(* the ORM writes the columns whose value it changed, the constraints of   *)
(* the tables are checked, and a violation rolls everything back.          *)
(***************************************************************************)
EXTENDS Naturals, FiniteSets

CONSTANTS Employees,  \* ids of employees
          Users,      \* accounts
          Groups,     \* ids of groups
          Shifts,     \* ids of shifts
          Workers,    \* threads serving requests that others interrupt
          Papers,     \* rows that refer to an employee: "log", "leave"
          Flags,      \* Flags[t] : values the column active of table t is given
          Slow,       \* tables whose requests others may interrupt
          None        \* SQL NULL, and no row

VARIABLES db,     \* the committed tables
          req,    \* req[w] : the request thread w is serving
          due,    \* due[g] : the default shift last asked for in group g
          raced   \* a request has committed over rows changed since its load

vars == <<db, req, due, raced>>

---------------------------------------------------------------------------
(* Tables. *)

Employee == [gone : BOOLEAN, active : BOOLEAN,
             user : Users \cup {None}, group : Groups \cup {None}]
Group    == [active : BOOLEAN]
Shift    == [group : Groups, is_default : BOOLEAN, active : BOOLEAN]

\* Whether effective_date is to come, has come, or end_date has passed.
Phases   == {"later", "now", "over"}
Override == [shift : Shifts, phase : Phases]

\* NULL is no id, and no row.
ASSUME RosterAssumption ==
    /\ None \notin Users \cup Groups \cup Shifts
    /\ None \notin Employee \cup Group \cup Shift \cup Override
    /\ IsFiniteSet(Shifts)
    /\ Flags \in [{"emp", "grp", "shift"} -> SUBSET BOOLEAN]

Rows(ids, row) == [ids -> row \cup {None}]

\* papers[e] : attendance logs and leave requests refer to e.
Database == [emp    : Rows(Employees, Employee), grp  : Rows(Groups, Group),
             shift  : Rows(Shifts, Shift),       over : Rows(Employees, Override),
             papers : [Employees -> SUBSET Papers]]

\* Defaults(d, g) : the default shifts of group g in the tables d.
Defaults(d, g) ==
    {s \in Shifts : d.shift[s] # None /\ d.shift[s].group = g /\ d.shift[s].is_default = TRUE}

Present(table) == {k \in DOMAIN table : table[k] # None}

\* Mutant: without the partial index on shifts.
AnyDefaults(d) == TRUE

OneDefaultIndex(d) == \A g \in Groups : Cardinality(Defaults(d, g)) <= 1

\* Foreign keys, UNIQUE(user_id) and the partial index.
Consistent(d) ==
    /\ \A e \in Employees :
         /\ d.emp[e] = None => d.papers[e] = {}
         /\ d.over[e] # None => d.emp[e] # None /\ d.shift[d.over[e].shift] # None
    /\ \A e \in Present(d.emp) :
         /\ d.emp[e].group # None => d.grp[d.emp[e].group] # None
         /\ d.emp[e].user # None =>
              \A f \in Present(d.emp) \ {e} : d.emp[f].user # d.emp[e].user
    /\ \A s \in Present(d.shift) : d.grp[d.shift[s].group] # None
    /\ OneDefaultIndex(d)

---------------------------------------------------------------------------
(* Requests: the row to insert or delete, or the columns to update of it,  *)
(* those the handler has changed.  claims: the group whose default the     *)
(* payload makes the row; cleared: the defaults its UPDATE has unset, None *)
(* while it is still to run; fresh: no other request has committed since.  *)

Request(op, table, key, row) ==
    [op |-> op, table |-> table, key |-> key, row |-> row,
     claims |-> None, cleared |-> None, fresh |-> TRUE]

Idle == Request("none", None, None, None)

\* The columns that the handler leaves as loaded are not in the UPDATE.
Edit(table, key, new) ==
    Request("update", table, key,
            [c \in {x \in DOMAIN new : new[x] # db[table][key][x]} |-> new[c]])

Known == {g \in Groups : db.grp[g] # None} \cup {None}

\* Accounts no employee still here has, other than e.
Assignable(e) ==
    {u \in Users : \A f \in Present(db.emp) \ {e} :
                     ~db.emp[f].gone => db.emp[f].user # u} \cup {None}

Here(e) == db.emp[e] # None /\ ~db.emp[e].gone
Gone(e) == db.emp[e] # None /\ db.emp[e].gone

CreateEmployee(e) ==
    {Request("insert", "emp", e,
             [gone |-> FALSE, active |-> TRUE, user |-> u, group |-> g]) :
       u \in Assignable(e), g \in Known}

UpdateEmployee(e) ==
    {Edit("emp", e, [db.emp[e] EXCEPT !.user = u, !.group = g, !.active = a]) :
       u \in Assignable(e) \cup {db.emp[e].user}, g \in Known, a \in Flags.emp}

AssignUser(e) == {Edit("emp", e, [db.emp[e] EXCEPT !.user = u]) : u \in Assignable(e)}

AssignGroup(e) == {Edit("emp", e, [db.emp[e] EXCEPT !.group = g]) : g \in Known}

\* Mutant: the account stays linked.
ResignLinked(e) == {Edit("emp", e, [db.emp[e] EXCEPT !.gone = TRUE, !.active = FALSE])}

Resign(e) == {Edit("emp", e, [db.emp[e] EXCEPT !.gone = TRUE, !.active = FALSE,
                                        !.user = None])}

Restore(e) == {Edit("emp", e, [db.emp[e] EXCEPT !.gone = FALSE, !.active = TRUE])}

DeleteEmployee(e) == IF "log" \in db.papers[e] THEN {} ELSE {Request("delete", "emp", e, None)}

PutOverride(e) ==
    {IF db.over[e] = None
     THEN Request("insert", "over", e, [shift |-> s, phase |-> p])
     ELSE Edit("over", e, [shift |-> s, phase |-> p]) :
       s \in {x \in Present(db.shift) : /\ db.shift[x].group = db.emp[e].group
                                        /\ db.shift[x].active},
       p \in Phases}

DeleteOverride(e) ==
    IF db.over[e] = None THEN {} ELSE {Request("delete", "over", e, None)}

\* Check-in asks for the active employee of the account; an administrator enters
\* leave for anybody.
AddPaper(e) ==
    {Request("insert", "papers", e, [kind |-> p]) :
       p \in {q \in Papers : q = "log" => db.emp[e].user # None /\ db.emp[e].active}}

EmployeeRequests(e) ==
    IF Here(e) THEN UNION {UpdateEmployee(e), AssignUser(e), AssignGroup(e),
                           Resign(e), PutOverride(e), DeleteOverride(e), AddPaper(e)}
    ELSE IF Gone(e) THEN Restore(e) \cup DeleteEmployee(e)
    ELSE CreateEmployee(e)

CreateGroup(g) == {Request("insert", "grp", g, [active |-> a]) : a \in Flags.grp}
UpdateGroup(g) == {Edit("grp", g, [active |-> a]) : a \in Flags.grp}
DeleteGroup(g) == {Request("delete", "grp", g, None)}

GroupRequests(g) == IF db.grp[g] = None THEN CreateGroup(g)
                    ELSE UpdateGroup(g) \cup DeleteGroup(g)

CreateShift(s) ==
    {[Request("insert", "shift", s,
              [group |-> g, is_default |-> c, active |-> a])
        EXCEPT !.claims = IF c THEN g ELSE None] :
       g \in Present(db.grp), c \in BOOLEAN, a \in Flags.shift}

\* is_default of the payload is absent or false, or true.
UpdateShift(s) ==
    LET row == db.shift[s]
    IN  {Edit("shift", s, [row EXCEPT !.is_default = c, !.active = a]) :
           c \in {row.is_default, FALSE}, a \in Flags.shift}
        \cup
        {[Edit("shift", s, [row EXCEPT !.is_default = TRUE, !.active = a])
            EXCEPT !.claims = row.group] : a \in Flags.shift}

DeleteShift(s) == {Request("delete", "shift", s, None)}

ShiftRequests(s) == IF db.shift[s] = None THEN CreateShift(s)
                    ELSE UpdateShift(s) \cup DeleteShift(s)

\* The requests that pass their checks on the tables as they are.
Accepted == (UNION {EmployeeRequests(e) : e \in Employees})
       \cup (UNION {GroupRequests(g) : g \in Groups})
       \cup (UNION {ShiftRequests(s) : s \in Shifts})

---------------------------------------------------------------------------
(* Statements and commit. *)

\* Mutant: the shift that becomes the default is not spared.
AllDefaults(r) == IF r.claims = None THEN {} ELSE Defaults(db, r.claims)

OtherDefaults(r) == IF r.claims = None THEN {} ELSE Defaults(db, r.claims) \ {r.key}

Cleared(r) == IF r.cleared = None THEN OtherDefaults(r) ELSE r.cleared

\* An UPDATE or DELETE that matches no row is an error, and so is a second
\* override of one employee; a row with no column changed is not written.
Found(r) == \/ r.table = "papers"
            \/ r.op = "update" /\ DOMAIN r.row = {}
            \/ (db[r.table][r.key] = None) = (r.op = "insert")

\* Rows are locked from the UPDATE that unsets them to the commit.
Unlocked(r) ==
    \A w \in Workers : req[w].cleared # None /\ req[w] # r
        => req[w].cleared \cap (Cleared(r) \cup {r.key}) = {}

NewRow(r, d) ==
    LET old == d[r.table][r.key]
    IN  IF r.op # "update" THEN r.row
        ELSE IF old = None THEN None
        ELSE [c \in DOMAIN old |-> IF c \in DOMAIN r.row THEN r.row[c] ELSE old[c]]

\* The rows a deleted group or employee takes along: the handler empties the
\* group, ON DELETE CASCADE removes the override.
Detached(r, d) ==
    CASE r.table = "grp" /\ r.op = "delete" ->
           [d EXCEPT !.emp = [e \in Employees |->
              IF d.emp[e] # None /\ d.emp[e].group = r.key
              THEN [d.emp[e] EXCEPT !.group = None] ELSE d.emp[e]]]
      [] r.table = "emp" /\ r.op = "delete" -> [d EXCEPT !.over[r.key] = None]
      [] OTHER -> d

Unset(S) == [db EXCEPT !.shift =
               [s \in Shifts |-> IF s \in S
                                 THEN [db.shift[s] EXCEPT !.is_default = FALSE]
                                 ELSE db.shift[s]]]

\* The tables after the statements of r.
Result(r) ==
    LET d == Detached(r, Unset(Cleared(r) \cap Present(db.shift)))
    IN  IF r.table = "papers" THEN [d EXCEPT !.papers[r.key] = @ \cup {r.row.kind}]
        ELSE [d EXCEPT ![r.table][r.key] = NewRow(r, d)]

\* The default of a group, were requests served one after the other.
Asked(r, g) ==
    CASE r.claims = g -> r.key
      [] r.table = "shift" /\ r.key = due[g] /\ r.claims # g
         /\ (r.op = "delete" \/ db'.shift[r.key].is_default # TRUE) -> None
      [] OTHER -> due[g]

Apply(r) ==
    /\ Found(r)
    /\ Unlocked(r)
    /\ \E d \in {Result(r)} : Consistent(d) /\ db' = d
    /\ raced' = (raced \/ ~r.fresh)
    /\ due' = [g \in Groups |-> IF raced' THEN None ELSE Asked(r, g)]

\* What the requests in flight have loaded may be no longer there.
Overtaken(w) == [x \in Workers |->
                   IF x = w THEN Idle
                   ELSE IF req[x] = Idle \/ db' = db THEN req[x]
                   ELSE [req[x] EXCEPT !.fresh = FALSE]]

---------------------------------------------------------------------------
Init == /\ db = [emp   |-> [e \in Employees |-> None], grp |-> [g \in Groups |-> None],
                 shift |-> [s \in Shifts |-> None], over |-> [e \in Employees |-> None],
                 papers |-> [e \in Employees |-> {}]]
        /\ req = [w \in Workers |-> Idle]
        /\ due = [g \in Groups |-> None]
        /\ raced = FALSE

Load(w) == /\ req[w] = Idle
           /\ ~raced  \* bound: one such commit in a behaviour
           /\ \E r \in Accepted : r.table \in Slow /\ req' = [req EXCEPT ![w] = r]
           /\ UNCHANGED <<db, due, raced>>

\* The UPDATE of the defaults has run before another request goes on.
ClearOtherDefaults(w) ==
    /\ req[w].claims # None
    /\ req[w].cleared = None
    /\ Unlocked(req[w])
    /\ req' = [req EXCEPT ![w].cleared = OtherDefaults(req[w])]
    /\ UNCHANGED <<db, due, raced>>

Commit(w) == /\ req[w] # Idle
             /\ Apply(req[w])
             /\ req' = Overtaken(w)

\* An error, or a constraint: rolled back.
Fail(w) == /\ req[w] # Idle
           /\ req' = [req EXCEPT ![w] = Idle]
           /\ UNCHANGED <<db, due, raced>>

\* A request that no other one interrupts.
Serve == /\ \E r \in Accepted : Apply(r)
         /\ req' = Overtaken(None)

\* effective_date comes, end_date passes.
Tomorrow(e) ==
    /\ db.over[e] # None
    /\ \/ /\ db.over[e].phase = "later"
          /\ db' = [db EXCEPT !.over[e].phase = "now"]
       \/ /\ db.over[e].phase = "now"
          /\ db' = [db EXCEPT !.over[e].phase = "over"]
    /\ UNCHANGED <<req, due, raced>>

Next == \/ Serve
        \/ \E w \in Workers : Load(w) \/ ClearOtherDefaults(w) \/ Commit(w) \/ Fail(w)
        \/ \E e \in Employees : Tomorrow(e)

Spec == Init /\ [][Next]_vars

---------------------------------------------------------------------------
(* The shift an employee is on: _get_effective_time_rule. *)

OverrideShift(e) ==
    {s \in Present(db.shift) : /\ db.over[e] # None
                               /\ db.over[e].phase = "now"
                               /\ db.over[e].shift = s
                               /\ db.shift[s].active
                               /\ db.shift[s].group = db.emp[e].group}

\* The shifts the query may return first; {} when the times of the group or of
\* the system rule apply.
EffectiveShift(e) ==
    LET g == db.emp[e].group
    IN  IF g = None THEN {}
        ELSE IF ~db.grp[g].active THEN {}
        ELSE IF OverrideShift(e) # {} THEN OverrideShift(e)
        ELSE {s \in Defaults(db, g) : db.shift[s].active}

---------------------------------------------------------------------------
(* Properties. *)

TypeOK == /\ db \in Database
          /\ due \in [Groups -> Shifts \cup {None}]
          /\ raced \in BOOLEAN
          /\ DOMAIN req = Workers

\* Who has resigned has no account ("Huỷ liên kết tài khoản"), unless a request
\* has committed what it had loaded before another one: no sequence of
\* resignations, restorations and assignments links one.
ResignedUnlinked ==
    ~raced => \A e \in Employees : Gone(e) => db.emp[e].user = None

\* Unless requests overlapped, the default shift of a group is the one last
\* asked for, also when it was the default already.
DefaultAsAsked ==
    ~raced => \A g \in Groups : Defaults(db, g) = {due[g]} \ {None}

\* A request that makes a shift the default is to "replace existing default
\* rather than 409": when it commits, the employees of the group who have no
\* override in force are on the shift it names.  Not so when the shift was the
\* default already as the request loaded it and another request has unset it
\* since, itself or by making a second shift the default.
ClaimTakesEffect ==
    [][\A w \in Workers, e \in Employees :
          (/\ Commit(w) /\ req[w].claims # None
           /\ req[w].key \in {s \in Present(db'.shift) : db'.shift[s].active}
           /\ e \in Present(db'.emp) /\ db'.emp[e].group = req[w].claims
           /\ db'.grp[req[w].claims].active /\ OverrideShift(e)' = {})
             => EffectiveShift(e)' = {req[w].key}]_vars
=============================================================================
