---------------------------- MODULE RosterProofs ----------------------------
(***************************************************************************)
(* Theorems about Roster, for any number of employees, accounts, groups,   *)
(* shifts and threads.                                                     *)
(***************************************************************************)
EXTENDS Roster, TLAPS, FiniteSetTheorems

---------------------------------------------------------------------------
(* The tables. *)

LEMMA Tables ==
    ASSUME NEW d \in Database
    PROVE  /\ d.emp \in Rows(Employees, Employee)
           /\ d.grp \in Rows(Groups, Group)
           /\ d.shift \in Rows(Shifts, Shift)
           /\ d.over \in Rows(Employees, Override)
           /\ d.papers \in [Employees -> SUBSET Papers]
BY DEF Database

---------------------------------------------------------------------------
(* Requests. *)

Ids  == [emp |-> Employees, grp |-> Groups, shift |-> Shifts, over |-> Employees]
Row  == [emp |-> Employee, grp |-> Group, shift |-> Shift, over |-> Override]

TableNames == {"emp", "grp", "shift", "over"}

\* A request has the fields that Request gives it.
Shape(r) ==
    r = [op |-> r.op, table |-> r.table, key |-> r.key, row |-> r.row,
         claims |-> r.claims, cleared |-> r.cleared, fresh |-> r.fresh]

\* An update has some columns of a row of its table.
SomeColumns(t, row) ==
    \E full \in Row[t] : \E D \in SUBSET DOMAIN full : row = [c \in D |-> full[c]]

TableRequest(r) ==
    /\ r.table \in TableNames
    /\ r.key \in Ids[r.table]
    /\ \/ r.op = "insert" /\ r.row \in Row[r.table]
       \/ r.op = "delete" /\ r.row = None
       \/ r.op = "update" /\ SomeColumns(r.table, r.row)

PaperRequest(r) ==
    /\ r.table = "papers" /\ r.op = "insert" /\ r.key \in Employees
    /\ \E p \in Papers : r.row = [kind |-> p]

Writable(r) ==
    /\ Shape(r)
    /\ TableRequest(r) \/ PaperRequest(r)
    /\ r.claims \in Groups \cup {None}
    /\ r.claims # None => r.table = "shift" /\ r.op # "delete"
    /\ r.cleared # None => r.claims # None /\ r.cleared \subseteq Shifts \ {r.key}

\* What holds of a request no other request has committed since: what it will
\* write over the rows it has loaded.
Current(r) ==
    /\ (r.table = "emp" /\ r.op = "insert") => ~r.row.gone
    /\ (r.table = "emp" /\ r.op = "update") =>
         (NewRow(r, db).gone => NewRow(r, db).user = None)
    /\ (r.table = "shift" /\ r.op = "insert") =>
         r.claims = IF r.row.is_default THEN r.row.group ELSE None
    /\ (r.table = "shift" /\ r.op = "update") =>
         LET old == db.shift[r.key]
             new == NewRow(r, db)
         IN  /\ old # None
             /\ new \in Shift /\ new.group = old.group
             /\ r.claims # None => r.claims = old.group /\ new.is_default
             /\ r.claims = None => (new.is_default => old.is_default)
    /\ r.cleared # None => r.cleared = OtherDefaults(r)

LEMMA MadeRequest ==
    ASSUME NEW op, NEW table, NEW key, NEW row, NEW r, r = Request(op, table, key, row)
    PROVE  /\ Shape(r)
           /\ r.op = op /\ r.table = table /\ r.key = key /\ r.row = row
           /\ r.claims = None /\ r.cleared = None /\ r.fresh
<1>1. r = [op |-> op, table |-> table, key |-> key, row |-> row,
           claims |-> None, cleared |-> None, fresh |-> TRUE]
  BY DEF Request
<1> QED BY <1>1 DEF Shape

LEMMA Claiming ==
    ASSUME NEW r, Shape(r), NEW g, NEW x, x = [r EXCEPT !.claims = g]
    PROVE  /\ Shape(x)
           /\ x.op = r.op /\ x.table = r.table /\ x.key = r.key /\ x.row = r.row
           /\ x.claims = g /\ x.cleared = r.cleared /\ x.fresh = r.fresh
<1>1. x = [op |-> r.op, table |-> r.table, key |-> r.key, row |-> r.row,
           claims |-> g, cleared |-> r.cleared, fresh |-> r.fresh]
  BY DEF Shape
<1> QED BY <1>1 DEF Shape

LEMMA Clearing ==
    ASSUME NEW r, Shape(r), NEW S, NEW x, x = [r EXCEPT !.cleared = S]
    PROVE  /\ Shape(x)
           /\ x.op = r.op /\ x.table = r.table /\ x.key = r.key /\ x.row = r.row
           /\ x.claims = r.claims /\ x.cleared = S /\ x.fresh = r.fresh
<1>1. x = [op |-> r.op, table |-> r.table, key |-> r.key, row |-> r.row,
           claims |-> r.claims, cleared |-> S, fresh |-> r.fresh]
  BY DEF Shape
<1> QED BY <1>1 DEF Shape

LEMMA Staling ==
    ASSUME NEW r, Shape(r), NEW x, x = [r EXCEPT !.fresh = FALSE]
    PROVE  /\ Shape(x)
           /\ x.op = r.op /\ x.table = r.table /\ x.key = r.key /\ x.row = r.row
           /\ x.claims = r.claims /\ x.cleared = r.cleared /\ ~x.fresh
<1>1. x = [op |-> r.op, table |-> r.table, key |-> r.key, row |-> r.row,
           claims |-> r.claims, cleared |-> r.cleared, fresh |-> FALSE]
  BY DEF Shape
<1> QED BY <1>1 DEF Shape

\* Rows of one table have the same columns, and are told apart by them.
LEMMA Columns ==
    ASSUME NEW t \in TableNames, NEW a \in Row[t], NEW b \in Row[t]
    PROVE  /\ DOMAIN a = DOMAIN b
           /\ a = [c \in DOMAIN a |-> a[c]]
           /\ \A D \in SUBSET DOMAIN a :
                [c \in DOMAIN b |-> IF c \in D THEN a[c] ELSE b[c]] \in Row[t]
           /\ a # None
<1>1. CASE t = "emp"
  BY <1>1, RosterAssumption DEF Row, Employee
<1>2. CASE t = "grp"
  BY <1>2, RosterAssumption DEF Row, Group
<1>3. CASE t = "shift"
  BY <1>3, RosterAssumption DEF Row, Shift
<1>4. CASE t = "over"
  BY <1>4, RosterAssumption DEF Row, Override
<1> QED BY <1>1, <1>2, <1>3, <1>4 DEF TableNames

LEMMA TableRows ==
    ASSUME NEW d \in Database, NEW t \in TableNames, NEW k \in Ids[t]
    PROVE  d[t][k] \in Row[t] \cup {None}
<1>1. CASE t = "emp"
  BY <1>1, Tables DEF Ids, Row, Rows
<1>2. CASE t = "grp"
  BY <1>2, Tables DEF Ids, Row, Rows
<1>3. CASE t = "shift"
  BY <1>3, Tables DEF Ids, Row, Rows
<1>4. CASE t = "over"
  BY <1>4, Tables DEF Ids, Row, Rows
<1> QED BY <1>1, <1>2, <1>3, <1>4 DEF TableNames

\* An edit writes the row it was given.
LEMMA Edited ==
    ASSUME db \in Database, NEW t \in TableNames, NEW k \in Ids[t], db[t][k] # None,
           NEW new \in Row[t], NEW r, r = Edit(t, k, new)
    PROVE  /\ Shape(r) /\ TableRequest(r)
           /\ r.op = "update" /\ r.table = t /\ r.key = k
           /\ r.claims = None /\ r.cleared = None /\ r.fresh
           /\ NewRow(r, db) = new
<1> DEFINE old == db[t][k]
           D   == {x \in DOMAIN new : new[x] # old[x]}
           row == [c \in D |-> new[c]]
<1>1. old \in Row[t] /\ DOMAIN old = DOMAIN new /\ new = [c \in DOMAIN new |-> new[c]]
  BY TableRows, Columns
<1>2. r = Request("update", t, k, row)
  BY DEF Edit
<1>3. DOMAIN row = D /\ D \in SUBSET DOMAIN new
  OBVIOUS
<1>4. [c \in DOMAIN old |-> IF c \in DOMAIN row THEN row[c] ELSE old[c]] = new
  <2>1. \A c \in DOMAIN new : (IF c \in DOMAIN row THEN row[c] ELSE old[c]) = new[c]
    BY <1>3
  <2> HIDE DEF D, row, old
  <2> QED BY <1>1, <2>1
<1> HIDE DEF D, row
<1>5. /\ Shape(r)
      /\ r.op = "update" /\ r.table = t /\ r.key = k /\ r.row = row
      /\ r.claims = None /\ r.cleared = None /\ r.fresh
  <2>1. ASSUME NEW w, r = Request("update", t, k, w)
        PROVE  /\ Shape(r)
               /\ r.op = "update" /\ r.table = t /\ r.key = k /\ r.row = w
               /\ r.claims = None /\ r.cleared = None /\ r.fresh
    <3>1. r = [op |-> "update", table |-> t, key |-> k, row |-> w,
               claims |-> None, cleared |-> None, fresh |-> TRUE]
      BY <2>1 DEF Request
    <3> QED BY <3>1 DEF Shape
  <2> QED BY <1>2, <2>1
<1>6. TableRequest(r)
  <2>1. row = [c \in D |-> new[c]]
    BY DEF row
  <2> QED BY <1>3, <1>5, <2>1 DEF TableRequest, SomeColumns
<1>7. NewRow(r, db) = new
  BY <1>4, <1>5 DEF NewRow
<1> QED BY <1>5, <1>6, <1>7

---------------------------------------------------------------------------
(* The requests that are accepted. *)

\* What every request is when its handler has checked it.
Sound(r) == /\ Writable(r)
            /\ r.fresh
            /\ r.cleared = None
            /\ Current(r)

LEMMA EmployeeEdited ==
    ASSUME db \in Database, NEW e \in Employees, db.emp[e] # None,
           NEW new \in Employee, new.gone => new.user = None,
           NEW r, r = Edit("emp", e, new)
    PROVE  Sound(r)
<1>1. ASSUME NEW t, t = "emp"
      PROVE  /\ Shape(r) /\ TableRequest(r)
             /\ r.op = "update" /\ r.table = t /\ r.key = e
             /\ r.claims = None /\ r.cleared = None /\ r.fresh
             /\ NewRow(r, db) = new
  <2>1. t \in TableNames /\ e \in Ids[t] /\ new \in Row[t] /\ db[t][e] # None /\ r = Edit(t, e, new)
    BY <1>1 DEF TableNames, Ids, Row
  <2> QED BY <2>1, Edited
<1> QED BY <1>1 DEF Sound, Writable, Current

LEMMA GroupEdited ==
    ASSUME db \in Database, NEW g \in Groups, db.grp[g] # None,
           NEW new \in Group, NEW r, r = Edit("grp", g, new)
    PROVE  Sound(r)
<1>1. ASSUME NEW t, t = "grp"
      PROVE  /\ Shape(r) /\ TableRequest(r)
             /\ r.op = "update" /\ r.table = t /\ r.key = g
             /\ r.claims = None /\ r.cleared = None /\ r.fresh
             /\ NewRow(r, db) = new
  <2>1. t \in TableNames /\ g \in Ids[t] /\ new \in Row[t] /\ db[t][g] # None /\ r = Edit(t, g, new)
    BY <1>1 DEF TableNames, Ids, Row
  <2> QED BY <2>1, Edited
<1> QED BY <1>1 DEF Sound, Writable, Current

LEMMA OverrideEdited ==
    ASSUME db \in Database, NEW e \in Employees, db.over[e] # None,
           NEW new \in Override, NEW r, r = Edit("over", e, new)
    PROVE  Sound(r)
<1>1. ASSUME NEW t, t = "over"
      PROVE  /\ Shape(r) /\ TableRequest(r)
             /\ r.op = "update" /\ r.table = t /\ r.key = e
             /\ r.claims = None /\ r.cleared = None /\ r.fresh
             /\ NewRow(r, db) = new
  <2>1. t \in TableNames /\ e \in Ids[t] /\ new \in Row[t] /\ db[t][e] # None /\ r = Edit(t, e, new)
    BY <1>1 DEF TableNames, Ids, Row
  <2> QED BY <2>1, Edited
<1> QED BY <1>1 DEF Sound, Writable, Current

LEMMA ShiftEdited ==
    ASSUME db \in Database, NEW s \in Shifts, db.shift[s] # None,
           NEW new \in Shift, new.group = db.shift[s].group, NEW g,
           \/ g = None /\ (new.is_default => db.shift[s].is_default)
           \/ g = db.shift[s].group /\ new.is_default,
           NEW q, q = Edit("shift", s, new),
           NEW r, (r = q /\ g = None) \/ r = [q EXCEPT !.claims = g]
    PROVE  Sound(r)
<1>1. ASSUME NEW t, t = "shift"
      PROVE  /\ Shape(q) /\ TableRequest(q)
             /\ q.op = "update" /\ q.table = t /\ q.key = s
             /\ q.claims = None /\ q.cleared = None /\ q.fresh
             /\ NewRow(q, db) = new
  <2>1. t \in TableNames /\ s \in Ids[t] /\ new \in Row[t] /\ db[t][s] # None /\ q = Edit(t, s, new)
    BY <1>1 DEF TableNames, Ids, Row
  <2> QED BY <2>1, Edited
<1>0. /\ Shape(q) /\ TableRequest(q)
      /\ q.op = "update" /\ q.table = "shift" /\ q.key = s
      /\ q.claims = None /\ q.cleared = None /\ q.fresh
      /\ NewRow(q, db) = new
  BY <1>1
<1>2. /\ Shape(r)
      /\ r.op = q.op /\ r.table = q.table /\ r.key = q.key /\ r.row = q.row
      /\ r.claims = g /\ r.cleared = q.cleared /\ r.fresh = q.fresh
  BY <1>0, Claiming
<1>3. g \in Groups \cup {None}
  BY DEF Database, Rows, Shift
<1>4. TableRequest(r)
  <2>1. r.op = q.op /\ r.table = q.table /\ r.key = q.key /\ r.row = q.row
    BY <1>2
  <2> QED BY <1>0, <2>1 DEF TableRequest
<1>5. NewRow(r, db) = new
  BY <1>0, <1>2 DEF NewRow
<1>6. Writable(r)
  BY <1>0, <1>2, <1>3, <1>4 DEF Writable
<1>7. Current(r)
  <2>1. /\ r.table = "shift" /\ r.op = "update" /\ r.key = s
        /\ r.claims = g /\ r.cleared = None
    BY <1>0, <1>2
  <2>2. g = None => (new.is_default => db.shift[s].is_default)
    BY RosterAssumption DEF Database, Rows, Shift
  <2>3. g # None => g = db.shift[s].group /\ new.is_default
    OBVIOUS
  <2> HIDE DEF NewRow
  <2> QED BY <1>5, <2>1, <2>2, <2>3 DEF Current
<1> QED BY <1>0, <1>2, <1>6, <1>7 DEF Sound

LEMMA Inserted ==
    ASSUME NEW t \in {"emp", "grp", "over"}, NEW k \in Ids[t], NEW row \in Row[t],
           t = "emp" => ~row.gone, NEW r, r = Request("insert", t, k, row)
    PROVE  Sound(r)
<1>1. /\ Shape(r)
      /\ r.op = "insert" /\ r.table = t /\ r.key = k /\ r.row = row
      /\ r.claims = None /\ r.cleared = None /\ r.fresh
  BY MadeRequest
<1> QED BY <1>1 DEF Sound, Writable, TableRequest, TableNames, Current

LEMMA Deleted ==
    ASSUME NEW t \in TableNames, NEW k \in Ids[t], NEW r, r = Request("delete", t, k, None)
    PROVE  Sound(r)
<1>1. /\ Shape(r)
      /\ r.op = "delete" /\ r.table = t /\ r.key = k /\ r.row = None
      /\ r.claims = None /\ r.cleared = None /\ r.fresh
  BY MadeRequest
<1> QED BY <1>1 DEF Sound, Writable, TableRequest, Current

LEMMA PaperAdded ==
    ASSUME NEW e \in Employees, NEW p \in Papers,
           NEW r, r = Request("insert", "papers", e, [kind |-> p])
    PROVE  Sound(r)
<1>1. /\ Shape(r)
      /\ r.op = "insert" /\ r.table = "papers" /\ r.key = e /\ r.row = [kind |-> p]
      /\ r.claims = None /\ r.cleared = None /\ r.fresh
  BY MadeRequest
<1> QED BY <1>1 DEF Sound, Writable, PaperRequest, Current

LEMMA ShiftCreated ==
    ASSUME NEW s \in Shifts, NEW row \in Shift,
           NEW g, g = IF row.is_default THEN row.group ELSE None,
           NEW q, q = Request("insert", "shift", s, row), NEW r, r = [q EXCEPT !.claims = g]
    PROVE  Sound(r)
<1>1. /\ Shape(q)
      /\ q.op = "insert" /\ q.table = "shift" /\ q.key = s /\ q.row = row
      /\ q.claims = None /\ q.cleared = None /\ q.fresh
  BY MadeRequest
<1>2. /\ Shape(r)
      /\ r.op = q.op /\ r.table = q.table /\ r.key = q.key /\ r.row = q.row
      /\ r.claims = g /\ r.cleared = q.cleared /\ r.fresh = q.fresh
  BY <1>1, Claiming
<1>3. g \in Groups \cup {None}
  BY DEF Shift
<1>4. TableRequest(r)
  BY <1>1, <1>2 DEF TableRequest, TableNames, Ids, Row
<1> QED BY <1>1, <1>2, <1>3, <1>4 DEF Sound, Writable, Current

LEMMA EmployeeRequestsSound ==
    ASSUME db \in Database, NEW e \in Employees, NEW r \in EmployeeRequests(e)
    PROVE  Sound(r)
<1>1. CASE Here(e)
  <2> DEFINE old == db.emp[e]
  <2>0. old \in Employee /\ ~old.gone /\ db.emp[e] # None
    BY <1>1, Tables DEF Here, Rows
  <2>1. ASSUME r \in UpdateEmployee(e) PROVE Sound(r)
    <3> DEFINE Row3(u, g, a) ==
                 Edit("emp", e, [old EXCEPT !.user = u, !.group = g, !.active = a])
    <3>0. UpdateEmployee(e) =
            {Row3(u, g, a) : u \in Assignable(e) \cup {old.user}, g \in Known, a \in Flags.emp}
      BY DEF UpdateEmployee
    <3>1. PICK u \in Assignable(e) \cup {old.user}, g \in Known, a \in Flags.emp :
             r = Row3(u, g, a)
      <4> HIDE DEF Row3
      <4> QED BY <2>1, <3>0
    <3> DEFINE new == [old EXCEPT !.user = u, !.group = g, !.active = a]
    <3>2. u \in Users \cup {None} /\ g \in Groups \cup {None} /\ a \in BOOLEAN
      BY <2>0, RosterAssumption DEF Assignable, Known, Employee
    <3>3. new \in Employee /\ ~new.gone
      BY <2>0, <3>2 DEF Employee
    <3> HIDE DEF new
    <3> QED BY <2>0, <3>1, <3>3, EmployeeEdited DEF new
  <2>2. ASSUME r \in AssignUser(e) PROVE Sound(r)
    <3>1. PICK u \in Assignable(e) : r = Edit("emp", e, [old EXCEPT !.user = u])
      BY <2>2 DEF AssignUser
    <3> DEFINE new == [old EXCEPT !.user = u]
    <3>2. u \in Users \cup {None}
      BY DEF Assignable
    <3>3. new \in Employee /\ ~new.gone
      BY <2>0, <3>2 DEF Employee
    <3> HIDE DEF new
    <3> QED BY <2>0, <3>1, <3>3, EmployeeEdited DEF new
  <2>3. ASSUME r \in AssignGroup(e) PROVE Sound(r)
    <3>1. PICK g \in Known : r = Edit("emp", e, [old EXCEPT !.group = g])
      BY <2>3 DEF AssignGroup
    <3> DEFINE new == [old EXCEPT !.group = g]
    <3>2. g \in Groups \cup {None}
      BY DEF Known
    <3>3. new \in Employee /\ ~new.gone
      BY <2>0, <3>2 DEF Employee
    <3> HIDE DEF new
    <3> QED BY <2>0, <3>1, <3>3, EmployeeEdited DEF new
  <2>4. ASSUME r \in Resign(e) PROVE Sound(r)
    <3> DEFINE new == [old EXCEPT !.gone = TRUE, !.active = FALSE, !.user = None]
    <3>1. r = Edit("emp", e, new)
      BY <2>4 DEF Resign
    <3>2. new \in Employee /\ new.user = None
      BY <2>0 DEF Employee
    <3> HIDE DEF new
    <3> QED BY <2>0, <3>1, <3>2, EmployeeEdited
  <2>5. ASSUME r \in PutOverride(e) PROVE Sound(r)
    <3> DEFINE Put(s, p) == IF db.over[e] = None
                           THEN Request("insert", "over", e, [shift |-> s, phase |-> p])
                           ELSE Edit("over", e, [shift |-> s, phase |-> p])
               Own == {x \in Present(db.shift) : /\ db.shift[x].group = db.emp[e].group
                                                 /\ db.shift[x].active}
    <3>0. r \in {Put(s, p) : s \in Own, p \in Phases}
      BY <2>5 DEF PutOverride
    <3>1. PICK s \in Own, p \in Phases : r = Put(s, p)
      <4> HIDE DEF Put, Own
      <4> QED BY <3>0
    <3>5. s \in Shifts
      BY Tables DEF Present, Rows
    <3> DEFINE new == [shift |-> s, phase |-> p]
    <3>2. new \in Override
      BY <3>5 DEF Override
    <3> HIDE DEF new
    <3>3. CASE db.over[e] = None
      <4>1. r = Request("insert", "over", e, new)
        BY <3>1, <3>3 DEF new
      <4>2. "over" \in {"emp", "grp", "over"} /\ e \in Ids["over"] /\ new \in Row["over"]
        BY <3>2 DEF Ids, Row
      <4> QED BY <4>1, <4>2, Inserted
    <3>4. CASE db.over[e] # None
      <4>1. r = Edit("over", e, new)
        BY <3>1, <3>4 DEF new
      <4> QED BY <3>2, <3>4, <4>1, OverrideEdited
    <3> QED BY <3>3, <3>4
  <2>6. ASSUME r \in DeleteOverride(e) PROVE Sound(r)
    <3>1. r = Request("delete", "over", e, None)
      BY <2>6 DEF DeleteOverride
    <3>2. "over" \in TableNames /\ e \in Ids["over"]
      BY DEF TableNames, Ids
    <3> QED BY <3>1, <3>2, Deleted
  <2>7. ASSUME r \in AddPaper(e) PROVE Sound(r)
    <3>1. PICK p \in Papers : r = Request("insert", "papers", e, [kind |-> p])
      BY <2>7 DEF AddPaper
    <3> QED BY <3>1, PaperAdded
  <2> QED BY <1>1, <2>1, <2>2, <2>3, <2>4, <2>5, <2>6, <2>7 DEF EmployeeRequests
<1>2. CASE ~Here(e) /\ Gone(e)
  <2> DEFINE old == db.emp[e]
  <2>0. old \in Employee /\ db.emp[e] # None
    BY <1>2, Tables DEF Gone, Rows
  <2>1. ASSUME r \in Restore(e) PROVE Sound(r)
    <3> DEFINE new == [old EXCEPT !.gone = FALSE, !.active = TRUE]
    <3>1. r = Edit("emp", e, new)
      BY <2>1 DEF Restore
    <3>2. new \in Employee /\ ~new.gone
      BY <2>0 DEF Employee
    <3> HIDE DEF new
    <3> QED BY <2>0, <3>1, <3>2, EmployeeEdited
  <2>2. ASSUME r \in DeleteEmployee(e) PROVE Sound(r)
    <3>1. r = Request("delete", "emp", e, None)
      BY <2>2 DEF DeleteEmployee
    <3>2. "emp" \in TableNames /\ e \in Ids["emp"]
      BY DEF TableNames, Ids
    <3> QED BY <3>1, <3>2, Deleted
  <2> QED BY <1>2, <2>1, <2>2 DEF EmployeeRequests
<1>3. CASE ~Here(e) /\ ~Gone(e)
  <2>1. r \in CreateEmployee(e)
    BY <1>3 DEF EmployeeRequests
  <2>2. PICK u \in Assignable(e), g \in Known :
           r = Request("insert", "emp", e,
                       [gone |-> FALSE, active |-> TRUE, user |-> u, group |-> g])
    BY <2>1 DEF CreateEmployee
  <2> DEFINE new == [gone |-> FALSE, active |-> TRUE, user |-> u, group |-> g]
  <2>3. new \in Employee /\ ~new.gone
    BY DEF Employee, Assignable, Known
  <2> HIDE DEF new
  <2>4. "emp" \in {"emp", "grp", "over"} /\ e \in Ids["emp"] /\ new \in Row["emp"]
    BY <2>3 DEF Ids, Row
  <2> QED BY <2>2, <2>3, <2>4, Inserted DEF new
<1> QED BY <1>1, <1>2, <1>3

LEMMA GroupRequestsSound ==
    ASSUME db \in Database, NEW g \in Groups, NEW r \in GroupRequests(g)
    PROVE  Sound(r)
<1>1. CASE db.grp[g] = None
  <2>1. PICK a \in Flags.grp : r = Request("insert", "grp", g, [active |-> a])
    BY <1>1 DEF GroupRequests, CreateGroup
  <2> DEFINE new == [active |-> a]
  <2>2. new \in Group
    BY RosterAssumption DEF Group
  <2> HIDE DEF new
  <2>3. "grp" \in {"emp", "grp", "over"} /\ g \in Ids["grp"] /\ new \in Row["grp"]
    BY <2>2 DEF Ids, Row
  <2> QED BY <2>1, <2>3, Inserted DEF new
<1>2. CASE db.grp[g] # None
  <2>1. CASE r \in UpdateGroup(g)
    <3>1. PICK a \in Flags.grp : r = Edit("grp", g, [active |-> a])
      BY <2>1 DEF UpdateGroup
    <3> DEFINE new == [active |-> a]
    <3>2. new \in Group
      BY RosterAssumption DEF Group
    <3> HIDE DEF new
    <3> QED BY <1>2, <3>1, <3>2, GroupEdited DEF new
  <2>2. CASE r \in DeleteGroup(g)
    <3>1. r = Request("delete", "grp", g, None)
      BY <2>2 DEF DeleteGroup
    <3>2. "grp" \in TableNames /\ g \in Ids["grp"]
      BY DEF TableNames, Ids
    <3> QED BY <3>1, <3>2, Deleted
  <2> QED BY <1>2, <2>1, <2>2 DEF GroupRequests
<1> QED BY <1>1, <1>2

LEMMA ShiftRequestsSound ==
    ASSUME db \in Database, NEW s \in Shifts, NEW r \in ShiftRequests(s)
    PROVE  Sound(r)
<1>1. CASE db.shift[s] = None
  <2> DEFINE New(g, c, a) ==
               [Request("insert", "shift", s, [group |-> g, is_default |-> c, active |-> a])
                 EXCEPT !.claims = IF c THEN g ELSE None]
  <2>0. /\ r \in CreateShift(s)
        /\ CreateShift(s) =
             {New(g, c, a) : g \in Present(db.grp), c \in BOOLEAN, a \in Flags.shift}
    <3>1. CreateShift(s) =
            {New(g, c, a) : g \in Present(db.grp), c \in BOOLEAN, a \in Flags.shift}
      BY DEF CreateShift
    <3>2. r \in CreateShift(s)
      BY <1>1 DEF ShiftRequests
    <3> HIDE DEF New
    <3> QED BY <3>1, <3>2
  <2>1. PICK g \in Present(db.grp), c \in BOOLEAN, a \in Flags.shift : r = New(g, c, a)
    <3> HIDE DEF New
    <3> QED BY <2>0
  <2> DEFINE new == [group |-> g, is_default |-> c, active |-> a]
             q   == Request("insert", "shift", s, new)
             h   == IF new.is_default THEN new.group ELSE None
  <2>2. g \in Groups
    BY Tables DEF Present, Rows
  <2>3. new \in Shift
    BY <2>2, RosterAssumption DEF Shift
  <2>4. r = [q EXCEPT !.claims = h]
    BY <2>1
  <2>5. h = IF new.is_default THEN new.group ELSE None
    OBVIOUS
  <2>6. q = Request("insert", "shift", s, new)
    OBVIOUS
  <2> HIDE DEF new, q, h
  <2> QED BY <2>3, <2>4, <2>5, <2>6, ShiftCreated
<1>2. CASE db.shift[s] # None
  <2> DEFINE old == db.shift[s]
  <2>0. old \in Shift
    BY <1>2, Tables DEF Rows
  <2>1. ASSUME NEW c \in {old.is_default, FALSE}, NEW a \in Flags.shift,
               r = Edit("shift", s, [old EXCEPT !.is_default = c, !.active = a])
        PROVE  Sound(r)
    <3> DEFINE new == [old EXCEPT !.is_default = c, !.active = a]
    <3>1. /\ new \in Shift /\ new.group = old.group
          /\ new.is_default => old.is_default
      BY <2>0, RosterAssumption DEF Shift
    <3>2. r = Edit("shift", s, new)
      BY <2>1
    <3> HIDE DEF new
    <3> QED BY <1>2, <3>1, <3>2, ShiftEdited
  <2>2. ASSUME NEW a \in Flags.shift,
               r = [Edit("shift", s, [old EXCEPT !.is_default = TRUE, !.active = a])
                     EXCEPT !.claims = old.group]
        PROVE  Sound(r)
    <3> DEFINE new == [old EXCEPT !.is_default = TRUE, !.active = a]
               q   == Edit("shift", s, new)
    <3>1. new \in Shift /\ new.group = old.group /\ new.is_default
      BY <2>0, RosterAssumption DEF Shift
    <3>2. q = Edit("shift", s, new) /\ r = [q EXCEPT !.claims = old.group]
      BY <2>2
    <3> HIDE DEF new, q
    <3> QED BY <1>2, <3>1, <3>2, ShiftEdited
  <2>3. ASSUME r \in DeleteShift(s) PROVE Sound(r)
    <3>1. r = Request("delete", "shift", s, None)
      BY <2>3 DEF DeleteShift
    <3>2. "shift" \in TableNames /\ s \in Ids["shift"]
      BY DEF TableNames, Ids
    <3> QED BY <3>1, <3>2, Deleted
  <2> DEFINE Kept(c, a) == Edit("shift", s, [old EXCEPT !.is_default = c, !.active = a])
             Claimed(a) == [Edit("shift", s, [old EXCEPT !.is_default = TRUE, !.active = a])
                             EXCEPT !.claims = old.group]
             Given == {old.is_default, FALSE}
             KeptSet == {Kept(c, a) : c \in Given, a \in Flags.shift}
             ClaimedSet == {Claimed(a) : a \in Flags.shift}
  <2>4. UpdateShift(s) = KeptSet \cup ClaimedSet
    BY DEF UpdateShift
  <2>5. r \in KeptSet => \E c \in Given, a \in Flags.shift : r = Kept(c, a)
    <3> HIDE DEF Kept, Given
    <3> QED OBVIOUS
  <2>6. r \in ClaimedSet => \E a \in Flags.shift : r = Claimed(a)
    <3> HIDE DEF Claimed
    <3> QED OBVIOUS
  <2>7. r \in KeptSet \/ r \in ClaimedSet \/ r \in DeleteShift(s)
    <3> HIDE DEF KeptSet, ClaimedSet
    <3> QED BY <1>2, <2>4 DEF ShiftRequests
  <2> HIDE DEF KeptSet, ClaimedSet
  <2> QED BY <2>1, <2>2, <2>3, <2>5, <2>6, <2>7
<1> QED BY <1>1, <1>2

LEMMA AcceptedSound ==
    ASSUME db \in Database, NEW r \in Accepted
    PROVE  Sound(r)
BY EmployeeRequestsSound, GroupRequestsSound, ShiftRequestsSound DEF Accepted

---------------------------------------------------------------------------
(* What the statements of a request write. *)

LEMMA NewRowType ==
    ASSUME NEW d \in Database, NEW r, TableRequest(r)
    PROVE  NewRow(r, d) \in Row[r.table] \cup {None}
<1> DEFINE t   == r.table
           old == d[t][r.key]
<1>0. t \in TableNames /\ r.key \in Ids[t]
  BY DEF TableRequest
<1>1. old \in Row[t] \cup {None}
  BY <1>0, TableRows
<1>2. CASE r.op # "update"
  BY <1>2 DEF NewRow, TableRequest
<1>3. CASE r.op = "update" /\ old = None
  BY <1>3 DEF NewRow
<1>4. CASE r.op = "update" /\ old # None
  <2>1. PICK full \in Row[t] : \E D \in SUBSET DOMAIN full : r.row = [c \in D |-> full[c]]
    BY <1>4 DEF TableRequest, SomeColumns
  <2>2. PICK D \in SUBSET DOMAIN full : r.row = [c \in D |-> full[c]]
    BY <2>1
  <2>3. old \in Row[t]
    BY <1>1, <1>4
  <2> HIDE DEF old, t
  <2>4. \A E \in SUBSET DOMAIN full :
           [c \in DOMAIN old |-> IF c \in E THEN full[c] ELSE old[c]] \in Row[t]
    <3> SUFFICES ASSUME NEW E \in SUBSET DOMAIN full
                 PROVE  [c \in DOMAIN old |-> IF c \in E THEN full[c] ELSE old[c]] \in Row[t]
      OBVIOUS
    <3> QED BY <1>0, <2>1, <2>3, Columns
  <2>5. [c \in DOMAIN old |-> IF c \in D THEN full[c] ELSE old[c]] \in Row[t]
    BY <2>4
  <2>6. DOMAIN r.row = D /\ \A c \in D : r.row[c] = full[c]
    BY <2>2
  <2>7. NewRow(r, d) = [c \in DOMAIN old |-> IF c \in DOMAIN r.row THEN r.row[c] ELSE old[c]]
    BY <1>4 DEF NewRow, old, t
  <2>8. NewRow(r, d) = [c \in DOMAIN old |-> IF c \in D THEN full[c] ELSE old[c]]
    BY <2>6, <2>7
  <2> QED BY <2>5, <2>8 DEF t
<1> QED BY <1>2, <1>3, <1>4

LEMMA UnsetTables ==
    ASSUME db \in Database, NEW S \in SUBSET Present(db.shift), NEW d, d = Unset(S)
    PROVE  /\ d \in Database
           /\ d.emp = db.emp /\ d.grp = db.grp /\ d.over = db.over /\ d.papers = db.papers
           /\ \A s \in Shifts :
                d.shift[s] = IF s \in S THEN [db.shift[s] EXCEPT !.is_default = FALSE]
                             ELSE db.shift[s]
<1> DEFINE New == [s \in Shifts |-> IF s \in S
                                    THEN [db.shift[s] EXCEPT !.is_default = FALSE]
                                    ELSE db.shift[s]]
<1>1. ASSUME NEW s \in Shifts PROVE New[s] \in Shift \cup {None}
  <2>1. CASE s \in S
    <3>1. db.shift[s] \in Shift
      BY <2>1, Tables DEF Present, Rows
    <3> QED BY <2>1, <3>1 DEF Shift
  <2>2. CASE s \notin S
    BY <2>2, Tables DEF Rows
  <2> QED BY <2>1, <2>2
<1>2. New \in Rows(Shifts, Shift)
  BY <1>1 DEF Rows
<1>3. d = [db EXCEPT !.shift = New]
  BY DEF Unset
<1>4. \A s \in Shifts : New[s] = IF s \in S THEN [db.shift[s] EXCEPT !.is_default = FALSE]
                                 ELSE db.shift[s]
  OBVIOUS
<1> HIDE DEF New
<1>5. d.shift = New
  BY <1>3 DEF Database
<1>6. /\ d \in Database
      /\ d.emp = db.emp /\ d.grp = db.grp /\ d.over = db.over /\ d.papers = db.papers
  BY <1>2, <1>3 DEF Database
<1> QED BY <1>4, <1>5, <1>6

\* A deleted group leaves its employees without one, a deleted employee leaves
\* no override, and nothing else goes along.
LEMMA DetachedTables ==
    ASSUME NEW d \in Database, NEW r, TableRequest(r) \/ PaperRequest(r),
           NEW x, x = Detached(r, d)
    PROVE  /\ x \in Database
           /\ x.grp = d.grp /\ x.shift = d.shift /\ x.papers = d.papers
           /\ r.table # "grp" => x.emp = d.emp
           /\ r.table # "emp" => x.over = d.over
           /\ \A e \in Employees :
                \/ x.emp[e] = d.emp[e]
                \/ d.emp[e] # None /\ x.emp[e] = [d.emp[e] EXCEPT !.group = None]
           /\ r.table = "grp" /\ r.op = "delete" =>
                \A e \in Employees : x.emp[e] # None => x.emp[e].group # r.key
<1>1. CASE r.table = "grp" /\ r.op = "delete"
  <2> DEFINE New == [e \in Employees |->
                       IF d.emp[e] # None /\ d.emp[e].group = r.key
                       THEN [d.emp[e] EXCEPT !.group = None] ELSE d.emp[e]]
  <2>1. x = [d EXCEPT !.emp = New]
    BY <1>1 DEF Detached
  <2>2. ASSUME NEW e \in Employees
        PROVE  /\ New[e] \in Employee \cup {None}
               /\ \/ New[e] = d.emp[e]
                  \/ d.emp[e] # None /\ New[e] = [d.emp[e] EXCEPT !.group = None]
               /\ New[e] # None => New[e].group # r.key
    <3>1. d.emp[e] \in Employee \cup {None}
      BY Tables DEF Rows
    <3>2. r.key \in Groups
      BY <1>1 DEF TableRequest, PaperRequest, Ids
    <3>3. CASE d.emp[e] # None /\ d.emp[e].group = r.key
      <4>1. d.emp[e] \in Employee
        BY <3>1, <3>3
      <4>2. [d.emp[e] EXCEPT !.group = None] \in Employee
        BY <4>1 DEF Employee
      <4>3. [d.emp[e] EXCEPT !.group = None].group = None
        BY <4>1 DEF Employee
      <4> QED BY <3>2, <3>3, <4>2, <4>3, RosterAssumption
    <3>4. CASE ~(d.emp[e] # None /\ d.emp[e].group = r.key)
      BY <3>1, <3>4
    <3> QED BY <3>3, <3>4
  <2>3. New \in Rows(Employees, Employee)
    BY <2>2 DEF Rows
  <2> HIDE DEF New
  <2>4. /\ x \in Database /\ x.emp = New
        /\ x.grp = d.grp /\ x.shift = d.shift /\ x.papers = d.papers /\ x.over = d.over
    BY <2>1, <2>3 DEF Database
  <2> QED BY <1>1, <2>2, <2>4
<1>2. CASE r.table = "emp" /\ r.op = "delete"
  <2>1. x = [d EXCEPT !.over[r.key] = None]
    BY <1>2 DEF Detached
  <2>2. r.key \in Employees
    BY <1>2 DEF TableRequest, PaperRequest, Ids
  <2>3. [d.over EXCEPT ![r.key] = None] \in Rows(Employees, Override)
    BY <2>2, Tables DEF Rows
  <2>4. /\ x \in Database
        /\ x.emp = d.emp /\ x.grp = d.grp /\ x.shift = d.shift /\ x.papers = d.papers
    BY <2>1, <2>3 DEF Database
  <2> QED BY <1>2, <2>4
<1>3. CASE ~(r.op = "delete" /\ r.table \in {"grp", "emp"})
  <2>1. x = d
    BY <1>3 DEF Detached
  <2> QED BY <1>3, <2>1
<1> QED BY <1>1, <1>2, <1>3

LEMMA ClearedTables ==
    ASSUME db \in Database, NEW r, Writable(r)
    PROVE  /\ r.key \notin Cleared(r)
           /\ r.table # "shift" => Cleared(r) = {}
BY DEF Writable, Cleared, OtherDefaults

\* A row of an UPDATE is the one it was before the statement.
LEMMA SameNewRow ==
    ASSUME NEW r, NEW d, d[r.table][r.key] = db[r.table][r.key]
    PROVE  NewRow(r, d) = NewRow(r, db)
BY DEF NewRow

LEMMA ResultTables ==
    ASSUME db \in Database, NEW r, Writable(r), NEW x, x = Result(r)
    PROVE  /\ x \in Database
           /\ r.table # "shift" => \A s \in Shifts : x.shift[s] = db.shift[s]
           /\ r.table = "shift" =>
                \A s \in Shifts :
                  x.shift[s] = IF s = r.key THEN NewRow(r, db)
                               ELSE IF s \in Cleared(r) \cap Present(db.shift)
                               THEN [db.shift[s] EXCEPT !.is_default = FALSE]
                               ELSE db.shift[s]
           /\ r.table = "emp" =>
                \A e \in Employees :
                  x.emp[e] = IF e = r.key THEN NewRow(r, db) ELSE db.emp[e]
           /\ r.table # "emp" =>
                \A e \in Employees :
                  \/ x.emp[e] = db.emp[e]
                  \/ db.emp[e] # None /\ x.emp[e] = [db.emp[e] EXCEPT !.group = None]
<1> DEFINE S == Cleared(r) \cap Present(db.shift)
           u == Unset(S)
           d == Detached(r, u)
<1>1. S \in SUBSET Present(db.shift)
  OBVIOUS
<1>2. u = Unset(S) /\ d = Detached(r, u)
  OBVIOUS
<1>3. S = Cleared(r) \cap Present(db.shift)
  OBVIOUS
<1>4. x = IF r.table = "papers" THEN [d EXCEPT !.papers[r.key] = @ \cup {r.row.kind}]
          ELSE [d EXCEPT ![r.table][r.key] = NewRow(r, d)]
  BY DEF Result
<1> HIDE DEF S, u, d
<1>5. TableRequest(r) \/ PaperRequest(r)
  BY DEF Writable
<1>6. /\ u \in Database
      /\ u.emp = db.emp /\ u.grp = db.grp /\ u.over = db.over /\ u.papers = db.papers
      /\ \A s \in Shifts :
           u.shift[s] = IF s \in S THEN [db.shift[s] EXCEPT !.is_default = FALSE]
                        ELSE db.shift[s]
  BY <1>1, <1>2, UnsetTables
<1>7. /\ d \in Database
      /\ d.grp = u.grp /\ d.shift = u.shift /\ d.papers = u.papers
      /\ r.table # "grp" => d.emp = u.emp
      /\ r.table # "emp" => d.over = u.over
      /\ \A e \in Employees :
           \/ d.emp[e] = u.emp[e]
           \/ u.emp[e] # None /\ d.emp[e] = [u.emp[e] EXCEPT !.group = None]
  BY <1>2, <1>5, <1>6, DetachedTables
<1>8. /\ r.key \notin S
      /\ r.table # "shift" => S = {}
  BY <1>3, ClearedTables
<1>11. ASSUME NEW e \in Employees
       PROVE  \/ d.emp[e] = db.emp[e]
              \/ db.emp[e] # None /\ d.emp[e] = [db.emp[e] EXCEPT !.group = None]
  <2>1. u.emp[e] = db.emp[e]
    BY <1>6
  <2> QED BY <1>7, <2>1
<1>12. r.table # "shift" => \A s \in Shifts : d.shift[s] = db.shift[s]
  BY <1>6, <1>7, <1>8
<1>13. d \in Database
  BY <1>7
<1>9. CASE PaperRequest(r)
  <2>1. r.table = "papers" /\ r.key \in Employees
    BY <1>9 DEF PaperRequest
  <2>2. PICK p \in Papers : r.row = [kind |-> p]
    BY <1>9 DEF PaperRequest
  <2>3. x = [d EXCEPT !.papers[r.key] = @ \cup {p}]
    BY <1>4, <2>1, <2>2
  <2>4. x \in Database /\ x.emp = d.emp /\ x.shift = d.shift
    BY <1>13, <2>1, <2>3 DEF Database, Rows
  <2> QED BY <1>11, <1>12, <2>1, <2>4
<1>10. CASE TableRequest(r)
  <2> DEFINE row == NewRow(r, d)
  <2>0. row = NewRow(r, d)
    OBVIOUS
  <2>1. row \in Row[r.table] \cup {None}
    BY <1>7, <1>10, NewRowType
  <2>2. x = [d EXCEPT ![r.table][r.key] = row]
    BY <1>4, <1>10 DEF TableRequest, TableNames
  <2> HIDE DEF row
  <2>3. CASE r.table = "emp"
    <3>1. r.key \in Employees /\ row \in Employee \cup {None} /\ x = [d EXCEPT !["emp"][r.key] = row]
      BY <1>10, <2>1, <2>2, <2>3 DEF TableRequest, Ids, Row
    <3>2. x \in Database /\ x.emp = [d.emp EXCEPT ![r.key] = row] /\ x.shift = d.shift
      BY <1>13, <3>1 DEF Database, Rows
    <3>3. d.emp = db.emp
      BY <1>6, <1>7, <2>3
    <3>4. row = NewRow(r, db)
      BY <2>0, <2>3, <3>3, SameNewRow
    <3>5. \A e \in Employees : x.emp[e] = IF e = r.key THEN row ELSE db.emp[e]
      BY <3>2, <3>3, Tables DEF Rows
    <3> QED BY <1>12, <2>3, <3>2, <3>4, <3>5
  <2>4. CASE r.table = "grp"
    <3>1. r.key \in Groups /\ row \in Group \cup {None} /\ x = [d EXCEPT !["grp"][r.key] = row]
      BY <1>10, <2>1, <2>2, <2>4 DEF TableRequest, Ids, Row
    <3>2. x \in Database /\ x.emp = d.emp /\ x.shift = d.shift
      BY <1>13, <3>1 DEF Database, Rows
    <3> QED BY <1>11, <1>12, <2>4, <3>2
  <2>5. CASE r.table = "over"
    <3>1. r.key \in Employees /\ row \in Override \cup {None} /\ x = [d EXCEPT !["over"][r.key] = row]
      BY <1>10, <2>1, <2>2, <2>5 DEF TableRequest, Ids, Row
    <3>2. x \in Database /\ x.emp = d.emp /\ x.shift = d.shift
      BY <1>13, <3>1 DEF Database, Rows
    <3> QED BY <1>11, <1>12, <2>5, <3>2
  <2>6. CASE r.table = "shift"
    <3>1. r.key \in Shifts /\ row \in Shift \cup {None} /\ x = [d EXCEPT !["shift"][r.key] = row]
      BY <1>10, <2>1, <2>2, <2>6 DEF TableRequest, Ids, Row
    <3>2. x \in Database /\ x.emp = d.emp /\ x.shift = [d.shift EXCEPT ![r.key] = row]
      BY <1>13, <3>1 DEF Database, Rows
    <3>3. d.shift = u.shift /\ d.shift[r.key] = db.shift[r.key]
      BY <1>6, <1>7, <1>8, <3>1
    <3>4. row = NewRow(r, db)
      BY <2>0, <2>6, <3>3, SameNewRow
    <3>5. \A s \in Shifts : x.shift[s] = IF s = r.key THEN row ELSE u.shift[s]
      BY <1>6, <3>2, <3>3, Tables DEF Rows
    <3>6. \A s \in Shifts :
            x.shift[s] = IF s = r.key THEN NewRow(r, db)
                         ELSE IF s \in S THEN [db.shift[s] EXCEPT !.is_default = FALSE]
                         ELSE db.shift[s]
      BY <1>6, <3>4, <3>5
    <3> QED BY <1>3, <1>11, <2>6, <3>2, <3>6
  <2> QED BY <1>10, <2>3, <2>4, <2>5, <2>6 DEF TableRequest, TableNames
<1> QED BY <1>5, <1>9, <1>10

LEMMA CurrentCleared ==
    ASSUME NEW r, Writable(r), Current(r)
    PROVE  Cleared(r) = IF r.claims = None THEN {} ELSE Defaults(db, r.claims) \ {r.key}
BY DEF Current, Cleared, OtherDefaults

\* The request deletes its shift, or leaves it no default in the tables x.
NoDefault(r, x) == /\ r.table = "shift"
                   /\ r.op = "delete" \/ x.shift[r.key].is_default # TRUE

\* The default of the group that a request claims becomes its shift, and only that
\* shift can stop or start being a default in any other group.
LEMMA DefaultsWritten ==
    ASSUME db \in Database, NEW r, Writable(r), Current(r), Found(r),
           NEW x, x = Result(r), NEW g \in Groups
    PROVE  Defaults(x, g) =
             IF r.claims = g THEN {r.key}
             ELSE IF NoDefault(r, x) THEN Defaults(db, g) \ {r.key}
             ELSE Defaults(db, g)
<1>1. CASE r.table # "shift"
  <2>1. r.claims # g
    BY <1>1, RosterAssumption DEF Writable
  <2>2. \A s \in Shifts : x.shift[s] = db.shift[s]
    BY <1>1, ResultTables
  <2> QED BY <1>1, <2>1, <2>2 DEF Defaults, NoDefault
<1>2. CASE r.table = "shift"
  <2> DEFINE key == r.key
             new == NewRow(r, db)
             C   == Cleared(r) \cap Present(db.shift)
  <2>1. \A s \in Shifts :
          x.shift[s] = IF s = key THEN new
                       ELSE IF s \in C THEN [db.shift[s] EXCEPT !.is_default = FALSE]
                       ELSE db.shift[s]
    BY <1>2, ResultTables
  <2>2. /\ key \in Shifts
        /\ \/ r.op = "insert" /\ r.row \in Shift
           \/ r.op = "delete" /\ r.row = None
           \/ r.op = "update"
    BY <1>2 DEF Writable, TableRequest, PaperRequest, Ids, Row
  <2>3. \A s \in Shifts : db.shift[s] \in Shift \cup {None}
    BY Tables DEF Rows
  <2>4. C = IF r.claims = None THEN {} ELSE Defaults(db, r.claims) \ {key}
    BY CurrentCleared DEF Defaults, Present, Database, Rows
  <2>5. r.claims \in Groups \cup {None} /\ (r.claims # None => r.op # "delete")
    BY DEF Writable
  <2>6. r.op = "delete" => new = None
    BY <2>2 DEF NewRow
  <2>7. r.op = "insert" =>
          new \in Shift /\ r.claims = IF new.is_default THEN new.group ELSE None
    BY <1>2, <2>2 DEF NewRow, Current
  <2>8. r.op = "update" =>
          /\ db.shift[key] # None /\ new \in Shift /\ new.group = db.shift[key].group
          /\ r.claims # None => r.claims = db.shift[key].group /\ new.is_default
          /\ r.claims = None => (new.is_default => db.shift[key].is_default)
    BY <1>2 DEF Current
  <2> HIDE DEF new, C, key
  <2>9. ASSUME NEW s \in Shifts, s # key
        PROVE  s \in Defaults(x, g) <=> s \in Defaults(db, g) /\ r.claims # g
    <3>1. CASE s \in C
      <4>1. r.claims # None /\ s \in Defaults(db, r.claims)
        BY <2>4, <3>1
      <4>2. x.shift[s] = [db.shift[s] EXCEPT !.is_default = FALSE]
        BY <2>1, <2>9, <3>1
      <4>3. db.shift[s] \in Shift /\ db.shift[s].group = r.claims
        BY <2>3, <4>1 DEF Defaults
      <4>4. x.shift[s].is_default = FALSE
        BY <4>2, <4>3 DEF Shift
      <4>5. s \notin Defaults(x, g)
        BY <4>4 DEF Defaults
      <4>6. s \in Defaults(db, g) => r.claims = g
        BY <4>3 DEF Defaults
      <4> QED BY <4>5, <4>6
    <3>2. CASE s \notin C
      <4>1. x.shift[s] = db.shift[s]
        BY <2>1, <2>9, <3>2
      <4>2. s \in Defaults(db, g) => r.claims # g
        BY <2>4, <2>9, <3>2, RosterAssumption
      <4> QED BY <4>1, <4>2 DEF Defaults
    <3> QED BY <3>1, <3>2
  <2>10. x.shift[key] = new
    BY <2>1, <2>2
  <2>11. key \in Defaults(x, g) <=> new # None /\ new.group = g /\ new.is_default = TRUE
    BY <2>2, <2>10 DEF Defaults
  <2>12. CASE r.claims = g
    <3>1. new # None /\ new.group = g /\ new.is_default = TRUE
      BY <2>2, <2>5, <2>7, <2>8, <2>12, RosterAssumption DEF Shift
    <3>2. Defaults(x, g) \subseteq Shifts
      BY DEF Defaults
    <3> QED BY <2>2, <2>9, <2>11, <2>12, <3>1, <3>2 DEF key
  <2>15. NoDefault(r, x) <=> r.op = "delete" \/ x.shift[key].is_default # TRUE
    BY <1>2 DEF NoDefault, key
  <2>13. CASE r.claims # g /\ NoDefault(r, x)
    <3>1. key \notin Defaults(x, g)
      BY <2>6, <2>10, <2>11, <2>13, <2>15
    <3>2. Defaults(x, g) \subseteq Shifts /\ Defaults(db, g) \subseteq Shifts
      BY DEF Defaults
    <3>3. Defaults(x, g) = Defaults(db, g) \ {key}
      BY <2>9, <2>13, <3>1, <3>2
    <3> QED BY <1>2, <2>13, <3>3 DEF key
  <2>14. CASE r.claims # g /\ ~NoDefault(r, x)
    <3>1. new \in Shift /\ new.is_default = TRUE
      BY <2>2, <2>7, <2>8, <2>10, <2>14, <2>15
    <3>2. new # None
      BY <3>1, RosterAssumption
    <3>3. (key \in Defaults(x, g)) = (key \in Defaults(db, g))
      <4>1. CASE r.op = "insert"
        <5>1. new.group # g
          BY <2>7, <2>14, <3>1, <4>1
        <5>2. (db.shift[key] = None) = (r.op = "insert")
          BY <1>2, <4>1 DEF Found, key
        <5>3. db.shift[key] = None
          BY <4>1, <5>2
        <5>4. key \notin Defaults(db, g)
          BY <5>3 DEF Defaults
        <5> QED BY <2>11, <5>1, <5>4
      <4>2. CASE r.op = "update"
        <5>1. db.shift[key] \in Shift
          BY <2>2, <2>3, <2>8, <4>2
        <5>2. CASE r.claims = None
          <6>1. db.shift[key].is_default = TRUE
            BY <2>8, <3>1, <4>2, <5>1, <5>2 DEF Shift
          <6> QED BY <2>2, <2>8, <2>11, <3>1, <3>2, <4>2, <6>1 DEF Defaults
        <5>3. CASE r.claims # None
          <6>1. db.shift[key].group # g /\ new.group # g
            BY <2>8, <2>14, <4>2, <5>3
          <6> QED BY <2>11, <6>1 DEF Defaults
        <5> QED BY <5>2, <5>3
      <4> QED BY <2>2, <2>14, <2>15, <4>1, <4>2
    <3>4. Defaults(x, g) \subseteq Shifts /\ Defaults(db, g) \subseteq Shifts
      BY DEF Defaults
    <3>5. Defaults(x, g) = Defaults(db, g)
      BY <2>9, <2>14, <3>3, <3>4
    <3> QED BY <2>14, <3>5 DEF key
  <2> QED BY <2>12, <2>13, <2>14
<1> QED BY <1>1, <1>2

\* Nobody resigns with an account, and no one is given one afterwards.
LEMMA ResignedWritten ==
    ASSUME db \in Database, NEW r, Writable(r), Current(r), NEW x, x = Result(r),
           \A e \in Employees : Gone(e) => db.emp[e].user = None,
           NEW e \in Employees, x.emp[e] # None, x.emp[e].gone
    PROVE  x.emp[e].user = None
<1>1. db.emp[e] \in Employee \cup {None}
  BY Tables DEF Rows
<1>2. CASE r.table # "emp"
  <2>1. CASE x.emp[e] = db.emp[e]
    BY <2>1 DEF Gone
  <2>2. CASE db.emp[e] # None /\ x.emp[e] = [db.emp[e] EXCEPT !.group = None]
    <3>1. db.emp[e] \in Employee
      BY <1>1, <2>2
    <3>2. x.emp[e].gone = db.emp[e].gone /\ x.emp[e].user = db.emp[e].user
      BY <2>2, <3>1 DEF Employee
    <3> QED BY <2>2, <3>2 DEF Gone
  <2> QED BY <1>2, <2>1, <2>2, ResultTables
<1>3. CASE r.table = "emp"
  <2>1. x.emp[e] = IF e = r.key THEN NewRow(r, db) ELSE db.emp[e]
    BY <1>3, ResultTables
  <2>2. CASE e # r.key
    BY <2>1, <2>2 DEF Gone
  <2>3. CASE e = r.key
    <3>1. r.op \in {"insert", "delete", "update"} /\ (r.op = "delete" => r.row = None)
      BY <1>3 DEF Writable, TableRequest, PaperRequest
    <3>2. CASE r.op = "update"
      BY <1>3, <2>1, <2>3, <3>2 DEF Current
    <3>3. CASE r.op # "update"
      <4>1. x.emp[e] = r.row
        BY <2>1, <2>3, <3>3 DEF NewRow
      <4> QED BY <1>3, <3>1, <3>3, <4>1 DEF Current
    <3> QED BY <3>2, <3>3
  <2> QED BY <2>2, <2>3
<1> QED BY <1>2, <1>3

---------------------------------------------------------------------------
(* The inductive invariant: what each thread has loaded and the tables hold  *)
(* what the checks of its handler asked for, until another request commits.  *)

InFlight == \A w \in Workers :
               req[w] # Idle => /\ Writable(req[w])
                                /\ req[w].fresh => Current(req[w])

IInv == /\ db \in Database
        /\ Consistent(db)
        /\ due \in [Groups -> Shifts \cup {None}]
        /\ raced \in BOOLEAN
        /\ req = [w \in Workers |-> req[w]]
        /\ InFlight
        /\ ResignedUnlinked
        /\ DefaultAsAsked

\* A request that no other one has overtaken since it loaded its rows writes what
\* the invariant asks of the tables.
LEMMA ApplyKeeps ==
    ASSUME IInv, NEW r, Writable(r), r.fresh => Current(r), Apply(r)
    PROVE  /\ db' \in Database
           /\ Consistent(db')
           /\ due' \in [Groups -> Shifts \cup {None}]
           /\ raced' \in BOOLEAN
           /\ ResignedUnlinked'
           /\ DefaultAsAsked'
<1> USE DEF IInv
<1>1. db' = Result(r) /\ Consistent(db') /\ Found(r)
  BY DEF Apply
<1>2. db' \in Database
  BY <1>1, ResultTables
<1>3. raced' = (raced \/ ~r.fresh) /\ raced' \in BOOLEAN
  BY DEF Apply
<1>4. due' = [g \in Groups |-> IF raced' THEN None ELSE Asked(r, g)]
  BY DEF Apply
<1>5. ASSUME NEW g \in Groups PROVE Asked(r, g) \in Shifts \cup {None}
  <2>1. r.claims = g => r.key \in Shifts
    BY RosterAssumption DEF Writable, TableRequest, PaperRequest, Ids
  <2> QED BY <2>1 DEF Asked
<1>6. due' \in [Groups -> Shifts \cup {None}]
  BY <1>4, <1>5
<1>7. ResignedUnlinked'
  <2>1. SUFFICES ASSUME ~raced', NEW e \in Employees, db'.emp[e] # None, db'.emp[e].gone
                 PROVE  db'.emp[e].user = None
    BY DEF ResignedUnlinked, Gone
  <2>2. Current(r) /\ ~raced
    BY <1>3, <2>1
  <2>3. \A f \in Employees : Gone(f) => db.emp[f].user = None
    BY <2>2 DEF ResignedUnlinked
  <2> QED BY <1>1, <2>1, <2>2, <2>3, ResignedWritten
<1>8. DefaultAsAsked'
  <2>1. SUFFICES ASSUME ~raced', NEW g \in Groups
                 PROVE  Defaults(db', g) = {due'[g]} \ {None}
    BY DEF DefaultAsAsked
  <2>2. Current(r) /\ ~raced
    BY <1>3, <2>1
  <2>3. Defaults(db, g) = {due[g]} \ {None}
    BY <2>2 DEF DefaultAsAsked
  <2>4. Defaults(db', g) =
          IF r.claims = g THEN {r.key}
          ELSE IF NoDefault(r, db') THEN Defaults(db, g) \ {r.key}
          ELSE Defaults(db, g)
    BY <1>1, <2>2, DefaultsWritten
  <2>5. due'[g] = Asked(r, g)
    BY <1>4, <2>1
  <2>6. CASE r.claims = g
    <3>1. r.key \in Shifts /\ due'[g] = r.key
      BY <2>5, <2>6, RosterAssumption DEF Asked, Writable, TableRequest, PaperRequest, Ids
    <3> QED BY <2>4, <2>6, <3>1, RosterAssumption
  <2>7. CASE r.claims # g /\ NoDefault(r, db')
    <3>1. due'[g] = IF r.key = due[g] THEN None ELSE due[g]
      BY <2>5, <2>7 DEF Asked, NoDefault
    <3> QED BY <2>3, <2>4, <2>7, <3>1
  <2>8. CASE r.claims # g /\ ~NoDefault(r, db')
    <3>1. due'[g] = due[g]
      BY <2>5, <2>8 DEF Asked, NoDefault
    <3> QED BY <2>3, <2>4, <2>8, <3>1
  <2> QED BY <2>6, <2>7, <2>8
<1> QED BY <1>1, <1>2, <1>3, <1>6, <1>7, <1>8

\* A commit that changes the tables overtakes what the other threads have loaded.
LEMMA OvertakenKeeps ==
    ASSUME IInv, NEW w, req' = Overtaken(w)
    PROVE  InFlight' /\ req' = [x \in Workers |-> req'[x]]
<1> USE DEF IInv
<1>1. req' = [x \in Workers |->
                IF x = w THEN Idle
                ELSE IF req[x] = Idle \/ db' = db THEN req[x]
                ELSE [req[x] EXCEPT !.fresh = FALSE]]
  BY DEF Overtaken
<1>2. ASSUME NEW x \in Workers, NEW p, p = req'[x], p # Idle
      PROVE  Writable(p) /\ (p.fresh => Current(p)')
  <2> DEFINE q == req[x]
  <2>1. q # Idle /\ Writable(q) /\ (q.fresh => Current(q))
    BY <1>1, <1>2 DEF InFlight
  <2>2. \/ p = q /\ db' = db
        \/ p = [q EXCEPT !.fresh = FALSE]
    BY <1>1, <1>2, <2>1
  <2> HIDE DEF q
  <2>3. CASE p = q /\ db' = db
    <3>1. Current(p) => Current(p)'
      BY <2>3 DEF Current, NewRow, OtherDefaults, Defaults
    <3> QED BY <2>1, <2>3, <3>1
  <2>4. CASE p = [q EXCEPT !.fresh = FALSE]
    <3>1. Shape(q)
      BY <2>1 DEF Writable
    <3>2. /\ Shape(p) /\ ~p.fresh
          /\ p.op = q.op /\ p.table = q.table /\ p.key = q.key /\ p.row = q.row
          /\ p.claims = q.claims /\ p.cleared = q.cleared
      BY <2>4, <3>1, Staling
    <3>3. Writable(p)
      BY <2>1, <3>2 DEF Writable, TableRequest, PaperRequest
    <3> QED BY <3>2, <3>3
  <2> QED BY <2>2, <2>3, <2>4
<1> QED BY <1>1, <1>2 DEF InFlight

LEMMA InitHolds == Init => IInv
<1> SUFFICES ASSUME Init PROVE IInv
  OBVIOUS
<1>1. db \in Database
  BY DEF Init, Database, Rows
<1>2. \A g \in Groups : Defaults(db, g) = {}
  BY DEF Init, Defaults
<1>3. OneDefaultIndex(db)
  BY <1>2, FS_EmptySet DEF OneDefaultIndex
<1>4. Consistent(db)
  BY <1>3 DEF Init, Consistent, Present
<1>5. req = [w \in Workers |-> req[w]] /\ InFlight
  BY DEF Init, InFlight
<1>6. ResignedUnlinked
  BY DEF Init, ResignedUnlinked, Gone
<1>7. DefaultAsAsked
  BY <1>2 DEF Init, DefaultAsAsked
<1> QED BY <1>1, <1>4, <1>5, <1>6, <1>7 DEF Init, IInv

\* A day that goes by changes no row that a request or a default is about.
LEMMA TomorrowKeeps ==
    ASSUME IInv, NEW e \in Employees, Tomorrow(e)
    PROVE  IInv'
<1> USE DEF IInv
<1>1. PICK p \in Phases : db' = [db EXCEPT !.over[e].phase = p]
  BY DEF Tomorrow, Phases
<1>2. db.over[e] \in Override /\ db.over[e] # None
  BY Tables DEF Tomorrow, Rows
<1> DEFINE row == [db.over[e] EXCEPT !.phase = p]
           New == [db.over EXCEPT ![e] = row]
<1>3. row \in Override /\ row.shift = db.over[e].shift
  BY <1>2 DEF Override
<1> HIDE DEF row
<1>4. New \in Rows(Employees, Override)
  BY <1>3, Tables DEF Rows
<1>5. \A f \in Employees : New[f] = IF f = e THEN row ELSE db.over[f]
  BY Tables DEF Rows
<1>6. db' = [db EXCEPT !.over = New]
  BY <1>1 DEF row
<1> HIDE DEF New
<1>7. /\ db' \in Database /\ db'.over = New
      /\ db'.emp = db.emp /\ db'.grp = db.grp /\ db'.shift = db.shift
      /\ db'.papers = db.papers
  BY <1>4, <1>6 DEF Database
<1>8. \A g : Defaults(db', g) = Defaults(db, g)
  BY <1>7 DEF Defaults
<1>9. Consistent(db')
  <2>1. ASSUME NEW f \in Employees, db'.over[f] # None
        PROVE  db'.emp[f] # None /\ db'.shift[db'.over[f].shift] # None
    <3>1. db.over[f] # None /\ db'.over[f].shift = db.over[f].shift
      BY <1>2, <1>3, <1>5, <1>7, <2>1
    <3> QED BY <1>7, <3>1 DEF Consistent
  <2>2. OneDefaultIndex(db')
    BY <1>8 DEF Consistent, OneDefaultIndex
  <2> QED BY <1>7, <2>1, <2>2 DEF Consistent, Present
<1>10. UNCHANGED <<req, due, raced>>
  BY DEF Tomorrow
<1>11. ASSUME NEW r, Writable(r), Current(r) PROVE Current(r)'
  <2>1. r.table \in {"emp", "shift"} => NewRow(r, db') = NewRow(r, db)
    BY <1>7 DEF NewRow
  <2>2. OtherDefaults(r)' = OtherDefaults(r)
    BY <1>8 DEF OtherDefaults
  <2> QED BY <1>7, <1>11, <2>1, <2>2 DEF Current
<1>12. InFlight'
  <2>1. ASSUME NEW w \in Workers, NEW r, r = req'[w], r # Idle
        PROVE  Writable(r) /\ (r.fresh => Current(r)')
    BY <1>10, <1>11, <2>1 DEF InFlight
  <2> QED BY <2>1 DEF InFlight
<1>13. ResignedUnlinked'
  BY <1>7, <1>10 DEF ResignedUnlinked, Gone
<1>14. DefaultAsAsked'
  BY <1>8, <1>10 DEF DefaultAsAsked
<1> QED BY <1>7, <1>9, <1>10, <1>12, <1>13, <1>14

LEMMA Inductive == IInv /\ [Next]_vars => IInv'
<1> SUFFICES ASSUME IInv, [Next]_vars PROVE IInv'
  OBVIOUS
<1>1. ASSUME Serve PROVE IInv'
  <2>1. PICK r \in Accepted : Apply(r)
    BY <1>1 DEF Serve
  <2>2. Writable(r) /\ Current(r)
    BY <2>1, AcceptedSound DEF Sound, IInv
  <2>3. InFlight' /\ req' = [x \in Workers |-> req'[x]]
    BY <1>1, OvertakenKeeps DEF Serve
  <2> QED BY <2>1, <2>2, <2>3, ApplyKeeps DEF IInv
<1>2. ASSUME NEW w \in Workers, Load(w) PROVE IInv'
  <2>1. PICK r \in Accepted : req' = [req EXCEPT ![w] = r]
    BY <1>2 DEF Load
  <2>2. UNCHANGED <<db, due, raced>>
    BY <1>2 DEF Load
  <2>3. Writable(r) /\ Current(r)
    BY <2>1, AcceptedSound DEF Sound, IInv
  <2>4. req' = [x \in Workers |-> IF x = w THEN r ELSE req[x]]
    BY <2>1 DEF IInv
  <2>5. InFlight'
    <3>1. ASSUME NEW x \in Workers, NEW q, q = req'[x], q # Idle
          PROVE  Writable(q) /\ (q.fresh => Current(q)')
      <4>1. Writable(q) /\ (q.fresh => Current(q))
        BY <2>3, <2>4, <3>1 DEF IInv, InFlight
      <4>2. Current(q) => Current(q)'
        BY <2>2 DEF Current, NewRow, OtherDefaults, Defaults
      <4> QED BY <4>1, <4>2
    <3> QED BY <3>1 DEF InFlight
  <2> QED BY <2>2, <2>4, <2>5 DEF IInv, ResignedUnlinked, Gone, DefaultAsAsked, Defaults
<1>3. ASSUME NEW w \in Workers, ClearOtherDefaults(w) PROVE IInv'
  <2> DEFINE p == req[w]
             S == OtherDefaults(p)
             q == [p EXCEPT !.cleared = S]
  <2>1. p.claims # None /\ p.cleared = None /\ UNCHANGED <<db, due, raced>>
    BY <1>3 DEF ClearOtherDefaults
  <2>2. p # Idle
    BY <2>1 DEF Idle, Request
  <2>3. Writable(p) /\ (p.fresh => Current(p))
    BY <2>2 DEF IInv, InFlight
  <2>4. req' = [x \in Workers |-> IF x = w THEN q ELSE req[x]]
    BY <1>3 DEF ClearOtherDefaults, IInv
  <2>5. S \subseteq Shifts \ {p.key}
    BY DEF OtherDefaults, Defaults
  <2>6. q = [p EXCEPT !.cleared = S]
    OBVIOUS
  <2>7. S = OtherDefaults(p)
    OBVIOUS
  <2> HIDE DEF p, S, q
  <2>8. /\ Shape(q)
        /\ q.op = p.op /\ q.table = p.table /\ q.key = p.key /\ q.row = p.row
        /\ q.claims = p.claims /\ q.cleared = S /\ q.fresh = p.fresh
    BY <2>3, <2>6, Clearing DEF Writable
  <2>9. Writable(q)
    BY <2>1, <2>3, <2>5, <2>8 DEF Writable, TableRequest, PaperRequest
  <2>10. q.fresh => Current(q)
    <3>1. NewRow(q, db) = NewRow(p, db) /\ OtherDefaults(q) = OtherDefaults(p)
      BY <2>8 DEF NewRow, OtherDefaults
    <3> QED BY <2>3, <2>7, <2>8, <3>1 DEF Current
  <2>11. InFlight'
    <3>1. ASSUME NEW x \in Workers, NEW r, r = req'[x], r # Idle
          PROVE  Writable(r) /\ (r.fresh => Current(r)')
      <4>1. Writable(r) /\ (r.fresh => Current(r))
        BY <2>4, <2>9, <2>10, <3>1 DEF IInv, InFlight
      <4>2. Current(r) => Current(r)'
        BY <2>1 DEF Current, NewRow, OtherDefaults, Defaults
      <4> QED BY <4>1, <4>2
    <3> QED BY <3>1 DEF InFlight
  <2> QED BY <2>1, <2>4, <2>11 DEF IInv, ResignedUnlinked, Gone, DefaultAsAsked, Defaults
<1>4. ASSUME NEW w \in Workers, Commit(w) PROVE IInv'
  <2>1. Writable(req[w]) /\ (req[w].fresh => Current(req[w])) /\ Apply(req[w])
    BY <1>4 DEF Commit, IInv, InFlight
  <2>2. InFlight' /\ req' = [x \in Workers |-> req'[x]]
    BY <1>4, OvertakenKeeps DEF Commit
  <2> QED BY <2>1, <2>2, ApplyKeeps DEF IInv
<1>5. ASSUME NEW w \in Workers, Fail(w) PROVE IInv'
  <2>1. UNCHANGED <<db, due, raced>>
    BY <1>5 DEF Fail
  <2>2. req' = [x \in Workers |-> IF x = w THEN Idle ELSE req[x]]
    BY <1>5 DEF Fail, IInv
  <2>3. InFlight'
    <3>1. ASSUME NEW x \in Workers, NEW q, q = req'[x], q # Idle
          PROVE  Writable(q) /\ (q.fresh => Current(q)')
      <4>1. Writable(q) /\ (q.fresh => Current(q))
        BY <2>2, <3>1 DEF IInv, InFlight
      <4>2. Current(q) => Current(q)'
        BY <2>1 DEF Current, NewRow, OtherDefaults, Defaults
      <4> QED BY <4>1, <4>2
    <3> QED BY <3>1 DEF InFlight
  <2> QED BY <2>1, <2>2, <2>3 DEF IInv, ResignedUnlinked, Gone, DefaultAsAsked, Defaults
<1>6. ASSUME NEW e \in Employees, Tomorrow(e) PROVE IInv'
  BY <1>6, TomorrowKeeps
<1>7. ASSUME UNCHANGED vars PROVE IInv'
  <2>1. db' = db /\ req' = req /\ due' = due /\ raced' = raced
    BY <1>7 DEF vars
  <2>2. InFlight'
    <3>1. ASSUME NEW x \in Workers, NEW q, q = req'[x], q # Idle
          PROVE  Writable(q) /\ (q.fresh => Current(q)')
      <4>1. Writable(q) /\ (q.fresh => Current(q))
        BY <2>1, <3>1 DEF IInv, InFlight
      <4>2. Current(q) => Current(q)'
        BY <2>1 DEF Current, NewRow, OtherDefaults, Defaults
      <4> QED BY <4>1, <4>2
    <3> QED BY <3>1 DEF InFlight
  <2> QED BY <2>1, <2>2 DEF IInv, ResignedUnlinked, Gone, DefaultAsAsked, Defaults
<1> QED BY <1>1, <1>2, <1>3, <1>4, <1>5, <1>6, <1>7 DEF Next

LEMMA Invariant == Spec => []IInv
BY InitHolds, Inductive, PTL DEF Spec

---------------------------------------------------------------------------
(* The theorems. *)

\* Whatever requests overlap, each table holds rows of its own columns and the
\* default asked for last is a shift.
THEOREM TypeCorrect == Spec => []TypeOK
<1>1. IInv => TypeOK
  BY DEF IInv, TypeOK
<1> QED BY <1>1, Invariant, PTL

\* Who has resigned has no account, unless a request committed over rows that
\* another had changed.
THEOREM ResignedHaveNoAccount == Spec => []ResignedUnlinked
<1>1. IInv => ResignedUnlinked
  BY DEF IInv
<1> QED BY <1>1, Invariant, PTL

\* The default shift of a group is the one last asked for, unless requests
\* overlapped.
THEOREM DefaultIsTheLastAsked == Spec => []DefaultAsAsked
<1>1. IInv => DefaultAsAsked
  BY DEF IInv
<1> QED BY <1>1, Invariant, PTL
===========================================================================
