---------------------------- MODULE LeaveProofs ----------------------------
(***************************************************************************)
(* Unless a request was overtaken by another one, no day of leave is       *)
(* granted twice, an employee is told of the decision that stands and the  *)
(* balance of a year counts its days, for any number of employees,         *)
(* threads, days and requests.                                             *)
(***************************************************************************)
EXTENDS Leave, Integers, FiniteSetTheorems, WellFoundedInduction, TLAPS

Request == [id : Ids \cup {None}, row : LeaveRow, fresh : BOOLEAN,
            push : {None, "approved", "rejected", "admin_created"}]

\* What an insertion has checked: nothing live overlaps.
InsertSound(r) ==
    /\ r.push = None \/ (r.push = "admin_created" /\ r.row.status = "APPROVED")
    /\ r.fresh => ~Overlaps(r.row.employee, <<r.row.start, r.row.end>>)

\* What a decision has checked: the row is pending.
DecisionSound(r) ==
    /\ r.id \in Present
    /\ \/ r.push = "approved" /\ r.row.status = "APPROVED"
       \/ r.push = "rejected" /\ r.row.status = "REJECTED"
    /\ r.fresh => /\ leave[r.id].status = "PENDING"
                  /\ r.row.employee = leave[r.id].employee
                  /\ r.row.start = leave[r.id].start
                  /\ r.row.end = leave[r.id].end

Sound(r) == /\ r \in Request
            /\ r.id = None => InsertSound(r)
            /\ r.id # None => DecisionSound(r)

TypeInv == /\ leave \in [Ids -> LeaveRow \cup {None}]
           /\ told \in [Ids -> SUBSET {"approved", "rejected", "admin_created"}]

\* Before a decision nothing was pushed, before an insertion neither.
Quiet == /\ \A i \in Ids \ Present : told[i] = {}
         /\ \A i \in Present \ raced : leave[i].status = "PENDING" => told[i] = {}

\* What a request has checked holds as long as it is fresh: every commit makes
\* the requests in flight stale.
IInv == /\ TypeInv
        /\ Quiet
        /\ NoDayTwice
        /\ ToldWhatStands
        /\ req \in [Workers -> Request \cup {None}]
        /\ \A w \in Workers : req[w] # None => Sound(req[w])

---------------------------------------------------------------------------
LEMMA InitIInv == LeaveInit => IInv
BY DEF LeaveInit, IInv, TypeInv, Quiet, NoDayTwice, ToldWhatStands, Present

\* What passes its checks is sound.
LEMMA AcceptedSound ==
    ASSUME TypeInv, NEW r \in Accepted
    PROVE  Sound(r)
<1>1. ASSUME NEW e \in Employees, r \in CreateLeaveRequest(e) PROVE Sound(r)
  <2>1. PICK p \in Periods, t \in {"PAID", "UNPAID"} :
            /\ ~Overlaps(e, p)
            /\ r = [id |-> None, push |-> None, fresh |-> TRUE,
                    row |-> [employee |-> e, type |-> t, start |-> p[1], end |-> p[2],
                             status |-> "PENDING"]]
    BY <1>1 DEF CreateLeaveRequest, Write, Asked
  <2>2. p = <<p[1], p[2]>> /\ p[1] \in Days /\ p[2] \in Days
    BY DEF Periods
  <2>3. r \in Request
    BY <2>1, <2>2 DEF Request, LeaveRow
  <2> QED BY <2>1, <2>2, <2>3 DEF Sound, InsertSound
<1>2. ASSUME NEW e \in Employees, r \in AdminCreate(e) PROVE Sound(r)
  <2>1. PICK p \in Periods, t \in {"PAID", "UNPAID"}, s \in {"PENDING", "APPROVED"} :
            /\ ~Overlaps(e, p)
            /\ r = [id |-> None, fresh |-> TRUE,
                    push |-> IF s = "APPROVED" THEN "admin_created" ELSE None,
                    row |-> [employee |-> e, type |-> t, start |-> p[1], end |-> p[2],
                             status |-> s]]
    BY <1>2 DEF AdminCreate, Write, Asked
  <2>2. p = <<p[1], p[2]>> /\ p[1] \in Days /\ p[2] \in Days
    BY DEF Periods
  <2>3. r \in Request
    BY <2>1, <2>2 DEF Request, LeaveRow
  <2> QED BY <2>1, <2>2, <2>3 DEF Sound, InsertSound
<1>3. ASSUME NEW i \in Present, r \in Approve(i) \cup Reject(i) PROVE Sound(r)
  <2>1. PICK d \in {<<"approved", "APPROVED">>, <<"rejected", "REJECTED">>} :
            /\ leave[i].status = "PENDING"
            /\ r = [id |-> i, row |-> [leave[i] EXCEPT !.status = d[2]],
                    push |-> d[1], fresh |-> TRUE]
    BY <1>3 DEF Approve, Reject, Write
  <2>2. i \in Ids /\ i # None /\ leave[i] \in LeaveRow
    BY NoneAssumption, LeaveAssumption DEF Present, TypeInv, Ids
  <2>3. r \in Request
    BY <2>1, <2>2 DEF Request, LeaveRow
  <2>4. /\ r.row.status = d[2] /\ r.push = d[1] /\ r.id = i
        /\ r.row.employee = leave[i].employee
        /\ r.row.start = leave[i].start
        /\ r.row.end = leave[i].end
    BY <2>1, <2>2 DEF LeaveRow
  <2> QED BY <2>1, <2>2, <2>3, <2>4 DEF Sound, DecisionSound
<1>4. \/ \E e \in Employees : r \in CreateLeaveRequest(e) \cup AdminCreate(e)
      \/ \E i \in Present : r \in Approve(i) \cup Reject(i)
  BY Zenon DEF Accepted
<1> QED BY <1>1, <1>2, <1>3, <1>4

---------------------------------------------------------------------------
(* A write. *)

\* What a write does to the rows, whichever request it is.
LEMMA Written ==
    ASSUME TypeInv, Quiet, NEW r, Sound(r), Apply(r)
    PROVE  \E i \in Ids :
              /\ leave' = [leave EXCEPT ![i] = r.row]
              /\ r.id = None => i \notin Present
              /\ r.id # None => i = r.id
              /\ Present' = Present \cup {i}
              /\ raced' = (IF r.fresh THEN raced ELSE raced \cup {i})
              /\ told' = Pushed(i, r)
<1>1. PICK i \in Ids :
        /\ IF r.id = None THEN leave[i] = None /\ Present = 1..(i - 1) ELSE i = r.id
        /\ leave' = [leave EXCEPT ![i] = r.row]
        /\ raced' = (IF r.fresh THEN raced ELSE raced \cup {i})
        /\ told' = Pushed(i, r)
  BY DEF Apply
<1>2. r.row \in LeaveRow /\ r.row # None
  BY NoneAssumption DEF Sound, Request
<1>3. Present' = Present \cup {i}
  BY <1>1, <1>2 DEF Present, TypeInv
<1> QED BY <1>1, <1>3 DEF Present

LEMMA WriteTypes ==
    ASSUME TypeInv, Quiet, NEW r, Sound(r), Apply(r)
    PROVE  TypeInv'
BY Written DEF Sound, Request, TypeInv, Pushed

\* Told of the decision that stands.
LEMMA WriteTold ==
    ASSUME TypeInv, Quiet, ToldWhatStands, NEW r, Sound(r), Apply(r)
    PROVE  Quiet' /\ ToldWhatStands'
<1>1. PICK i \in Ids :
              /\ leave' = [leave EXCEPT ![i] = r.row]
              /\ r.id = None => i \notin Present
              /\ r.id # None => i = r.id
              /\ Present' = Present \cup {i}
              /\ raced' = (IF r.fresh THEN raced ELSE raced \cup {i})
              /\ told' = Pushed(i, r)
  BY Written
<1>2. /\ \A j \in Ids \ {i} : leave'[j] = leave[j] /\ told'[j] = told[j]
      /\ leave'[i] = r.row
      /\ told'[i] = IF r.push = None THEN told[i] ELSE told[i] \cup {r.push}
  BY <1>1 DEF TypeInv, Pushed
<1>3. CASE ~r.fresh
  BY <1>1, <1>2, <1>3 DEF Quiet, ToldWhatStands, Present
<1>4. CASE r.fresh /\ r.id = None
  <2>1. told[i] = {} /\ InsertSound(r)
    BY <1>1, <1>4 DEF Quiet, Sound
  <2> QED BY <1>1, <1>2, <1>4, <2>1 DEF Quiet, ToldWhatStands, InsertSound, Present
<1>5. CASE r.fresh /\ r.id # None
  <2>1. DecisionSound(r) /\ i = r.id
    BY <1>1, <1>5 DEF Sound
  <2>2. i \in Present \ raced => told[i] = {}
    BY <1>5, <2>1 DEF Quiet, DecisionSound
  <2> QED BY <1>1, <1>2, <1>5, <2>1, <2>2 DEF Quiet, ToldWhatStands, DecisionSound, Present
<1>6. r.fresh \in BOOLEAN
  BY DEF Sound, Request
<1> QED BY <1>3, <1>4, <1>5, <1>6

\* No day twice.
LEMMA WriteDays ==
    ASSUME TypeInv, Quiet, NoDayTwice, NEW r, Sound(r), Apply(r)
    PROVE  NoDayTwice'
<1>1. PICK i \in Ids :
              /\ leave' = [leave EXCEPT ![i] = r.row]
              /\ r.id = None => i \notin Present
              /\ r.id # None => i = r.id
              /\ Present' = Present \cup {i}
              /\ raced' = (IF r.fresh THEN raced ELSE raced \cup {i})
  BY Written
<1>2. leave'[i] = r.row /\ \A j \in Ids \ {i} : leave'[j] = leave[j]
  BY <1>1 DEF TypeInv
<1> DEFINE Clash(a, b) == /\ a.status \in {"PENDING", "APPROVED"}
                          /\ b.status \in {"PENDING", "APPROVED"}
                          /\ a.employee = b.employee
                          /\ \E d \in Days : Covers(a, d) /\ Covers(b, d)
<1>3. ASSUME NEW j \in Present, NEW k \in Present,
             j \notin raced, k \notin raced, j # k
      PROVE  ~Clash(leave[j], leave[k])
  BY <1>3 DEF NoDayTwice, Live, Covers
<1>4. ASSUME NEW j \in Present, j \notin raced, j # i, r.fresh, i \notin raced'
      PROVE  ~Clash(leave[j], r.row) /\ ~Clash(r.row, leave[j])
  <2>1. CASE r.id = None
    <3>1. ~Overlaps(r.row.employee, <<r.row.start, r.row.end>>)
      BY <1>4, <2>1 DEF Sound, InsertSound
    <3>2. leave[j] \in LeaveRow /\ r.row \in LeaveRow
      BY <1>4 DEF Present, TypeInv, Sound, Request
    <3>3. /\ leave[j].start \in Nat /\ leave[j].end \in Nat
          /\ r.row.start \in Nat /\ r.row.end \in Nat
      BY <3>2 DEF LeaveRow, Days
    <3>4. (/\ leave[j].status \in {"PENDING", "APPROVED"}
           /\ leave[j].employee = r.row.employee)
          => ~(leave[j].start <= r.row.end /\ leave[j].end >= r.row.start)
      BY <1>4, <3>1 DEF Overlaps, Live
    <3> QED BY <3>3, <3>4 DEF Covers, Days
  <2>2. CASE r.id # None
    <3>1. /\ i \in Present /\ leave[i].status = "PENDING"
          /\ r.row.employee = leave[i].employee
          /\ r.row.start = leave[i].start
          /\ r.row.end = leave[i].end
      BY <1>1, <1>4, <2>2 DEF Sound, DecisionSound
    <3>2. i \notin raced
      BY <1>1, <1>4
    <3>3. ~Clash(leave[j], leave[i]) /\ ~Clash(leave[i], leave[j])
      BY <1>3, <1>4, <3>1, <3>2
    <3> QED BY <3>1, <3>3 DEF Covers
  <2> QED BY <2>1, <2>2
<1>5. ASSUME NEW j \in Present', NEW k \in Present',
             j \notin raced', k \notin raced', j # k
      PROVE  ~Clash(leave'[j], leave'[k])
  <2>1. r.fresh \in BOOLEAN /\ Present \subseteq Ids
    BY DEF Sound, Request, Present
  <2>2. CASE j # i /\ k # i
    BY <1>1, <1>2, <1>3, <1>5, <2>1, <2>2
  <2>3. CASE j = i
    BY <1>1, <1>2, <1>4, <1>5, <2>1, <2>3
  <2>4. CASE k = i
    BY <1>1, <1>2, <1>4, <1>5, <2>1, <2>4
  <2> QED BY <2>2, <2>3, <2>4
<1> QED BY <1>5 DEF NoDayTwice, Live, Covers

\* A request overtaken stays sound: its rows are still there.
LEMMA WriteOthers ==
    ASSUME TypeInv, Quiet, NEW r, Sound(r), Apply(r),
           NEW x, Sound(x)
    PROVE  Sound([x EXCEPT !.fresh = FALSE])'
<1>1. Present \subseteq Present'
  BY Written
<1>2. x \in Request
  BY DEF Sound
<1> DEFINE y == [x EXCEPT !.fresh = FALSE]
<1>3. /\ y \in Request /\ y.fresh = FALSE
      /\ y.id = x.id /\ y.row = x.row /\ y.push = x.push
  BY <1>2 DEF Request
<1> HIDE DEF y
<1>4. (y.id = None => InsertSound(y)') /\ (y.id # None => DecisionSound(y)')
  BY <1>1, <1>3 DEF Sound, InsertSound, DecisionSound
<1> QED BY <1>3, <1>4 DEF Sound, Request, y

LEMMA WriteIInv ==
    ASSUME IInv, NEW r, Sound(r), Apply(r), NEW w, req' = Overtaken(w)
    PROVE  IInv'
<1>1. TypeInv' /\ Quiet' /\ ToldWhatStands' /\ NoDayTwice'
  BY WriteTypes, WriteTold, WriteDays DEF IInv
<1>2. ASSUME NEW x \in Workers, req'[x] # None
      PROVE  Sound(req[x]) /\ req'[x] = [req[x] EXCEPT !.fresh = FALSE]
  BY <1>2 DEF Overtaken, IInv
<1>3. ASSUME NEW x \in Workers, req'[x] # None PROVE Sound(req[x])'
  BY <1>2, <1>3, WriteOthers DEF IInv
<1>4. ASSUME NEW x \in Workers PROVE req'[x] \in Request \cup {None}
  BY <1>2, <1>3, <1>4 DEF Sound, Request
<1>5. req' \in [Workers -> Request \cup {None}]
  BY <1>4 DEF Overtaken
<1> QED BY <1>1, <1>3, <1>5 DEF IInv, Request

---------------------------------------------------------------------------
LEMMA StepIInv == IInv /\ [LeaveNext]_leaveVars => IInv'
<1> SUFFICES ASSUME IInv, [LeaveNext]_leaveVars PROVE IInv'
  OBVIOUS
<1>1. ASSUME leave' = leave, told' = told, raced' = raced,
             NEW w \in Workers, NEW r, r = None \/ r \in Accepted,
             req' = [req EXCEPT ![w] = r]
      PROVE  IInv'
  <2>1. ASSUME NEW x, Sound(x) PROVE Sound(x)'
    BY <1>1, <2>1 DEF Sound, InsertSound, DecisionSound, Overlaps, Live, Present,
                      Request
  <2>2. r # None => Sound(r)
    BY <1>1, AcceptedSound DEF IInv
  <2>3. req' \in [Workers -> Request \cup {None}]
    BY <1>1, <2>2 DEF IInv, Sound
  <2>4. \A x \in Workers : req'[x] # None => Sound(req'[x])
    BY <1>1, <2>2 DEF IInv
  <2>5. \A x \in Workers : req'[x] # None => Sound(req[x])'
    BY <2>1, <2>4
  <2> QED BY <1>1, <2>3, <2>5 DEF IInv, TypeInv, Quiet, NoDayTwice, ToldWhatStands, Live,
                                  Present, Request
<1>2. ASSUME Serve PROVE IInv'
  BY <1>2, AcceptedSound, WriteIInv DEF Serve, IInv
<1>3. ASSUME NEW w \in Workers, Commit(w) PROVE IInv'
  <2>1. Sound(req[w])
    BY <1>3 DEF Commit, IInv
  <2> QED BY <1>3, <2>1, WriteIInv DEF Commit
<1>4. ASSUME NEW w \in Workers, Load(w) \/ Fail(w) PROVE IInv'
  BY <1>1, <1>4 DEF Load, Fail
<1>5. ASSUME Midnight \/ UNCHANGED leaveVars PROVE IInv'
  BY <1>5 DEF Midnight, leaveVars, IInv, TypeInv, Quiet, NoDayTwice, ToldWhatStands,
              Sound, InsertSound, DecisionSound, Overlaps, Live, Present, Request
<1> QED BY <1>2, <1>3, <1>4, <1>5 DEF LeaveNext

---------------------------------------------------------------------------
(* Sums over finite sets, as MapThenSumSet computes them: element by element,  *)
(* the next one by CHOOSE.                                                     *)

First(s) == CHOOSE x \in s : TRUE

SumOver(it, F, S) ==
    it = [s \in SUBSET S |-> IF s = {} THEN 0 ELSE F[First(s)] + it[s \ {First(s)}]]

\* Induction over the subsets of a finite set: of some of them, one is minimal.
LEMMA MinimalSubset ==
    ASSUME NEW S, IsFiniteSet(S), NEW T \in SUBSET SUBSET S, T # {}
    PROVE  \E s \in T : \A t \in SUBSET s : t # s => t \notin T
<1> DEFINE R == StrictSubsetOrdering(S)
<1>1. IsWellFoundedOn(R, FiniteSubsetsOf(S))
  BY FS_StrictSubsetOrderingWellFounded
<1>2. T \subseteq FiniteSubsetsOf(S)
  BY FS_FiniteSubsetsOfFinite
<1>3. \E s \in T : \A t \in T : ~(<<t, s>> \in R)
  BY <1>1, <1>2, WFMin
<1> QED BY <1>3 DEF StrictSubsetOrdering

LEMMA FirstIn ==
    ASSUME NEW s, s # {}
    PROVE  First(s) \in s /\ s \ {First(s)} \in SUBSET s /\ s \ {First(s)} # s
<1>1. First(s) \in s
  BY DEF First
<1> QED BY <1>1

LEMMA SumStep ==
    ASSUME NEW S, NEW F, NEW it, SumOver(it, F, S), NEW s \in SUBSET S
    PROVE  it[s] = IF s = {} THEN 0 ELSE F[First(s)] + it[s \ {First(s)}]
BY DEF SumOver

LEMMA SumUnique ==
    ASSUME NEW F, NEW A, IsFiniteSet(A), NEW B, NEW a, NEW b,
           SumOver(a, F, A), SumOver(b, F, B), NEW s \in SUBSET A, s \in SUBSET B
    PROVE  a[s] = b[s]
<1> DEFINE T == {t \in SUBSET A : t \in SUBSET B /\ a[t] # b[t]}
<1>1. SUFFICES ASSUME T # {} PROVE FALSE
  OBVIOUS
<1>2. PICK t \in T : \A u \in SUBSET t : u # t => u \notin T
  <2>1. T \in SUBSET SUBSET A
    OBVIOUS
  <2> HIDE DEF T
  <2> QED BY <1>1, <2>1, MinimalSubset
<1>3. t # {}
  BY SumStep
<1>4. LET u == t \ {First(t)} IN u \in SUBSET A /\ u \in SUBSET B /\ a[u] = b[u]
  BY <1>2, <1>3, FirstIn
<1>5. a[t] = F[First(t)] + a[t \ {First(t)}] /\ b[t] = F[First(t)] + b[t \ {First(t)}]
  BY <1>3, SumStep
<1> QED BY <1>4, <1>5

LEMMA SumExists ==
    ASSUME NEW S, IsFiniteSet(S), NEW F
    PROVE  \E it : SumOver(it, F, S)
<1> DEFINE T == {U \in SUBSET S : ~\E it : SumOver(it, F, U)}
<1>1. SUFFICES ASSUME T # {} PROVE FALSE
  OBVIOUS
<1>2. PICK U \in T : \A V \in SUBSET U : V # U => V \notin T
  <2>1. T \in SUBSET SUBSET S
    OBVIOUS
  <2> HIDE DEF T
  <2> QED BY <1>1, <2>1, MinimalSubset
<1> DEFINE Rest(s) == s \ {First(s)}
           h(s) == CHOOSE it : SumOver(it, F, Rest(s))
           g == [s \in SUBSET U |-> IF s = {} THEN 0 ELSE F[First(s)] + h(s)[Rest(s)]]
<1>3. ASSUME NEW s \in SUBSET U, s # {}
      PROVE  Rest(s) \in SUBSET U /\ Rest(s) \in SUBSET s /\ IsFiniteSet(Rest(s))
             /\ SumOver(h(s), F, Rest(s))
  <2>1. Rest(s) \in SUBSET U /\ Rest(s) # U /\ Rest(s) \in SUBSET s
    BY <1>3, FirstIn
  <2>2. \E it : SumOver(it, F, Rest(s))
    BY <1>2, <2>1
  <2>3. IsFiniteSet(Rest(s))
    BY <2>1, FS_Subset
  <2> QED BY <2>1, <2>2, <2>3
<1>4. ASSUME NEW s \in SUBSET U, s # {} PROVE g[Rest(s)] = h(s)[Rest(s)]
  <2> DEFINE W == Rest(s)
  <2>1. W \in SUBSET U /\ IsFiniteSet(W) /\ SumOver(h(s), F, W)
    BY <1>3, <1>4
  <2>2. CASE W = {}
    <3>1. h(s)[W] = 0
      BY <2>1, <2>2, SumStep
    <3> QED BY <2>1, <2>2, <3>1
  <2>3. CASE W # {}
    <3>1. SumOver(h(W), F, Rest(W)) /\ IsFiniteSet(Rest(W)) /\ Rest(W) \in SUBSET W
      BY <1>3, <2>1, <2>3
    <3>2. h(W)[Rest(W)] = h(s)[Rest(W)]
      <4>1. ASSUME NEW V, NEW a, NEW b, IsFiniteSet(V), V \in SUBSET W,
                   SumOver(a, F, V), SumOver(b, F, W)
            PROVE  a[V] = b[V]
        <5>1. V \in SUBSET V
          OBVIOUS
        <5> HIDE DEF W
        <5> QED BY <4>1, <5>1, SumUnique
      <4> HIDE DEF W, Rest, h
      <4> QED BY <2>1, <3>1, <4>1
    <3>3. h(s)[W] = F[First(W)] + h(s)[Rest(W)]
      <4> HIDE DEF W, h
      <4> QED BY <2>1, <2>3, SumStep
    <3>4. g[W] = F[First(W)] + h(W)[Rest(W)]
      <4> HIDE DEF W, h, Rest
      <4> QED BY <2>1, <2>3
    <3> QED BY <3>2, <3>3, <3>4
  <2> QED BY <2>2, <2>3
<1>5. SumOver(g, F, U)
  <2> HIDE DEF h
  <2>1. \A s \in SUBSET U : g[s] = IF s = {} THEN 0 ELSE F[First(s)] + g[s \ {First(s)}]
    BY <1>4
  <2>2. g = [s \in SUBSET U |-> g[s]]
    OBVIOUS
  <2> HIDE DEF g
  <2> QED BY <2>1, <2>2 DEF SumOver
<1> QED BY <1>2, <1>5

Numbers(F, S) == \A x \in S : F[x] \in Int

Adds(H, F, G, S) == \A x \in S : H[x] = F[x] + G[x]

\* The sum of numbers is a number, and adding up two columns is adding up their
\* sums.
LEMMA SumOfNumbers ==
    ASSUME NEW S, IsFiniteSet(S), NEW F, Numbers(F, S),
           NEW it, SumOver(it, F, S), NEW s \in SUBSET S
    PROVE  it[s] \in Int
<1> DEFINE T == {t \in SUBSET S : it[t] \notin Int}
<1>1. SUFFICES ASSUME T # {} PROVE FALSE
  OBVIOUS
<1>2. PICK t \in T : \A u \in SUBSET t : u # t => u \notin T
  <2>1. T \in SUBSET SUBSET S
    OBVIOUS
  <2> HIDE DEF T
  <2> QED BY <1>1, <2>1, MinimalSubset
<1>3. it[t] = IF t = {} THEN 0 ELSE F[First(t)] + it[t \ {First(t)}]
  <2>1. t \in SUBSET S
    OBVIOUS
  <2> HIDE DEF T
  <2> QED BY <2>1, SumStep
<1>4. t # {}
  BY <1>3
<1>5. it[t \ {First(t)}] \in Int /\ F[First(t)] \in Int
  BY <1>2, <1>4, FirstIn DEF Numbers
<1> QED BY <1>3, <1>4, <1>5

LEMMA SumAdds ==
    ASSUME NEW S, IsFiniteSet(S), NEW F, NEW G, NEW H,
           Numbers(F, S), Numbers(G, S), Adds(H, F, G, S),
           NEW f, NEW g, NEW h, SumOver(f, F, S), SumOver(g, G, S), SumOver(h, H, S)
    PROVE  h[S] = f[S] + g[S]
<1> DEFINE T == {t \in SUBSET S : h[t] # f[t] + g[t]}
<1>1. SUFFICES ASSUME T # {} PROVE FALSE
  OBVIOUS
<1>2. PICK t \in T : \A u \in SUBSET t : u # t => u \notin T
  <2>1. T \in SUBSET SUBSET S
    OBVIOUS
  <2> HIDE DEF T
  <2> QED BY <1>1, <2>1, MinimalSubset
<1>3. /\ f[t] = IF t = {} THEN 0 ELSE F[First(t)] + f[t \ {First(t)}]
      /\ g[t] = IF t = {} THEN 0 ELSE G[First(t)] + g[t \ {First(t)}]
      /\ h[t] = IF t = {} THEN 0 ELSE H[First(t)] + h[t \ {First(t)}]
  <2>1. t \in SUBSET S
    OBVIOUS
  <2> HIDE DEF T
  <2> QED BY <2>1, SumStep
<1>4. t # {}
  BY <1>3
<1> DEFINE u == t \ {First(t)}
<1>5. u \in SUBSET S /\ h[u] = f[u] + g[u] /\ First(t) \in S
  BY <1>2, <1>4, FirstIn
<1>6. f[u] \in Int /\ g[u] \in Int
  <2> HIDE DEF u
  <2> QED BY <1>5, SumOfNumbers
<1>7. H[First(t)] = F[First(t)] + G[First(t)] /\ F[First(t)] \in Int /\ G[First(t)] \in Int
  BY <1>5 DEF Numbers, Adds
<1> QED BY <1>3, <1>4, <1>5, <1>6, <1>7

\* The sum of the sizes of sets without common elements is the size of their union.
LEMMA SumCounts ==
    ASSUME NEW S, IsFiniteSet(S), NEW F, NEW G,
           \A x \in S : IsFiniteSet(G[x]) /\ F[x] = Cardinality(G[x]),
           \A x, y \in S : x # y => G[x] \cap G[y] = {},
           NEW it, SumOver(it, F, S)
    PROVE  /\ IsFiniteSet(UNION {G[x] : x \in S})
           /\ it[S] = Cardinality(UNION {G[x] : x \in S})
<1> DEFINE All(t) == UNION {G[x] : x \in t}
           T == {t \in SUBSET S : ~(IsFiniteSet(All(t)) /\ it[t] = Cardinality(All(t)))}
<1>1. SUFFICES ASSUME T # {} PROVE FALSE
  OBVIOUS
<1>2. PICK t \in T : \A u \in SUBSET t : u # t => u \notin T
  <2>1. T \in SUBSET SUBSET S
    OBVIOUS
  <2> HIDE DEF T
  <2> QED BY <1>1, <2>1, MinimalSubset
<1>3. it[t] = IF t = {} THEN 0 ELSE F[First(t)] + it[t \ {First(t)}]
  BY SumStep
<1>4. t # {}
  <2>1. All({}) = {}
    OBVIOUS
  <2> QED BY <1>3, <2>1, FS_EmptySet
<1> DEFINE x == First(t)
           u == t \ {x}
<1>5. /\ x \in t /\ x \in S /\ u \in SUBSET S
      /\ IsFiniteSet(All(u)) /\ it[u] = Cardinality(All(u))
  BY <1>2, <1>4, FirstIn
<1>6. All(t) = G[x] \cup All(u)
  <2>1. t = u \cup {x}
    BY <1>5
  <2> HIDE DEF x, u
  <2> QED BY <2>1
<1>7. G[x] \cap All(u) = {}
  <2>1. \A y \in u : y \in S /\ y # x
    OBVIOUS
  <2> HIDE DEF x, u
  <2> QED BY <1>5, <2>1
<1>8. IsFiniteSet(G[x]) /\ F[x] = Cardinality(G[x])
  BY <1>5
<1> HIDE DEF x, u, All
<1>9. /\ IsFiniteSet(All(t))
      /\ Cardinality(All(t)) = Cardinality(G[x]) + Cardinality(All(u)) - Cardinality(G[x] \cap All(u))
  <2>1. IsFiniteSet(G[x]) /\ IsFiniteSet(All(u)) /\ All(t) = G[x] \cup All(u)
    BY <1>5, <1>6, <1>8
  <2>2. ASSUME NEW A, NEW B, NEW C, IsFiniteSet(A), IsFiniteSet(B), C = A \cup B
        PROVE  /\ IsFiniteSet(C)
               /\ Cardinality(C) = Cardinality(A) + Cardinality(B) - Cardinality(A \cap B)
    BY <2>2, FS_Union
  <2> QED BY <2>1, <2>2
<1>10. Cardinality(G[x] \cap All(u)) = 0
  BY <1>7, FS_EmptySet
<1>11. it[t] = Cardinality(G[x]) + Cardinality(All(u))
  BY <1>3, <1>4, <1>5, <1>8 DEF x, u
<1>12. Cardinality(G[x]) \in Int /\ Cardinality(All(u)) \in Int
  BY <1>5, <1>8, FS_CardinalityType
<1>13. it[t] = Cardinality(All(t))
  BY <1>9, <1>10, <1>11, <1>12
<1> QED BY <1>9, <1>13

---------------------------------------------------------------------------
(* The balance. *)

\* No leave ends before it begins, in the table or in a request.
Ordered ==
    /\ \A i \in Present : leave[i].start <= leave[i].end
    /\ \A w \in Workers : req[w] # None => req[w].row.start <= req[w].row.end

LEMMA AcceptedOrdered ==
    ASSUME TypeInv, Ordered, NEW r \in Accepted
    PROVE  r.row.start <= r.row.end
<1>1. ASSUME NEW e \in Employees, r \in CreateLeaveRequest(e) \cup AdminCreate(e)
      PROVE  r.row.start <= r.row.end
  <2>1. PICK p \in Periods, t \in {"PAID", "UNPAID"}, s \in {"PENDING", "APPROVED"} :
            r.row = Asked(e, p, t, s)
    <3>1. CASE r \in CreateLeaveRequest(e)
      BY <3>1 DEF CreateLeaveRequest, Write
    <3>2. CASE r \in AdminCreate(e)
      BY <3>2 DEF AdminCreate, Write
    <3> QED BY <1>1, <3>1, <3>2
  <2> QED BY <2>1 DEF Asked, Periods
<1>2. ASSUME NEW i \in Present, r \in Approve(i) \cup Reject(i)
      PROVE  r.row.start <= r.row.end
  <2>1. PICK s \in {"APPROVED", "REJECTED"} : r.row = [leave[i] EXCEPT !.status = s]
    BY <1>2 DEF Approve, Reject, Write
  <2>2. leave[i] \in LeaveRow
    BY DEF Present, TypeInv
  <2>3. r.row.start = leave[i].start /\ r.row.end = leave[i].end
    BY <2>1, <2>2 DEF LeaveRow
  <2> QED BY <2>3 DEF Ordered
<1>3. \/ \E e \in Employees : r \in CreateLeaveRequest(e) \cup AdminCreate(e)
      \/ \E i \in Present : r \in Approve(i) \cup Reject(i)
  BY Zenon DEF Accepted
<1> QED BY <1>1, <1>2, <1>3

LEMMA WriteOrdered ==
    ASSUME IInv, Ordered, NEW r, Sound(r), r.row.start <= r.row.end, Apply(r),
           NEW w, req' = Overtaken(w)
    PROVE  Ordered'
<1>1. PICK i \in Ids : leave' = [leave EXCEPT ![i] = r.row] /\ Present' = Present \cup {i}
  BY Written DEF IInv
<1>2. ASSUME NEW j \in Present' PROVE leave'[j].start <= leave'[j].end
  BY <1>1 DEF IInv, TypeInv, Ordered, Present
<1>3. ASSUME NEW x \in Workers, req'[x] # None
      PROVE  req'[x].row.start <= req'[x].row.end
  <2>1. req[x] # None /\ req'[x] = [req[x] EXCEPT !.fresh = FALSE]
    BY <1>3 DEF Overtaken
  <2>2. req[x] \in Request
    BY <2>1 DEF IInv
  <2>3. req'[x].row = req[x].row
    BY <2>1, <2>2 DEF Request
  <2> QED BY <2>1, <2>3 DEF Ordered
<1> QED BY <1>2, <1>3 DEF Ordered

LEMMA StepOrdered == IInv /\ Ordered /\ [LeaveNext]_leaveVars => Ordered'
<1> SUFFICES ASSUME IInv, Ordered, [LeaveNext]_leaveVars PROVE Ordered'
  OBVIOUS
<1>1. ASSUME Serve PROVE Ordered'
  <2>1. PICK r \in Accepted : Apply(r)
    BY <1>1 DEF Serve
  <2>2. Sound(r) /\ r.row.start <= r.row.end
    BY AcceptedSound, AcceptedOrdered DEF IInv
  <2> QED BY <1>1, <2>1, <2>2, WriteOrdered DEF Serve
<1>2. ASSUME NEW w \in Workers, Commit(w) PROVE Ordered'
  <2>1. Sound(req[w]) /\ req[w].row.start <= req[w].row.end
    BY <1>2 DEF Commit, IInv, Ordered
  <2> QED BY <1>2, <2>1, WriteOrdered DEF Commit
<1>3. ASSUME NEW w \in Workers, Load(w) PROVE Ordered'
  <2>1. PICK r \in Accepted : req' = [req EXCEPT ![w] = r]
    BY <1>3 DEF Load
  <2>2. r.row.start <= r.row.end
    BY AcceptedOrdered DEF IInv
  <2> QED BY <1>3, <2>1, <2>2 DEF Load, IInv, Ordered, Present
<1>4. ASSUME NEW w \in Workers, Fail(w) PROVE Ordered'
  BY <1>4 DEF Fail, IInv, Ordered, Present
<1>5. ASSUME Midnight \/ UNCHANGED leaveVars PROVE Ordered'
  BY <1>5 DEF Midnight, leaveVars, Ordered, Present
<1> QED BY <1>1, <1>2, <1>3, <1>4, <1>5 DEF LeaveNext

LEMMA InitOrdered == LeaveInit => Ordered
BY DEF LeaveInit, Ordered, Present

\* Leave requests: unless a request overtook another, no day is asked for or
\* granted twice, by however many employees, administrators and requests.
THEOREM NoLeaveTwice == LeaveSpec => []NoDayTwice
<1>1. IInv => NoDayTwice
  BY DEF IInv
<1> QED BY <1>1, InitIInv, StepIInv, PTL DEF LeaveSpec

\* Leave requests: the push sent after a decision is about the one that stands.
THEOREM ToldTruly == LeaveSpec => []ToldWhatStands
<1>1. IInv => ToldWhatStands
  BY DEF IInv
<1> QED BY <1>1, InitIInv, StepIInv, PTL DEF LeaveSpec

\* The sum of PaidDays, as one over the rows it adds up.
LEMMA PaidDaysSum ==
    ASSUME NEW e, NEW status, NEW a, NEW b, NEW R, R = PaidRows(e, status, a, b),
           IsFiniteSet(R), NEW F, F = [i \in R |-> DaysWithin(leave[i], a, b)]
    PROVE  \E it : SumOver(it, F, R) /\ PaidDays(e, status, a, b) = it[R]
<1> DEFINE Is(it) == it = [s \in SUBSET R |->
                             IF s = {} THEN 0
                             ELSE DaysWithin(leave[CHOOSE x \in s : TRUE], a, b)
                                  + it[s \ {CHOOSE x \in s : TRUE}]]
           iter == CHOOSE it : Is(it)
<1>1. PaidDays(e, status, a, b) = iter[R]
  BY DEF PaidDays, MapThenSumSet, MapThenFoldSet
<1>2. ASSUME NEW it PROVE Is(it) <=> SumOver(it, F, R)
  <2>1. ASSUME NEW s \in SUBSET R, s # {} PROVE F[First(s)] = DaysWithin(leave[First(s)], a, b)
    BY <2>1, FirstIn
  <2> QED BY <2>1 DEF SumOver, First
<1>3. \E it : Is(it)
  <2> HIDE DEF Is
  <2> QED BY <1>2, SumExists
<1>4. Is(iter)
  <2> HIDE DEF Is
  <2> QED BY <1>3
<1> HIDE DEF Is, iter
<1> QED BY <1>1, <1>2, <1>4

\* The days of leave i that are counted in a year are those it has in it.
YearDays(i, a, b) == {d \in a..b : Covers(leave[i], d)}

LEMMA DaysCounted ==
    ASSUME IInv, Ordered, NEW a \in Days, NEW b \in Days, a <= b, NEW i \in Present,
           leave[i].start <= b, leave[i].end >= a
    PROVE  /\ IsFiniteSet(YearDays(i, a, b))
           /\ DaysWithin(leave[i], a, b) = Cardinality(YearDays(i, a, b))
<1> DEFINE lo == Later(leave[i].start, a)
           hi == Earlier(leave[i].end, b)
<1>1. /\ leave[i].start \in Int /\ leave[i].end \in Int /\ leave[i].start <= leave[i].end
      /\ a \in Int /\ b \in Int
  BY DEF IInv, TypeInv, Ordered, Present, LeaveRow, Days
<1>2. YearDays(i, a, b) = lo..hi /\ lo \in Int /\ hi \in Int /\ lo <= hi
  BY <1>1 DEF YearDays, Covers, Later, Earlier
<1>3. DaysWithin(leave[i], a, b) = hi - lo + 1
  BY DEF DaysWithin
<1> HIDE DEF lo, hi
<1> QED BY <1>2, <1>3, FS_Interval

\* What the leaves of an employee with a status come to, unless two of them have a
\* day in common.
LEMMA StatusCounted ==
    ASSUME IInv, Ordered, raced = {}, NEW e, NEW a \in Days, NEW b \in Days, a <= b,
           NEW status \in {"APPROVED", "PENDING"},
           NEW R, R = PaidRows(e, status, a, b)
    PROVE  /\ IsFiniteSet(UNION {YearDays(i, a, b) : i \in R})
           /\ PaidDays(e, status, a, b) = Cardinality(UNION {YearDays(i, a, b) : i \in R})
<1> DEFINE G == [i \in R |-> YearDays(i, a, b)]
           F == [i \in R |-> DaysWithin(leave[i], a, b)]
<1>1. R \subseteq Present /\ R \subseteq Ids
  BY DEF PaidRows, Present
<1>2. IsFiniteSet(Ids)
  BY FS_Interval, LeaveAssumption DEF Ids
<1>3. IsFiniteSet(R)
  BY <1>1, <1>2, FS_Subset
<1>4. \A i \in R : IsFiniteSet(G[i]) /\ F[i] = Cardinality(G[i])
  <2>1. ASSUME NEW i \in R
        PROVE  /\ IsFiniteSet(YearDays(i, a, b))
               /\ DaysWithin(leave[i], a, b) = Cardinality(YearDays(i, a, b))
    <3>1. i \in Present /\ leave[i].start <= b /\ leave[i].end >= a
      BY DEF PaidRows
    <3> QED BY <3>1, DaysCounted
  <2> QED BY <2>1
<1>5. \A i, j \in R : i # j => G[i] \cap G[j] = {}
  <2>1. ASSUME NEW i \in R, NEW j \in R, i # j, NEW d \in YearDays(i, a, b), d \in YearDays(j, a, b)
        PROVE  FALSE
    <3>1. d \in Days /\ Covers(leave[i], d) /\ Covers(leave[j], d)
      BY <2>1, LeaveAssumption DEF YearDays, Days
    <3>2. /\ i \in Present \ raced /\ j \in Present \ raced
          /\ Live(i) /\ Live(j) /\ leave[i].employee = leave[j].employee
      BY DEF PaidRows, Live
    <3> QED BY <2>1, <3>1, <3>2 DEF IInv, NoDayTwice
  <2> QED BY <2>1
<1>6. UNION {G[i] : i \in R} = UNION {YearDays(i, a, b) : i \in R}
  OBVIOUS
<1>7. F = [i \in R |-> DaysWithin(leave[i], a, b)]
  OBVIOUS
<1> HIDE DEF F, G
<1>8. PICK it : SumOver(it, F, R) /\ PaidDays(e, status, a, b) = it[R]
  BY <1>3, <1>7, PaidDaysSum
<1>9. /\ IsFiniteSet(UNION {G[i] : i \in R})
      /\ it[R] = Cardinality(UNION {G[i] : i \in R})
  BY <1>3, <1>4, <1>5, <1>8, SumCounts
<1> QED BY <1>6, <1>8, <1>9

LEMMA BalanceCounts == IInv /\ Ordered => BalanceCountsDays
<1> SUFFICES ASSUME IInv, Ordered, NEW e \in Employees, NEW p \in Periods, raced = {}
             PROVE  LET balance == LeaveBalance(e, p[1], p[2])
                    IN  balance.days_used + balance.days_pending
                          = Cardinality({d \in p[1]..p[2] :
                                \E i \in Present : /\ leave[i].employee = e
                                                   /\ leave[i].type = "PAID"
                                                   /\ Live(i)
                                                   /\ Covers(leave[i], d)})
  BY DEF BalanceCountsDays
<1> DEFINE a == p[1]
           b == p[2]
           A == PaidRows(e, "APPROVED", a, b)
           P == PaidRows(e, "PENDING", a, b)
           UA == UNION {YearDays(i, a, b) : i \in A}
           UP == UNION {YearDays(i, a, b) : i \in P}
           Target == {d \in a..b : \E i \in Present : /\ leave[i].employee = e
                                                      /\ leave[i].type = "PAID"
                                                      /\ Live(i)
                                                      /\ Covers(leave[i], d)}
<1>1. a \in Days /\ b \in Days /\ a <= b
  BY DEF Periods
<1>2. /\ IsFiniteSet(UA) /\ PaidDays(e, "APPROVED", a, b) = Cardinality(UA)
      /\ IsFiniteSet(UP) /\ PaidDays(e, "PENDING", a, b) = Cardinality(UP)
  <2> HIDE DEF a, b
  <2> QED BY <1>1, StatusCounted
<1>3. UA \cap UP = {}
  <2>1. ASSUME NEW i \in A, NEW j \in P, NEW d \in YearDays(i, a, b), d \in YearDays(j, a, b)
        PROVE  FALSE
    <3>1. d \in Days /\ Covers(leave[i], d) /\ Covers(leave[j], d)
      BY <1>1, <2>1, LeaveAssumption DEF YearDays, Days
    <3>2. /\ i \in Present \ raced /\ j \in Present \ raced /\ i # j
          /\ Live(i) /\ Live(j) /\ leave[i].employee = leave[j].employee
      BY DEF PaidRows, Live
    <3> QED BY <3>1, <3>2 DEF IInv, NoDayTwice
  <2> QED BY <2>1
<1>4. UA \cup UP = Target
  <2>1. ASSUME NEW i \in A \cup P, NEW d \in YearDays(i, a, b) PROVE d \in Target
    BY <2>1 DEF YearDays, PaidRows, Live
  <2>2. ASSUME NEW d \in a..b, NEW i \in Present, leave[i].employee = e,
               leave[i].type = "PAID", Live(i), Covers(leave[i], d)
        PROVE  i \in A \cup P /\ d \in YearDays(i, a, b)
    <3>1. leave[i].start \in Int /\ leave[i].end \in Int /\ d \in Int /\ a \in Int /\ b \in Int
      BY <1>1 DEF IInv, TypeInv, Present, LeaveRow, Days
    <3>2. leave[i].start <= b /\ leave[i].end >= a
      BY <2>2, <3>1 DEF Covers
    <3> QED BY <2>2, <3>2 DEF PaidRows, Live, YearDays
  <2> QED BY <2>1, <2>2
<1>5. /\ LeaveBalance(e, a, b).days_used = PaidDays(e, "APPROVED", a, b)
      /\ LeaveBalance(e, a, b).days_pending = PaidDays(e, "PENDING", a, b)
  BY DEF LeaveBalance
<1> HIDE DEF UA, UP, Target
<1>6. Cardinality(Target) = Cardinality(UA) + Cardinality(UP) - Cardinality(UA \cap UP)
  BY <1>2, <1>4, FS_Union
<1>7. Cardinality(UA) \in Int /\ Cardinality(UP) \in Int /\ Cardinality(UA \cap UP) = 0
  <2>1. Cardinality(UA) \in Nat /\ Cardinality(UP) \in Nat
    BY <1>2, FS_CardinalityType
  <2>2. Cardinality(UA \cap UP) = 0
    BY <1>3, FS_EmptySet
  <2> QED BY <2>1, <2>2
<1>8. LeaveBalance(e, a, b).days_used + LeaveBalance(e, a, b).days_pending = Cardinality(Target)
  BY <1>2, <1>5, <1>6, <1>7
<1> QED BY <1>8 DEF Target

\* Leave requests: the balance of a year counts each day of paid leave once.
THEOREM BalanceIsOfDays == LeaveSpec => []BalanceCountsDays
BY InitIInv, StepIInv, InitOrdered, StepOrdered, BalanceCounts, PTL DEF LeaveSpec
===========================================================================
