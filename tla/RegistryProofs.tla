--------------------------- MODULE RegistryProofs ----------------------------
(***************************************************************************)
(* Students, their places and their guardians, for any number of them, of   *)
(* classes, of rows in a file and of requests in flight.                    *)
(*                                                                         *)
(* An import is a fold over the rows of a file, so what it keeps is shown   *)
(* row by row along the trail of the fold; the other steps each change one  *)
(* row of a table.  SchoolInv, near the end, is what all of them keep.      *)
(***************************************************************************)
EXTENDS Guardians, CalendarProofs

-----------------------------------------------------------------------------
(* Files, a row at a time: the check of the rows and their import. *)

RowDone(kind, now, row, y) ==
    IF kind = "import" THEN ImportRow(now, row, y) ELSE ValidateRow(now, row, y)

Top(s) == SX!Max(s)

\* g tells what every set of rows leads to, the last row last.
LeadsTo(g, kind, base, rows, y, n) ==
    g = [s \in SUBSET (1 .. n) |->
            IF s = {} THEN base ELSE RowDone(kind, g[s \ {Top(s)}], rows[Top(s)], y)]

Outcome(kind, base, rows, y) ==
    (CHOOSE g : LeadsTo(g, kind, base, rows, y, Len(rows)))[1 .. Len(rows)]

\* trail tells what the rows up to each lead to.
Trail(trail, kind, base, rows, y) ==
    /\ trail[0] = base
    /\ \A k \in 0 .. Len(rows) - 1 : trail[k + 1] = RowDone(kind, trail[k], rows[k + 1], y)

LEMMA TopIs ==
    ASSUME NEW n \in Nat, NEW s \in SUBSET (1 .. n), s # {}
    PROVE  /\ Top(s) \in s
           /\ n \in s => Top(s) = n
<1>. DEFINE S == {n - x : x \in s}
<1>1. S \in SUBSET Nat /\ S # {}
  OBVIOUS
<1>2. PICK m \in S : \A k \in S : m <= k
  BY <1>1, LeastNumber
<1>3. PICK x \in s : m = n - x
  BY <1>2
<1>4. \A z \in s : x >= z
  <2>1. TAKE z \in s
  <2>2. n - z \in S
    BY <2>1
  <2>. QED
    BY <1>2, <1>3, <2>2
<1>5. PICK t \in s : t = Top(s) /\ \A z \in s : t >= z
  BY <1>4 DEF Top, SX!Max
<1>6. n \in s => Top(s) = n
  BY <1>5
<1>. QED
  BY <1>5, <1>6

LEMMA SolutionToRows ==
    ASSUME NEW kind, NEW base, NEW rows, NEW y, NEW n \in Nat
    PROVE  \E g : LeadsTo(g, kind, base, rows, y, n)
<1>. DEFINE Q == {k \in Nat : \E g : LeadsTo(g, kind, base, rows, y, k)}
<1>1. 0 \in Q
  <2>1. LeadsTo([s \in SUBSET (1 .. 0) |-> base], kind, base, rows, y, 0)
    <3>1. \A s \in SUBSET (1 .. 0) : s = {}
      OBVIOUS
    <3>. QED
      BY <3>1 DEF LeadsTo
  <2>. QED
    BY <2>1
<1>2. ASSUME NEW k \in Nat, k \in Q
      PROVE  k + 1 \in Q
  <2>1. PICK g : LeadsTo(g, kind, base, rows, y, k)
    BY <1>2
  <2>. DEFINE last == k + 1
              h == [s \in SUBSET (1 .. last) |->
                      IF last \in s THEN RowDone(kind, g[s \ {last}], rows[last], y) ELSE g[s]]
  <2>2. ASSUME NEW s \in SUBSET (1 .. last), s # {}
        PROVE  h[s] = RowDone(kind, h[s \ {Top(s)}], rows[Top(s)], y)
    <3>1. Top(s) \in s /\ (last \in s => Top(s) = last)
      BY <2>2, TopIs
    <3>2. s \ {Top(s)} \in SUBSET (1 .. last)
      OBVIOUS
    <3>3. CASE last \in s
      <4>1. Top(s) = last /\ h[s \ {last}] = g[s \ {last}]
        BY <3>1, <3>2, <3>3
      <4>. QED
        BY <3>3, <4>1
    <3>4. CASE last \notin s
      <4>1. s \in SUBSET (1 .. k) /\ s \ {Top(s)} \in SUBSET (1 .. k)
        <5>1. ASSUME NEW x \in s
              PROVE  x \in 1 .. k
          <6>1. x \in 1 .. k + 1 /\ x # k + 1
            BY <3>4
          <6>. QED
            BY <6>1
        <5>. QED
          BY <5>1
      <4>2. h[s] = g[s] /\ h[s \ {Top(s)}] = g[s \ {Top(s)}]
        BY <3>2, <3>4
      <4>3. g[s] = RowDone(kind, g[s \ {Top(s)}], rows[Top(s)], y)
        BY <2>1, <2>2, <4>1 DEF LeadsTo
      <4>. QED
        BY <4>2, <4>3
    <3>. QED
      BY <3>3, <3>4
  <2>3. h[{}] = base
    BY <2>1 DEF LeadsTo
  <2>4. h = [s \in SUBSET (1 .. last) |-> h[s]]
    OBVIOUS
  <2>. HIDE DEF h
  <2>5. LeadsTo(h, kind, base, rows, y, last)
    <3>1. \A s \in SUBSET (1 .. last) :
            h[s] = IF s = {} THEN base ELSE RowDone(kind, h[s \ {Top(s)}], rows[Top(s)], y)
      BY <2>2, <2>3
    <3>. QED
      BY <2>4, <3>1 DEF LeadsTo
  <2>. QED
    BY <2>5
<1>. HIDE DEF Q
<1>3. n \in Q
  BY <1>1, <1>2, NumberInduction
<1>. QED
  BY <1>3 DEF Q

\* A file is walked from its first row to its last.
LEMMA RowByRow ==
    ASSUME NEW kind, NEW base, NEW S, NEW rows \in Seq(S), NEW y, NEW result,
           result = Outcome(kind, base, rows, y)
    PROVE  \E trail : Trail(trail, kind, base, rows, y) /\ trail[Len(rows)] = result
<1>1. Len(rows) \in Nat
  OBVIOUS
<1>2. PICK g : LeadsTo(g, kind, base, rows, y, Len(rows)) /\ result = g[1 .. Len(rows)]
  <2>1. PICK g : g = CHOOSE h : LeadsTo(h, kind, base, rows, y, Len(rows))
    OBVIOUS
  <2>. QED
    BY <1>1, <2>1, SolutionToRows DEF Outcome
<1>. DEFINE trail == [k \in 0 .. Len(rows) |-> g[1 .. k]]
<1>3. trail[0] = base
  <2>1. 1 .. 0 = {} /\ {} \in SUBSET (1 .. Len(rows))
    OBVIOUS
  <2>. QED
    BY <1>1, <1>2, <2>1 DEF LeadsTo
<1>4. ASSUME NEW k \in 0 .. Len(rows) - 1
      PROVE  trail[k + 1] = RowDone(kind, trail[k], rows[k + 1], y)
  <2>1. PICK m \in Nat : m = k + 1
    BY <1>1
  <2>2. k \in Nat /\ m <= Len(rows)
    BY <1>1, <2>1
  <2>3. (1 .. m) \ {m} = 1 .. k
    BY <2>1, <2>2
  <2>4. 1 .. m \in SUBSET (1 .. Len(rows)) /\ m \in 1 .. m
    BY <1>1, <2>1, <2>2
  <2>5. Top(1 .. m) = m
    BY <2>4, TopIs
  <2>6. g[1 .. m] = RowDone(kind, g[(1 .. m) \ {Top(1 .. m)}], rows[Top(1 .. m)], y)
    BY <1>2, <2>4 DEF LeadsTo
  <2>7. trail[m] = g[1 .. m] /\ trail[k] = g[1 .. k]
    BY <1>1, <2>1, <2>2
  <2>. QED
    BY <2>1, <2>3, <2>5, <2>6, <2>7
<1>5. trail[Len(rows)] = result
  BY <1>1, <1>2
<1>. QED
  BY <1>3, <1>4, <1>5 DEF Trail

LEMMA ImportIsWalk ==
    ASSUME NEW base, NEW S, NEW rows \in Seq(S), NEW y
    PROVE  \E trail : /\ Trail(trail, "import", base, rows, y)
                      /\ trail[Len(rows)] = ImportRows(base, rows, y)
<1>. DEFINE result == ImportRows(base, rows, y)
<1>1. result = Outcome("import", base, rows, y)
  <2>1. DOMAIN rows = 1 .. Len(rows)
    OBVIOUS
  <2>. QED
    BY <2>1 DEF ImportRows, SX!FoldLeft, SX!MapThenFoldSet, LeadsTo, Top, RowDone, Outcome
<1>. HIDE DEF result
<1>2. \E trail : Trail(trail, "import", base, rows, y) /\ trail[Len(rows)] = result
  BY <1>1, RowByRow
<1>. QED
  BY <1>2 DEF result

LEMMA CheckIsWalk ==
    ASSUME NEW S, NEW file \in Seq(S), NEW y
    PROVE  \E trail : /\ Trail(trail, "check", NothingSeen(y), file, y)
                      /\ trail[Len(file)] = ValidateRows(file, y)
<1>. DEFINE base == NothingSeen(y)
<1>1. ValidateRows(file, y) = Outcome("check", base, file, y)
  <2>1. DOMAIN file = 1 .. Len(file)
    OBVIOUS
  <2>. HIDE DEF base
  <2>. QED
    BY <2>1 DEF ValidateRows, SX!FoldLeft, SX!MapThenFoldSet, LeadsTo, Top, RowDone, Outcome, base
<1>. HIDE DEF base
<1>. QED
  BY <1>1, RowByRow DEF base

-----------------------------------------------------------------------------
(* Tables *)

LEMMA RowsAreNeither ==
    /\ Absent \notin Student /\ Gone \notin Student
    /\ Absent \notin Enrollment /\ Gone \notin Enrollment
    /\ Absent \notin Link /\ Gone \notin Link
    /\ Absent \notin Phone /\ Gone \notin Phone
  BY DEF Absent, Gone, Student, Enrollment, Link, Phone

\* A table with a row, or none, for each of some ids.
IsTable(rows, Ids) == rows = [id \in Ids |-> rows[id]]

Put(rows, id, row) == [rows EXCEPT ![id] = row]

LEMMA NewIdIsFree ==
    ASSUME NEW rows, ~Full(rows)
    PROVE  NewId(rows) \in DOMAIN rows /\ rows[NewId(rows)] = Absent
  BY DEF Full, NewId

LEMMA RowAdded ==
    ASSUME NEW Ids, NEW rows, IsTable(rows, Ids), NEW id \in Ids, rows[id] = Absent,
           NEW row, row # Absent, row # Gone, NEW more, more = Put(rows, id, row)
    PROVE  /\ Known(more) = Known(rows) \cup {id}
           /\ id \notin Known(rows)
           /\ more[id] = row
           /\ \A x \in Ids \ {id} : more[x] = rows[x]
           /\ \A x \in Known(rows) : x \in Ids /\ x # id /\ more[x] = rows[x]
<1>1. DOMAIN rows = Ids /\ DOMAIN more = Ids
  BY DEF IsTable, Put
<1>2. more[id] = row /\ \A x \in Ids \ {id} : more[x] = rows[x]
  BY <1>1 DEF Put
<1>. QED
  BY <1>1, <1>2 DEF Known

LEMMA FreeIsNat ==
    ASSUME NEW Ids, IsFiniteSet(Ids), NEW rows, IsTable(rows, Ids)
    PROVE  /\ Free(rows) \in Nat
           /\ Free(rows) > 0 => ~Full(rows)
           /\ IsFiniteSet(Known(rows))
<1>. DEFINE F == {id \in DOMAIN rows : rows[id] = Absent}
<1>. DOMAIN rows = Ids
  BY DEF IsTable
<1>1. IsFiniteSet(F)
  BY FS_Subset
<1>2. Free(rows) \in Nat
  BY <1>1, FS_CardinalityType DEF Free
<1>3. F = {} => Free(rows) = 0
  BY FS_EmptySet DEF Free
<1>4. F # {} => ~Full(rows)
  BY DEF Full
<1>5. IsFiniteSet(Known(rows))
  BY FS_Subset DEF Known
<1>. QED
  BY <1>2, <1>3, <1>4, <1>5

LEMMA FreeAfterNew ==
    ASSUME NEW Ids, IsFiniteSet(Ids), NEW rows, IsTable(rows, Ids), NEW id \in Ids,
           rows[id] = Absent, NEW row, row # Absent, NEW more, more = Put(rows, id, row)
    PROVE  Free(more) = Free(rows) - 1
<1>. DEFINE F == {x \in DOMAIN rows : rows[x] = Absent}
<1>. DOMAIN rows = Ids
  BY DEF IsTable
<1>1. IsFiniteSet(F) /\ id \in F
  BY FS_Subset
<1>2. {x \in DOMAIN more : more[x] = Absent} = F \ {id}
  BY DEF Put
<1>3. Cardinality(F \ {id}) = Cardinality(F) - 1
  BY <1>1, FS_RemoveElement
<1>. QED
  BY <1>2, <1>3 DEF Free

StudentsTable == [Students -> Student \cup {Absent}]

EnrollmentsTable == [EnrollmentIds -> Enrollment \cup {Absent}]

GuardiansTable == [GuardianIds -> Phone \cup {Absent}]

LinksTable == [LinkIds -> Link \cup {Absent, Gone}]

LEMMA TheTables ==
    /\ \A rows \in StudentsTable : IsTable(rows, Students)
    /\ \A rows \in EnrollmentsTable : IsTable(rows, EnrollmentIds)
    /\ \A rows \in GuardiansTable : IsTable(rows, GuardianIds)
    /\ \A rows \in LinksTable : IsTable(rows, LinkIds)
  BY DEF StudentsTable, EnrollmentsTable, GuardiansTable, LinksTable, IsTable

LEMMA KnownRows ==
    /\ \A rows \in StudentsTable : \A id \in Known(rows) : id \in Students /\ rows[id] \in Student
    /\ \A rows \in EnrollmentsTable : \A id \in Known(rows) :
         id \in EnrollmentIds /\ rows[id] \in Enrollment
    /\ \A rows \in GuardiansTable : \A id \in Known(rows) : id \in GuardianIds /\ rows[id] \in Phone
    /\ \A rows \in LinksTable : \A id \in Known(rows) : id \in LinkIds /\ rows[id] \in Link
  BY DEF StudentsTable, EnrollmentsTable, GuardiansTable, LinksTable, Known

-----------------------------------------------------------------------------
(* Student IDs *)

Numbered(rows, last) ==
    /\ last \in Nat
    /\ last = Cardinality(Known(rows))
    /\ {rows[s].number : s \in Known(rows)} = 1 .. last

LEMMA NewStudentType == \A number \in Nat : NewStudent(number) \in Student
  BY DEF NewStudent, Student, StudentStatuses

LEMMA NumberedAdds ==
    ASSUME NEW rows \in StudentsTable, NEW last, Numbered(rows, last), NEW id \in Students,
           rows[id] = Absent, NEW more, more = Put(rows, id, NewStudent(last + 1))
    PROVE  /\ more \in StudentsTable
           /\ Numbered(more, last + 1)
<1>1. last \in Nat /\ NewStudent(last + 1) \in Student /\ NewStudent(last + 1).number = last + 1
  BY NewStudentType DEF Numbered, NewStudent
<1>2. /\ Known(more) = Known(rows) \cup {id} /\ id \notin Known(rows)
      /\ more[id] = NewStudent(last + 1)
      /\ \A x \in Known(rows) : more[x] = rows[x]
  <2>1. IsTable(rows, Students)
    BY TheTables
  <2>2. NewStudent(last + 1) # Absent /\ NewStudent(last + 1) # Gone
    BY <1>1, RowsAreNeither
  <2>. QED
    BY <2>1, <2>2, RowAdded
<1>3. IsFiniteSet(Known(rows))
  BY RegistryAssumption, FreeIsNat, TheTables
<1>4. Cardinality(Known(more)) = last + 1
  BY <1>2, <1>3, FS_AddElement DEF Numbered
<1>. DEFINE numbers == {rows[s].number : s \in Known(rows)}
<1>5. {more[s].number : s \in Known(more)} = numbers \cup {last + 1}
  <2>1. more[id].number = last + 1 /\ \A x \in Known(rows) : more[x].number = rows[x].number
    BY <1>1, <1>2
  <2>2. PICK old : old = Known(rows) /\ Known(more) = old \cup {id}
    BY <1>2
  <2>. QED
    BY <2>1, <2>2
<1>6. 1 .. last + 1 = (1 .. last) \cup {last + 1}
  BY <1>1
<1>7. more \in StudentsTable
  BY <1>1 DEF StudentsTable, Put
<1>. QED
  <2>1. {more[s].number : s \in Known(more)} = 1 .. last + 1
    <3>1. numbers = 1 .. last
      BY DEF Numbered
    <3>. QED
      BY <1>5, <1>6, <3>1
  <2>. QED
    BY <1>1, <1>4, <1>7, <2>1 DEF Numbered

\* An edit that leaves the identifier of a student alone.
LEMMA NumberedStays ==
    ASSUME NEW rows \in StudentsTable, NEW last, Numbered(rows, last), NEW id \in Known(rows),
           NEW row \in Student, row.number = rows[id].number,
           NEW more, more = Put(rows, id, row)
    PROVE  /\ more \in StudentsTable
           /\ Known(more) = Known(rows)
           /\ Numbered(more, last)
<1>1. more \in StudentsTable
  BY DEF StudentsTable, Put
<1>2. Known(more) = Known(rows)
  BY RowsAreNeither DEF Known, StudentsTable, Put
<1>3. \A s \in Known(rows) : more[s].number = rows[s].number
  BY DEF StudentsTable, Known, Put
<1>4. {more[s].number : s \in Known(more)} = {rows[s].number : s \in Known(rows)}
  BY <1>2, <1>3
<1>. QED
  BY <1>1, <1>2, <1>4 DEF Numbered

-----------------------------------------------------------------------------
(* Places *)

\* A class is taken only where it is taught.
FitsClass(row) ==
    row.classSection # None =>
        /\ ClassLevel[row.classSection] = row.level
        /\ ClassYear[row.classSection] = row.academicYear

BothLive(a, b) ==
    /\ a.status = "ENROLLED" /\ b.status = "ENROLLED"
    /\ a.student = b.student /\ a.academicYear = b.academicYear

Enrolled(en, st) ==
    /\ \A e \in Known(en) : en[e].student \in Known(st) /\ FitsClass(en[e])
    /\ \A e, f \in Known(en) : BothLive(en[e], en[f]) => e = f

LEMMA EnrolledAdds ==
    ASSUME NEW en \in EnrollmentsTable, NEW st, Enrolled(en, st), NEW row \in Enrollment,
           row.student \in Known(st), FitsClass(row),
           \A e \in Known(en) : ~BothLive(en[e], row),
           NEW id \in EnrollmentIds, en[id] = Absent,
           NEW more, more = Put(en, id, row)
    PROVE  /\ more \in EnrollmentsTable
           /\ Enrolled(more, st)
<1>1. /\ Known(more) = Known(en) \cup {id} /\ id \notin Known(en)
      /\ more[id] = row
      /\ \A x \in Known(en) : more[x] = en[x]
  <2>1. IsTable(en, EnrollmentIds)
    BY TheTables
  <2>2. row # Absent /\ row # Gone
    BY RowsAreNeither
  <2>. QED
    BY <2>1, <2>2, RowAdded
<1>2. more \in EnrollmentsTable
  BY DEF EnrollmentsTable, Put
<1>3. \A e \in Known(more) : more[e].student \in Known(st) /\ FitsClass(more[e])
  BY <1>1 DEF Enrolled
<1>4. ASSUME NEW e \in Known(more), NEW f \in Known(more), BothLive(more[e], more[f])
      PROVE  e = f
  <2>1. CASE e = id /\ f = id
    BY <2>1
  <2>2. CASE e = id /\ f # id
    <3>1. f \in Known(en) /\ ~BothLive(en[f], row)
      BY <1>1, <2>2
    <3>. QED
      BY <1>1, <1>4, <2>2, <3>1 DEF BothLive
  <2>3. CASE e # id /\ f = id
    <3>1. e \in Known(en) /\ ~BothLive(en[e], row)
      BY <1>1, <2>3
    <3>. QED
      BY <1>1, <1>4, <2>3, <3>1 DEF BothLive
  <2>4. CASE e # id /\ f # id
    BY <1>1, <1>4, <2>4 DEF Enrolled
  <2>. QED
    BY <2>1, <2>2, <2>3, <2>4
<1>. QED
  BY <1>2, <1>3, <1>4 DEF Enrolled

\* An edit that keeps the student and the year, and ends an enrolment or moves it.
LEMMA EnrolledStays ==
    ASSUME NEW en \in EnrollmentsTable, NEW st, Enrolled(en, st), NEW id \in Known(en),
           NEW row \in Enrollment, row.student = en[id].student,
           row.academicYear = en[id].academicYear, FitsClass(row),
           en[id].status = "ENROLLED",
           NEW more, more = Put(en, id, row)
    PROVE  /\ more \in EnrollmentsTable
           /\ Known(more) = Known(en)
           /\ Enrolled(more, st)
<1>1. more \in EnrollmentsTable
  BY DEF EnrollmentsTable, Put
<1>2. Known(more) = Known(en) /\ more[id] = row /\ \A e \in Known(en) \ {id} : more[e] = en[e]
  BY RowsAreNeither DEF Known, EnrollmentsTable, Put
<1>3. \A e \in Known(more) : more[e].student \in Known(st) /\ FitsClass(more[e])
  BY <1>2 DEF Enrolled
<1>4. ASSUME NEW e \in Known(more), NEW f \in Known(more), BothLive(more[e], more[f])
      PROVE  e = f
  <2>1. \A k \in Known(en) : /\ more[k].student = en[k].student
                             /\ more[k].academicYear = en[k].academicYear
                             /\ more[k].status = "ENROLLED" => en[k].status = "ENROLLED"
    BY <1>2
  <2>2. BothLive(en[e], en[f])
    BY <1>2, <1>4, <2>1 DEF BothLive
  <2>. QED
    BY <1>2, <2>2 DEF Enrolled
<1>. QED
  BY <1>1, <1>2, <1>3, <1>4 DEF Enrolled

LEMMA EnrolledWithMore ==
    ASSUME NEW en, NEW st, Enrolled(en, st), NEW more, Known(st) \subseteq Known(more)
    PROVE  Enrolled(en, more)
  BY DEF Enrolled

-----------------------------------------------------------------------------
(* Who is rung first *)

Linked(li, st) == \A k \in Known(li) : li[k].student \in Known(st)

\* Of each student at most one link is the primary contact.
FirstAlone(li) ==
    \A k, l \in Known(li) :
        /\ li[k].isPrimaryContact /\ li[l].isPrimaryContact
        /\ li[k].student = li[l].student
        => k = l

\* Nobody but the links of one id is primary contact of a student.
NoneButFor(li, s, id) ==
    \A k \in Known(li) : li[k].student = s /\ li[k].isPrimaryContact => k = id

\* Nobody is.
NobodyFirst(li, s) ==
    \A k \in Known(li) : li[k].student = s => ~li[k].isPrimaryContact

LEMMA LinkAdded ==
    ASSUME NEW li \in LinksTable, NEW st, Linked(li, st), NEW row \in Link,
           row.student \in Known(st), NEW id \in LinkIds, li[id] = Absent,
           NEW more, more = Put(li, id, row)
    PROVE  /\ more \in LinksTable
           /\ Linked(more, st)
           /\ FirstAlone(li) /\ (row.isPrimaryContact => NobodyFirst(li, row.student))
                => FirstAlone(more)
<1>1. /\ Known(more) = Known(li) \cup {id} /\ id \notin Known(li)
      /\ more[id] = row
      /\ \A x \in Known(li) : more[x] = li[x]
  <2>1. IsTable(li, LinkIds)
    BY TheTables
  <2>2. row # Absent /\ row # Gone
    BY RowsAreNeither
  <2>. QED
    BY <2>1, <2>2, RowAdded
<1>2. more \in LinksTable
  BY DEF LinksTable, Put
<1>3. Linked(more, st)
  BY <1>1 DEF Linked
<1>4. ASSUME FirstAlone(li), row.isPrimaryContact => NobodyFirst(li, row.student)
      PROVE  FirstAlone(more)
  BY <1>1, <1>4 DEF FirstAlone, NobodyFirst
<1>. QED
  BY <1>2, <1>3, <1>4

-----------------------------------------------------------------------------
(* One row of an import *)

Tables(st, en, last, gu, li) ==
    [students |-> st, enrollments |-> en, lastValue |-> last, guardians |-> gu, links |-> li]

WithNumber(gu, number) == {g \in Known(gu) : gu[g] = NormalisePhone(number)}

GuardiansWith(gu, number) ==
    IF WithNumber(gu, number) # {} THEN gu ELSE Put(gu, NewId(gu), NormalisePhone(number))

FirstLink(gu, s, number) ==
    [student |-> s, guardian |-> CHOOSE g \in WithNumber(gu, number) : TRUE,
     isPrimaryContact |-> TRUE, version |-> 0]

RowEnrollment(st, row, y) == NewEnrollment(NewId(st), y, row.level, row.classSection)

\* A table is replaced.
WithGuardians(db, new) == [db EXCEPT !.guardians = new]

WithLinks(db, new) == [db EXCEPT !.links = new]

WithThree(db, last, st, en) ==
    [db EXCEPT !.lastValue = last, !.students = st, !.enrollments = en]

LEMMA TableReplaced ==
    ASSUME NEW st, NEW en, NEW last, NEW gu, NEW li, NEW new
    PROVE  /\ WithGuardians(Tables(st, en, last, gu, li), new) = Tables(st, en, last, new, li)
           /\ WithLinks(Tables(st, en, last, gu, li), new) = Tables(st, en, last, gu, new)
<1>1. [Tables(st, en, last, gu, li) EXCEPT !.guardians = new] = Tables(st, en, last, new, li)
  BY DEF Tables
<1>2. [Tables(st, en, last, gu, li) EXCEPT !.links = new] = Tables(st, en, last, gu, new)
  BY DEF Tables
<1>. QED
  BY <1>1, <1>2 DEF WithGuardians, WithLinks

LEMMA ThreeReplaced ==
    ASSUME NEW st, NEW en, NEW last, NEW gu, NEW li, NEW a, NEW b, NEW c
    PROVE  WithThree(Tables(st, en, last, gu, li), a, b, c) = Tables(b, c, a, gu, li)
<1>1. WithThree(Tables(st, en, last, gu, li), a, b, c)
        = [[[Tables(st, en, last, gu, li) EXCEPT !.lastValue = a]
              EXCEPT !.students = b] EXCEPT !.enrollments = c]
  BY DEF WithThree
<1>2. [Tables(st, en, last, gu, li) EXCEPT !.lastValue = a] = Tables(st, en, a, gu, li)
  BY DEF Tables
<1>3. [Tables(st, en, a, gu, li) EXCEPT !.students = b] = Tables(b, en, a, gu, li)
  BY DEF Tables
<1>4. [Tables(b, en, a, gu, li) EXCEPT !.enrollments = c] = Tables(b, c, a, gu, li)
  BY DEF Tables
<1>. QED
  BY <1>1, <1>2, <1>3, <1>4

LEMMA ImportRowIs ==
    ASSUME NEW st, NEW en, NEW last, NEW gu, NEW li, NEW row, NEW y
    PROVE  LET db == ImportRow(Tables(st, en, last, gu, li), row, y)
               more == GuardiansWith(gu, row.guardianPhone)
           IN
           /\ db = Tables(db.students, db.enrollments, db.lastValue, db.guardians, db.links)
           /\ db.students = Put(st, NewId(st), NewStudent(last + 1))
           /\ db.enrollments = Put(en, NewId(en), RowEnrollment(st, row, y))
           /\ db.lastValue = last + 1
           /\ row.guardianPhone = None => db.guardians = gu /\ db.links = li
           /\ row.guardianPhone # None =>
                /\ db.guardians = more
                /\ db.links = Put(li, NewId(li), FirstLink(more, NewId(st), row.guardianPhone))
<1>. DEFINE db == Tables(st, en, last, gu, li)
            number == row.guardianPhone
            s == NewId(st)
            more == GuardiansWith(gu, number)
            placed == Tables(Put(st, s, NewStudent(last + 1)),
                             Put(en, NewId(en), RowEnrollment(st, row, y)), last + 1, gu, li)
            withGuardian == WithGuardians(placed, more)
<1>1. [db EXCEPT !.lastValue = @ + 1,
                 !.students[s] = NewStudent(db.lastValue + 1),
                 !.enrollments[NewId(db.enrollments)] =
                     NewEnrollment(s, y, row.level, row.classSection)] = placed
  <2>1. db.students = st /\ db.enrollments = en /\ db.lastValue = last
    BY DEF Tables
  <2>2. WithThree(db, last + 1, Put(st, s, NewStudent(last + 1)),
                  Put(en, NewId(en), RowEnrollment(st, row, y))) = placed
    BY ThreeReplaced
  <2>. QED
    BY <2>1, <2>2 DEF WithThree, Put, RowEnrollment
<1>2. ImportRow(db, row, y) =
        IF number = None THEN placed ELSE ImportLink(ImportGuardian(placed, number), s, number)
  BY <1>1 DEF ImportRow, Tables
<1>3. ImportGuardian(placed, number) = withGuardian
  BY DEF ImportGuardian, HasPhone, GuardiansWith, WithNumber, Put, Tables, WithGuardians
<1>4. withGuardian = Tables(placed.students, placed.enrollments, last + 1, more, li)
  <2>1. placed = Tables(placed.students, placed.enrollments, last + 1, gu, li)
    BY DEF Tables
  <2>. HIDE DEF placed
  <2>. QED
    BY <2>1, TableReplaced
<1>5. ImportLink(withGuardian, s, number) =
        WithLinks(withGuardian, Put(li, NewId(li), FirstLink(more, s, number)))
  <2>1. withGuardian.links = li /\ withGuardian.guardians = more
    BY <1>4 DEF Tables
  <2>. HIDE DEF withGuardian
  <2>. QED
    BY <2>1 DEF ImportLink, HasPhone, WithNumber, Put, FirstLink, WithLinks
<1>6. ImportLink(withGuardian, s, number) =
        Tables(placed.students, placed.enrollments, last + 1, more,
               Put(li, NewId(li), FirstLink(more, s, number)))
  <2>. HIDE DEF placed, withGuardian, more
  <2>. QED
    BY <1>4, <1>5, TableReplaced
<1>7. /\ number = None => ImportRow(db, row, y) = placed
      /\ number # None =>
           ImportRow(db, row, y) =
             Tables(placed.students, placed.enrollments, last + 1, more,
                    Put(li, NewId(li), FirstLink(more, s, number)))
  BY <1>2, <1>3, <1>6
<1>8. \A a, b, c, d, e :
        LET t == Tables(a, b, c, d, e) IN
        /\ t.students = a /\ t.enrollments = b /\ t.lastValue = c
        /\ t.guardians = d /\ t.links = e
  BY DEF Tables
<1>. QED
  BY <1>7, <1>8

-----------------------------------------------------------------------------
(* What an import keeps, row by row *)

Sound(db) ==
    /\ db = Tables(db.students, db.enrollments, db.lastValue, db.guardians, db.links)
    /\ db.students \in StudentsTable
    /\ db.enrollments \in EnrollmentsTable
    /\ db.guardians \in GuardiansTable
    /\ db.links \in LinksTable
    /\ Numbered(db.students, db.lastValue)
    /\ Enrolled(db.enrollments, db.students)
    /\ Linked(db.links, db.students)

\* What was there stays, and whoever is new is enrolled.
Grown(a, b) ==
    /\ \A s \in Known(a.students) : s \in Known(b.students) /\ b.students[s] = a.students[s]
    /\ \A e \in Known(a.enrollments) :
         e \in Known(b.enrollments) /\ b.enrollments[e] = a.enrollments[e]
    /\ \A s \in Known(b.students) \ Known(a.students) :
         \E e \in Known(b.enrollments) : b.enrollments[e].student = s
    /\ FirstAlone(a.links) => FirstAlone(b.links)

\* A row that was found in order.
InOrder(row, y) ==
    /\ row.level \in Levels
    /\ row.classSection \in Classes \cup {None}
    /\ row.guardianPhone \in Phones \cup {None}
    /\ row.classSection # None => NamesClass(row, y)

\* There are ids left for so many rows, and for a guardian of each number.
RoomFor(db, many) ==
    /\ Free(db.students) >= many
    /\ Free(db.enrollments) >= many
    /\ Free(db.links) >= many

NewNumbers(gu, numbers) == {n \in numbers \ {None} : WithNumber(gu, n) = {}}

RoomForNumbers(gu, numbers) == Free(gu) >= Cardinality(NewNumbers(gu, numbers))

LEMMA GuardianOfRow ==
    ASSUME NEW gu \in GuardiansTable, NEW numbers, IsFiniteSet(numbers),
           RoomForNumbers(gu, numbers), NEW number \in numbers \cap Phones, number # None,
           NEW others \in SUBSET numbers
    PROVE  LET more == GuardiansWith(gu, number) IN
           /\ more \in GuardiansTable
           /\ WithNumber(more, number) # {}
           /\ RoomForNumbers(more, others)
<1>. DEFINE more == GuardiansWith(gu, number)
            missing == NewNumbers(gu, numbers)
<1>1. IsFiniteSet(missing) /\ Cardinality(missing) \in Nat
  BY FS_Subset, FS_CardinalityType DEF NewNumbers
<1>2. Free(gu) \in Nat /\ (Free(gu) > 0 => ~Full(gu))
  BY FreeIsNat, TheTables, RegistryAssumption
<1>3. CASE WithNumber(gu, number) # {}
  <2>1. NewNumbers(gu, others) \subseteq missing
    BY DEF NewNumbers
  <2>2. Cardinality(NewNumbers(gu, others)) \in Nat
    BY <1>1, <2>1, FS_Subset, FS_CardinalityType
  <2>3. Cardinality(NewNumbers(gu, others)) <= Cardinality(missing)
    BY <1>1, <2>1, FS_Subset
  <2>. QED
    BY <1>1, <1>2, <1>3, <2>2, <2>3 DEF RoomForNumbers, GuardiansWith
<1>4. CASE WithNumber(gu, number) = {}
  <2>. DEFINE id == NewId(gu)
              row == NormalisePhone(number)
  <2>1. number \in missing
    BY <1>4 DEF NewNumbers
  <2>2. Cardinality(missing \ {number}) = Cardinality(missing) - 1 /\ Cardinality(missing) > 0
    <3>1. Cardinality(missing \ {number}) = Cardinality(missing) - 1
      BY <1>1, <2>1, FS_RemoveElement
    <3>2. Cardinality(missing \ {number}) \in Nat
      BY <1>1, FS_Subset, FS_CardinalityType
    <3>. QED
      BY <1>1, <3>1, <3>2
  <2>3. ~Full(gu)
    BY <1>1, <1>2, <2>2 DEF RoomForNumbers
  <2>4. id \in GuardianIds /\ gu[id] = Absent
    BY <2>3, NewIdIsFree DEF GuardiansTable
  <2>5. row \in Phone /\ row # Absent /\ row # Gone
    <3>1. row \in Phone
      BY DEF NormalisePhone, Phone
    <3>. QED
      BY <3>1, RowsAreNeither
  <2>6. more = Put(gu, id, row)
    BY <1>4 DEF GuardiansWith
  <2>. HIDE DEF more, id, row, missing
  <2>7. /\ Known(more) = Known(gu) \cup {id} /\ more[id] = row
        /\ \A x \in Known(gu) : more[x] = gu[x]
        /\ Free(more) = Free(gu) - 1
    BY <2>4, <2>5, <2>6, TheTables, RowAdded, FreeAfterNew, RegistryAssumption
  <2>8. more \in GuardiansTable
    BY <2>4, <2>5, <2>6 DEF GuardiansTable, Put
  <2>9. WithNumber(more, number) # {}
    BY <2>7 DEF WithNumber, row
  <2>10. NewNumbers(more, others) \subseteq missing \ {number}
    BY <2>7, <2>9 DEF NewNumbers, WithNumber, missing
  <2>11. Cardinality(NewNumbers(more, others)) <= Cardinality(missing \ {number})
         /\ Cardinality(NewNumbers(more, others)) \in Nat
    BY <1>1, <2>10, FS_Subset, FS_CardinalityType
  <2>12. RoomForNumbers(more, others)
    BY <1>1, <1>2, <2>2, <2>7, <2>11 DEF RoomForNumbers, missing
  <2>. QED
    BY <2>8, <2>9, <2>12 DEF more
<1>. QED
  BY <1>3, <1>4

LEMMA NewEnrollmentType ==
    ASSUME NEW s \in Students, NEW y \in Years, NEW level \in Levels,
           NEW c \in Classes \cup {None}
    PROVE  /\ NewEnrollment(s, y, level, c) \in Enrollment
           /\ NewEnrollment(s, y, level, c).student = s
           /\ NewEnrollment(s, y, level, c).academicYear = y
           /\ NewEnrollment(s, y, level, c).level = level
           /\ NewEnrollment(s, y, level, c).classSection = c
           /\ NewEnrollment(s, y, level, c).status = "ENROLLED"
  BY DEF NewEnrollment, Enrollment, EnrollmentStatuses

\* What the import of a row leads to.
Imported(db, more, row, many, others) ==
    /\ Sound(more)
    /\ Grown(db, more)
    /\ RoomFor(more, many - 1)
    /\ RoomForNumbers(more.guardians, others)
    /\ \E e \in EnrollmentIds, placed \in Enrollment :
         /\ db.enrollments[e] = Absent
         /\ more.enrollments = Put(db.enrollments, e, placed)
         /\ placed.classSection = row.classSection
         /\ placed.status = "ENROLLED"

\* A student is added, with an enrolment and, where a number is given, a link.
LEMMA RowImported ==
    ASSUME NEW db, Sound(db), NEW y \in Years, NEW row, InOrder(row, y),
           NEW many \in Nat, many > 0, RoomFor(db, many),
           NEW numbers, IsFiniteSet(numbers), RoomForNumbers(db.guardians, numbers),
           row.guardianPhone \in numbers, NEW others \in SUBSET numbers
    PROVE  Imported(db, ImportRow(db, row, y), row, many, others)
<1>. DEFINE more == ImportRow(db, row, y)
            gu == GuardiansWith(db.guardians, row.guardianPhone)
<1>1. PICK st, en, last, li : /\ st = db.students /\ en = db.enrollments
                              /\ last = db.lastValue /\ li = db.links
                              /\ db = Tables(st, en, last, db.guardians, li)
  BY DEF Sound
<1>2. /\ st \in StudentsTable /\ en \in EnrollmentsTable /\ li \in LinksTable
      /\ db.guardians \in GuardiansTable
      /\ Numbered(st, last) /\ Enrolled(en, st) /\ Linked(li, st)
  BY <1>1 DEF Sound
<1>. DEFINE s == NewId(st)
            e == NewId(en)
            k == NewId(li)
            placed == RowEnrollment(st, row, y)
            link == FirstLink(gu, s, row.guardianPhone)
<1>3. /\ more = Tables(more.students, more.enrollments, more.lastValue, more.guardians, more.links)
      /\ more.students = Put(st, s, NewStudent(last + 1))
      /\ more.enrollments = Put(en, e, placed)
      /\ more.lastValue = last + 1
      /\ row.guardianPhone = None => more.guardians = db.guardians /\ more.links = li
      /\ row.guardianPhone # None => more.guardians = gu /\ more.links = Put(li, k, link)
  BY <1>1, ImportRowIs
<1>4. ~Full(st) /\ ~Full(en) /\ ~Full(li)
      /\ Free(st) \in Nat /\ Free(en) \in Nat /\ Free(li) \in Nat
  <2>1. Free(st) >= many /\ Free(en) >= many /\ Free(li) >= many
    BY <1>1 DEF RoomFor
  <2>. QED
    BY <1>2, <2>1, FreeIsNat, TheTables, RegistryAssumption
<1>5. /\ s \in Students /\ st[s] = Absent
      /\ e \in EnrollmentIds /\ en[e] = Absent
      /\ k \in LinkIds /\ li[k] = Absent
  BY <1>2, <1>4, NewIdIsFree DEF StudentsTable, EnrollmentsTable, LinksTable
<1>6. /\ placed \in Enrollment /\ placed.student = s /\ placed.status = "ENROLLED"
      /\ placed.classSection = row.classSection /\ FitsClass(placed)
  <2>1. /\ placed \in Enrollment /\ placed.student = s /\ placed.status = "ENROLLED"
        /\ placed.classSection = row.classSection /\ placed.level = row.level
        /\ placed.academicYear = y
    BY <1>5, NewEnrollmentType DEF RowEnrollment, InOrder
  <2>. QED
    BY <2>1 DEF InOrder, NamesClass, FitsClass
<1>7. NewStudent(last + 1) # Absent /\ NewStudent(last + 1) # Gone
  BY <1>2, NewStudentType, RowsAreNeither DEF Numbered
<1>. HIDE DEF more, gu, s, e, k, placed, link
<1>8. /\ Known(more.students) = Known(st) \cup {s} /\ s \notin Known(st)
      /\ \A x \in Known(st) : more.students[x] = st[x]
      /\ Free(more.students) = Free(st) - 1
  BY <1>2, <1>3, <1>5, <1>7, TheTables, RowAdded, FreeAfterNew, RegistryAssumption
<1>9. /\ Known(more.enrollments) = Known(en) \cup {e} /\ e \notin Known(en)
      /\ more.enrollments[e] = placed
      /\ \A x \in Known(en) : more.enrollments[x] = en[x]
      /\ Free(more.enrollments) = Free(en) - 1
  <2>1. placed # Absent /\ placed # Gone
    BY <1>6, RowsAreNeither
  <2>. QED
    BY <1>2, <1>3, <1>5, <2>1, TheTables, RowAdded, FreeAfterNew, RegistryAssumption
<1>10. /\ more.students \in StudentsTable
       /\ Numbered(more.students, more.lastValue)
  BY <1>2, <1>3, <1>5, NumberedAdds
<1>11. /\ more.enrollments \in EnrollmentsTable
       /\ Enrolled(more.enrollments, more.students)
  <2>1. Enrolled(en, more.students)
    BY <1>2, <1>8, EnrolledWithMore
  <2>2. ASSUME NEW x \in Known(en)
        PROVE  ~BothLive(en[x], placed)
    <3>1. en[x].student \in Known(st)
      BY <1>2 DEF Enrolled
    <3>. QED
      BY <1>6, <1>8, <3>1 DEF BothLive
  <2>3. placed.student \in Known(more.students)
    BY <1>6, <1>8
  <2>. QED
    BY <1>2, <1>3, <1>5, <1>6, <2>1, <2>2, <2>3, EnrolledAdds
<1>12. Linked(li, more.students)
  BY <1>2, <1>8 DEF Linked
<1>13. CASE row.guardianPhone = None
  <2>1. NewNumbers(db.guardians, others) \subseteq NewNumbers(db.guardians, numbers)
    BY DEF NewNumbers
  <2>2. IsFiniteSet(NewNumbers(db.guardians, numbers))
    BY FS_Subset DEF NewNumbers
  <2>3. /\ Cardinality(NewNumbers(db.guardians, others))
             <= Cardinality(NewNumbers(db.guardians, numbers))
        /\ Cardinality(NewNumbers(db.guardians, others)) \in Nat
        /\ Cardinality(NewNumbers(db.guardians, numbers)) \in Nat
    BY <2>1, <2>2, FS_Subset, FS_CardinalityType
  <2>4. Free(db.guardians) \in Nat
    BY <1>2, FreeIsNat, TheTables, RegistryAssumption
  <2>5. RoomForNumbers(more.guardians, others)
    BY <1>3, <1>13, <2>3, <2>4 DEF RoomForNumbers
  <2>6. RoomFor(more, many - 1)
    BY <1>1, <1>3, <1>4, <1>8, <1>9, <1>13 DEF RoomFor
  <2>7. Sound(more)
    BY <1>2, <1>3, <1>10, <1>11, <1>12, <1>13 DEF Sound
  <2>8. Grown(db, more)
    BY <1>1, <1>3, <1>6, <1>8, <1>9, <1>13 DEF Grown
  <2>. QED
    BY <1>1, <1>3, <1>5, <1>6, <2>5, <2>6, <2>7, <2>8 DEF more, Imported
<1>14. CASE row.guardianPhone # None
  <2>1. /\ gu \in GuardiansTable /\ WithNumber(gu, row.guardianPhone) # {}
        /\ RoomForNumbers(gu, others)
    <3>1. row.guardianPhone \in numbers \cap Phones
      BY <1>14 DEF InOrder
    <3>. QED
      BY <1>2, <1>14, <3>1, GuardianOfRow DEF gu
  <2>2. link \in Link /\ link.student = s /\ link.isPrimaryContact = TRUE
    <3>1. \A g \in WithNumber(gu, row.guardianPhone) : g \in GuardianIds
      BY <2>1, KnownRows DEF WithNumber
    <3>2. (CHOOSE g \in WithNumber(gu, row.guardianPhone) : TRUE) \in GuardianIds
      BY <2>1, <3>1
    <3>. QED
      BY <1>5, <3>2 DEF link, FirstLink, Link
  <2>3. NobodyFirst(li, link.student)
    BY <1>2, <1>8, <2>2 DEF NobodyFirst, Linked
  <2>4. /\ more.links \in LinksTable /\ Linked(more.links, more.students)
        /\ FirstAlone(li) => FirstAlone(more.links)
    <3>1. link.student \in Known(more.students) /\ more.links = Put(li, k, link)
      BY <1>3, <1>8, <1>14, <2>2
    <3>. QED
      BY <1>2, <1>5, <1>12, <2>2, <2>3, <3>1, LinkAdded
  <2>5. Free(more.links) = Free(li) - 1
    <3>1. link # Absent
      BY <2>2, RowsAreNeither
    <3>. QED
      BY <1>2, <1>3, <1>5, <1>14, <3>1, TheTables, FreeAfterNew, RegistryAssumption
  <2>6. RoomFor(more, many - 1)
    BY <1>1, <1>4, <1>8, <1>9, <2>5 DEF RoomFor
  <2>7. Sound(more)
    BY <1>3, <1>10, <1>11, <1>14, <2>1, <2>4 DEF Sound
  <2>8. Grown(db, more)
    BY <1>1, <1>6, <1>8, <1>9, <2>4 DEF Grown
  <2>. QED
    BY <1>1, <1>3, <1>5, <1>6, <1>14, <2>1, <2>6, <2>7, <2>8 DEF more, Imported
<1>. QED
  BY <1>13, <1>14

-----------------------------------------------------------------------------
(* A file imported *)

InClass(en, c) == {e \in Known(en) : en[e].status = "ENROLLED" /\ en[e].classSection = c}

RowsFor(rows, c, n) == {i \in 1 .. n : rows[i].classSection = c}

Place(row, c) == IF row.classSection = c THEN 1 ELSE 0

NumbersAfter(rows, k) == {rows[i].guardianPhone : i \in k + 1 .. Len(rows)}

\* Whoever a row places in a class takes one place there.
LEMMA PlacesTaken ==
    ASSUME NEW en \in EnrollmentsTable, NEW id \in EnrollmentIds, en[id] = Absent,
           NEW row \in Enrollment, row.status = "ENROLLED", NEW c
    PROVE  Cardinality(InClass(Put(en, id, row), c)) =
             Cardinality(InClass(en, c)) + Place(row, c)
<1>. DEFINE more == Put(en, id, row)
<1>1. IsTable(en, EnrollmentIds) /\ row # Absent /\ row # Gone
  BY TheTables, RowsAreNeither
<1>2. /\ Known(more) = Known(en) \cup {id} /\ id \notin Known(en)
      /\ more[id] = row /\ \A x \in Known(en) : more[x] = en[x]
  BY <1>1, RowAdded
<1>3. IsFiniteSet(InClass(en, c))
  BY <1>1, FreeIsNat, FS_Subset, RegistryAssumption DEF InClass
<1>. HIDE DEF more
<1>4. CASE row.classSection = c
  <2>1. InClass(more, c) = InClass(en, c) \cup {id} /\ id \notin InClass(en, c)
    BY <1>2, <1>4 DEF InClass
  <2>. QED
    BY <1>3, <1>4, <2>1, FS_AddElement DEF more, Place
<1>5. CASE row.classSection # c
  <2>1. InClass(more, c) = InClass(en, c)
    BY <1>2, <1>5 DEF InClass
  <2>2. Cardinality(InClass(en, c)) \in Nat
    BY <1>3, FS_CardinalityType
  <2>. QED
    BY <1>5, <2>1, <2>2 DEF more, Place
<1>. QED
  BY <1>4, <1>5

LEMMA RowsForNext ==
    ASSUME NEW rows, NEW c, NEW n \in Nat
    PROVE  /\ IsFiniteSet(RowsFor(rows, c, n)) /\ Cardinality(RowsFor(rows, c, n)) \in Nat
           /\ Cardinality(RowsFor(rows, c, n + 1)) =
                Cardinality(RowsFor(rows, c, n)) + Place(rows[n + 1], c)
           /\ Cardinality(RowsFor(rows, c, 0)) = 0
<1>1. IsFiniteSet(1 .. n)
  BY FS_Interval
<1>2. IsFiniteSet(RowsFor(rows, c, n)) /\ Cardinality(RowsFor(rows, c, n)) \in Nat
  BY <1>1, FS_Subset, FS_CardinalityType DEF RowsFor
<1>3. 1 .. n + 1 = (1 .. n) \cup {n + 1} /\ n + 1 \notin 1 .. n
  OBVIOUS
<1>. DEFINE one == Place(rows[n + 1], c)
<1>4. ASSUME rows[n + 1].classSection = c
      PROVE  Cardinality(RowsFor(rows, c, n + 1)) = Cardinality(RowsFor(rows, c, n)) + one
  <2>1. RowsFor(rows, c, n + 1) = RowsFor(rows, c, n) \cup {n + 1} /\ n + 1 \notin RowsFor(rows, c, n)
    BY <1>3, <1>4 DEF RowsFor
  <2>. QED
    BY <1>2, <1>4, <2>1, FS_AddElement DEF Place
<1>5. ASSUME rows[n + 1].classSection # c
      PROVE  Cardinality(RowsFor(rows, c, n + 1)) = Cardinality(RowsFor(rows, c, n)) + one
  <2>1. RowsFor(rows, c, n + 1) = RowsFor(rows, c, n)
    BY <1>3, <1>5 DEF RowsFor
  <2>. QED
    BY <1>2, <1>5, <2>1 DEF Place
<1>6. RowsFor(rows, c, 0) = {}
  BY DEF RowsFor
<1>. QED
  BY <1>2, <1>4, <1>5, <1>6, FS_EmptySet

\* What an import leads to, up to each of its rows.
ImportedSoFar(base, db, rows, k) ==
    /\ Sound(db)
    /\ Grown(base, db)
    /\ RoomFor(db, Len(rows) - k)
    /\ RoomForNumbers(db.guardians, NumbersAfter(rows, k))
    /\ \A c : Cardinality(InClass(db.enrollments, c)) =
                Cardinality(InClass(base.enrollments, c)) + Cardinality(RowsFor(rows, c, k))

LEMMA GrownOn ==
    ASSUME NEW a, NEW b, NEW c, Grown(a, b), Grown(b, c)
    PROVE  Grown(a, c)
<1>1. \A s \in Known(a.students) : s \in Known(c.students) /\ c.students[s] = a.students[s]
  BY DEF Grown
<1>2. \A e \in Known(a.enrollments) :
         e \in Known(c.enrollments) /\ c.enrollments[e] = a.enrollments[e]
  BY DEF Grown
<1>3. ASSUME NEW s \in Known(c.students) \ Known(a.students)
      PROVE  \E e \in Known(c.enrollments) : c.enrollments[e].student = s
  <2>1. CASE s \in Known(b.students)
    <3>1. PICK e \in Known(b.enrollments) : b.enrollments[e].student = s
      BY <1>3, <2>1 DEF Grown
    <3>2. e \in Known(c.enrollments) /\ c.enrollments[e] = b.enrollments[e]
      BY <3>1 DEF Grown
    <3>. QED
      BY <3>1, <3>2
  <2>2. CASE s \notin Known(b.students)
    BY <1>3, <2>2 DEF Grown
  <2>. QED
    BY <2>1, <2>2
<1>. QED
  BY <1>1, <1>2, <1>3 DEF Grown

\* A transaction that imports a file in order does what its rows do, and no more.
LEMMA FileImported ==
    ASSUME NEW base, Sound(base), NEW y \in Years, NEW S, NEW rows \in Seq(S),
           \A i \in 1 .. Len(rows) : InOrder(rows[i], y),
           RoomFor(base, Len(rows)), RoomForNumbers(base.guardians, NumbersAfter(rows, 0)),
           NEW trail, Trail(trail, "import", base, rows, y)
    PROVE  ImportedSoFar(base, trail[Len(rows)], rows, Len(rows))
<1>. DEFINE N == Len(rows)
            Q == {k \in Nat : k <= N => ImportedSoFar(base, trail[k], rows, k)}
<1>1. N \in Nat
  OBVIOUS
<1>2. \A k \in Nat : IsFiniteSet(NumbersAfter(rows, k))
  <2>1. TAKE k \in Nat
  <2>2. IsFiniteSet(k + 1 .. N)
    BY <1>1, FS_Interval
  <2>3. [i \in k + 1 .. N |-> rows[i].guardianPhone] \in Surjection(k + 1 .. N, NumbersAfter(rows, k))
    BY DEF NumbersAfter, Surjection
  <2>. HIDE DEF N
  <2>. QED
    BY <2>2, <2>3, FS_Surjection
<1>3. \A c : Cardinality(InClass(base.enrollments, c)) \in Nat
  <2>1. TAKE c
  <2>2. IsFiniteSet(InClass(base.enrollments, c))
    BY FreeIsNat, TheTables, FS_Subset, RegistryAssumption DEF InClass, Sound
  <2>. QED
    BY <2>2, FS_CardinalityType
<1>4. 0 \in Q
  <2>1. trail[0] = base
    BY DEF Trail
  <2>2. \A c : Cardinality(RowsFor(rows, c, 0)) = 0
    BY RowsForNext
  <2>3. Grown(base, base)
    BY DEF Grown
  <2>. QED
    BY <1>1, <1>3, <2>1, <2>2, <2>3 DEF ImportedSoFar
<1>5. ASSUME NEW k \in Nat, k \in Q
      PROVE  k + 1 \in Q
  <2>. SUFFICES ASSUME k + 1 <= N
                PROVE  ImportedSoFar(base, trail[k + 1], rows, k + 1)
    OBVIOUS
  <2>. DEFINE row == rows[k + 1]
              db == trail[k]
  <2>1. ImportedSoFar(base, db, rows, k)
    BY <1>5
  <2>2. trail[k + 1] = ImportRow(db, row, y)
    <3>1. k \in 0 .. N - 1
      BY <1>1
    <3>. QED
      BY <3>1 DEF Trail, RowDone
  <2>3. InOrder(row, y)
    <3>1. k + 1 \in 1 .. Len(rows)
      BY <1>1
    <3>. QED
      BY <3>1
  <2>4. row.guardianPhone \in NumbersAfter(rows, k)
    BY <1>1 DEF NumbersAfter
  <2>5. NumbersAfter(rows, k + 1) \in SUBSET NumbersAfter(rows, k)
    BY <1>1 DEF NumbersAfter
  <2>6. PICK many \in Nat : many = N - k /\ many > 0 /\ N - (k + 1) = many - 1
    BY <1>1
  <2>7. Sound(db) /\ RoomFor(db, many) /\ RoomForNumbers(db.guardians, NumbersAfter(rows, k))
    BY <2>1, <2>6 DEF ImportedSoFar
  <2>. HIDE DEF row, db, N
  <2>8. PICK more : more = ImportRow(db, row, y)
    OBVIOUS
  <2>9. /\ Sound(more) /\ Grown(db, more) /\ RoomFor(more, many - 1)
        /\ RoomForNumbers(more.guardians, NumbersAfter(rows, k + 1))
        /\ \E e \in EnrollmentIds, placed \in Enrollment :
             /\ db.enrollments[e] = Absent
             /\ more.enrollments = Put(db.enrollments, e, placed)
             /\ placed.classSection = row.classSection
             /\ placed.status = "ENROLLED"
    <3>1. PICK numbers : numbers = NumbersAfter(rows, k)
      OBVIOUS
    <3>2. IsFiniteSet(numbers) /\ RoomForNumbers(db.guardians, numbers)
          /\ row.guardianPhone \in numbers /\ NumbersAfter(rows, k + 1) \in SUBSET numbers
      BY <1>2, <2>4, <2>5, <2>7, <3>1
    <3>3. Imported(db, more, row, many, NumbersAfter(rows, k + 1))
      BY <2>3, <2>6, <2>7, <2>8, <3>2, RowImported
    <3>. QED
      BY <3>3 DEF Imported
  <2>10. ASSUME NEW c
         PROVE  Cardinality(InClass(more.enrollments, c)) =
                  Cardinality(InClass(base.enrollments, c)) + Cardinality(RowsFor(rows, c, k + 1))
    <3>1. Cardinality(InClass(more.enrollments, c)) =
            Cardinality(InClass(db.enrollments, c)) + Place(row, c)
      <4>1. PICK e \in EnrollmentIds, placed \in Enrollment :
              /\ db.enrollments[e] = Absent
              /\ more.enrollments = Put(db.enrollments, e, placed)
              /\ placed.classSection = row.classSection
              /\ placed.status = "ENROLLED"
        BY <2>9
      <4>2. Place(placed, c) = Place(row, c)
        BY <4>1 DEF Place
      <4>3. db.enrollments \in EnrollmentsTable
        BY <2>7 DEF Sound
      <4>. QED
        BY <4>1, <4>2, <4>3, PlacesTaken
    <3>2. Cardinality(RowsFor(rows, c, k + 1)) =
            Cardinality(RowsFor(rows, c, k)) + Place(row, c)
          /\ Cardinality(RowsFor(rows, c, k)) \in Nat
      BY RowsForNext DEF row
    <3>3. Cardinality(InClass(db.enrollments, c)) =
            Cardinality(InClass(base.enrollments, c)) + Cardinality(RowsFor(rows, c, k))
      BY <2>1 DEF ImportedSoFar
    <3>. QED
      BY <1>3, <3>1, <3>2, <3>3 DEF Place
  <2>11. Grown(base, more)
    BY <2>1, <2>9, GrownOn DEF ImportedSoFar
  <2>. QED
    BY <2>2, <2>6, <2>8, <2>9, <2>10, <2>11 DEF ImportedSoFar, N
<1>. HIDE DEF Q
<1>6. N \in Q
  BY <1>1, <1>4, <1>5, NumberInduction
<1>. QED
  BY <1>1, <1>6 DEF Q

-----------------------------------------------------------------------------
(* A file checked *)

LEMMA HeadcountIs ==
    \A c : Headcount(c) = Cardinality(InClass(enrollments, c))
<1>1. TAKE c
<1>2. {e \in Known(enrollments) : Live(e) /\ enrollments[e].classSection = c}
        = InClass(enrollments, c)
  BY DEF InClass, Live, Known
<1>. QED
  BY <1>2 DEF Headcount

LEMMA HeadcountType ==
    ASSUME enrollments \in EnrollmentsTable, NEW c
    PROVE  Headcount(c) \in Nat
<1>1. IsFiniteSet(InClass(enrollments, c))
  BY FreeIsNat, TheTables, FS_Subset, RegistryAssumption DEF InClass
<1>. QED
  BY <1>1, HeadcountIs, FS_CardinalityType

Capacious == capacity \in [Classes -> Nat \cup {None}]

\* What is known of a file when its rows have been walked up to some row.
CheckedSoFar(walk, S, y) ==
    /\ walk.valid \in Seq(S)
    /\ \A i \in 1 .. Len(walk.valid) : InOrder(walk.valid[i], y)
    /\ \A c \in Classes :
         /\ walk.occupied[c] \in Nat
         /\ Headcount(c) + Cardinality(RowsFor(walk.valid, c, Len(walk.valid)))
              <= walk.occupied[c]
         /\ walk.occupied[c] > Headcount(c) /\ capacity[c] # None =>
              walk.occupied[c] <= capacity[c]

RowFromFile(row) ==
    /\ row.classSection \in Classes \cup {None}
    /\ row.guardianPhone \in Phones \cup {None}

LEMMA RowsForAppended ==
    ASSUME NEW S, NEW rows \in Seq(S), NEW row \in S, NEW c
    PROVE  /\ Cardinality(RowsFor(Append(rows, row), c, Len(rows) + 1)) =
                Cardinality(RowsFor(rows, c, Len(rows))) + Place(row, c)
           /\ Cardinality(RowsFor(rows, c, Len(rows))) \in Nat
<1>. DEFINE more == Append(rows, row)
            n == Len(rows)
<1>1. n \in Nat /\ more[n + 1] = row /\ \A i \in 1 .. n : more[i] = rows[i]
  OBVIOUS
<1>. HIDE DEF more, n
<1>2. RowsFor(more, c, n) = RowsFor(rows, c, n)
  BY <1>1 DEF RowsFor
<1>3. /\ Cardinality(RowsFor(more, c, n + 1)) = Cardinality(RowsFor(more, c, n)) + Place(more[n + 1], c)
      /\ Cardinality(RowsFor(rows, c, n)) \in Nat
  BY <1>1, RowsForNext
<1>4. Cardinality(RowsFor(more, c, n + 1)) = Cardinality(RowsFor(rows, c, n)) + Place(row, c)
  BY <1>1, <1>2, <1>3
<1>. QED
  BY <1>3, <1>4 DEF more, n

LEMMA RowChecked ==
    ASSUME enrollments \in EnrollmentsTable, Capacious, NEW S, NEW walk, NEW y \in Years,
           CheckedSoFar(walk, S, y), NEW row \in S, RowFromFile(row)
    PROVE  CheckedSoFar(ValidateRow(walk, row, y), S, y)
<1>. DEFINE more == ValidateRow(walk, row, y)
            one(c) == IF c = row.classSection /\ TakesSeat(walk, row, y) THEN 1 ELSE 0
<1>1. /\ \A c \in Classes : more.occupied[c] = walk.occupied[c] + one(c)
      /\ HasIssue(walk, row, y) => more.valid = walk.valid
      /\ ~HasIssue(walk, row, y) => more.valid = Append(walk.valid, row)
  BY DEF ValidateRow
<1>2. walk.valid \in Seq(S) /\ Len(walk.valid) \in Nat
  BY DEF CheckedSoFar
<1>3. ~HasIssue(walk, row, y) => InOrder(row, y)
  BY DEF HasIssue, InOrder, KnownLevels, RowFromFile, TakesSeat
<1>4. /\ more.valid \in Seq(S)
      /\ \A i \in 1 .. Len(more.valid) : InOrder(more.valid[i], y)
  <2>1. CASE HasIssue(walk, row, y)
    BY <1>1, <2>1 DEF CheckedSoFar
  <2>2. CASE ~HasIssue(walk, row, y)
    <3>1. /\ Append(walk.valid, row) \in Seq(S)
          /\ Len(Append(walk.valid, row)) = Len(walk.valid) + 1
          /\ Append(walk.valid, row)[Len(walk.valid) + 1] = row
          /\ \A i \in 1 .. Len(walk.valid) : Append(walk.valid, row)[i] = walk.valid[i]
      BY <1>2
    <3>2. \A i \in 1 .. Len(walk.valid) + 1 : i \in 1 .. Len(walk.valid) \/ i = Len(walk.valid) + 1
      BY <1>2
    <3>. QED
      BY <1>1, <1>3, <2>2, <3>1, <3>2 DEF CheckedSoFar
  <2>. QED
    BY <2>1, <2>2
<1>5. ASSUME NEW c \in Classes
      PROVE  /\ more.occupied[c] \in Nat
             /\ Headcount(c) + Cardinality(RowsFor(more.valid, c, Len(more.valid)))
                  <= more.occupied[c]
             /\ more.occupied[c] > Headcount(c) /\ capacity[c] # None =>
                  more.occupied[c] <= capacity[c]
  <2>. DEFINE had == Cardinality(RowsFor(walk.valid, c, Len(walk.valid)))
              has == Cardinality(RowsFor(more.valid, c, Len(more.valid)))
  <2>1. /\ walk.occupied[c] \in Nat /\ Headcount(c) \in Nat
        /\ Headcount(c) + had <= walk.occupied[c]
        /\ walk.occupied[c] > Headcount(c) /\ capacity[c] # None => walk.occupied[c] <= capacity[c]
    BY HeadcountType DEF CheckedSoFar
  <2>2. had \in Nat
    BY <1>2, RowsForNext
  <2>3. has <= had + one(c)
    <3>1. CASE HasIssue(walk, row, y)
      BY <1>1, <2>2, <3>1
    <3>2. CASE ~HasIssue(walk, row, y)
      <4>1. has = had + Place(row, c)
        <5>1. Len(more.valid) = Len(walk.valid) + 1
          BY <1>1, <1>2, <3>2
        <5>. QED
          <6>1. PICK list \in Seq(S) : list = walk.valid
            BY <1>2
          <6>2. more.valid = Append(list, row) /\ Len(more.valid) = Len(list) + 1
            BY <1>1, <3>2, <5>1, <6>1
          <6>3. Cardinality(RowsFor(Append(list, row), c, Len(list) + 1)) =
                  Cardinality(RowsFor(list, c, Len(list))) + Place(row, c)
            BY RowsForAppended
          <6>. HIDE DEF more
          <6>. QED
            BY <6>1, <6>2, <6>3
      <4>2. row.classSection = c => TakesSeat(walk, row, y)
        BY <3>2, RegistryAssumption DEF HasIssue
      <4>. QED
        BY <2>2, <4>1, <4>2 DEF Place
    <3>. QED
      BY <3>1, <3>2
  <2>4. has \in Nat
    <3>1. Len(more.valid) \in Nat
      BY <1>4
    <3>. QED
      BY <3>1, RowsForNext
  <2>5. more.occupied[c] = walk.occupied[c] + one(c)
    BY <1>1
  <2>6. one(c) \in {0, 1}
    OBVIOUS
  <2>7. one(c) = 1 /\ capacity[c] # None => walk.occupied[c] < capacity[c] /\ capacity[c] \in Nat
    BY DEF TakesSeat, Capacious
  <2>8. capacity[c] # None => capacity[c] \in Nat
    BY DEF Capacious
  <2>. HIDE DEF has, had, one, more
  <2>. QED
    BY <2>1, <2>2, <2>3, <2>4, <2>5, <2>6, <2>7, <2>8 DEF has, had
<1>. HIDE DEF more
<1>. QED
  BY <1>4, <1>5 DEF CheckedSoFar, more

\* There are seats for the rows of a file.
SeatsFor(rows) ==
    \A c \in Classes :
        Cardinality(RowsFor(rows, c, Len(rows))) > 0 /\ capacity[c] # None =>
            Headcount(c) + Cardinality(RowsFor(rows, c, Len(rows))) <= capacity[c]

LEMMA FileChecked ==
    ASSUME enrollments \in EnrollmentsTable, Capacious, NEW y \in Years, NEW file \in Files,
           NEW S, file \in Seq(S), \A i \in 1 .. Len(file) : RowFromFile(file[i])
    PROVE  LET rows == ValidateRows(file, y).valid IN
           /\ rows \in Seq(S)
           /\ \A i \in 1 .. Len(rows) : InOrder(rows[i], y)
           /\ SeatsFor(rows)
<1>. DEFINE N == Len(file)
<1>1. PICK trail : /\ Trail(trail, "check", NothingSeen(y), file, y)
                   /\ trail[N] = ValidateRows(file, y)
  BY CheckIsWalk
<1>. DEFINE Q == {k \in Nat : k <= N => CheckedSoFar(trail[k], S, y)}
<1>2. 0 \in Q
  <2>1. trail[0] = NothingSeen(y)
    BY <1>1 DEF Trail
  <2>2. /\ NothingSeen(y).valid = <<>>
        /\ \A c \in Classes : NothingSeen(y).occupied[c] = Headcount(c)
    BY DEF NothingSeen
  <2>3. \A c : Cardinality(RowsFor(<<>>, c, 0)) = 0
    BY RowsForNext
  <2>4. CheckedSoFar(NothingSeen(y), S, y)
    BY <2>2, <2>3, HeadcountType DEF CheckedSoFar
  <2>. QED
    BY <2>1, <2>4
<1>3. ASSUME NEW k \in Nat, k \in Q
      PROVE  k + 1 \in Q
  <2>. SUFFICES ASSUME k + 1 <= N
                PROVE  CheckedSoFar(trail[k + 1], S, y)
    OBVIOUS
  <2>1. CheckedSoFar(trail[k], S, y)
    BY <1>3
  <2>2. trail[k + 1] = ValidateRow(trail[k], file[k + 1], y)
    <3>1. k \in 0 .. N - 1
      OBVIOUS
    <3>. QED
      BY <1>1, <3>1 DEF Trail, RowDone
  <2>3. file[k + 1] \in S /\ RowFromFile(file[k + 1])
    <3>1. k + 1 \in 1 .. Len(file)
      OBVIOUS
    <3>. QED
      BY <3>1
  <2>. QED
    BY <2>1, <2>2, <2>3, RowChecked
<1>. HIDE DEF Q
<1>4. N \in Q
  BY <1>2, <1>3, NumberInduction
<1>. DEFINE rows == ValidateRows(file, y).valid
<1>5. CheckedSoFar(ValidateRows(file, y), S, y)
  BY <1>1, <1>4 DEF Q
<1>6. ASSUME NEW c \in Classes, Cardinality(RowsFor(rows, c, Len(rows))) > 0, capacity[c] # None
      PROVE  Headcount(c) + Cardinality(RowsFor(rows, c, Len(rows))) <= capacity[c]
  <2>1. Len(rows) \in Nat
    BY <1>5 DEF CheckedSoFar
  <2>2. Cardinality(RowsFor(rows, c, Len(rows))) \in Nat /\ Headcount(c) \in Nat
        /\ capacity[c] \in Nat
    BY <1>6, <2>1, RowsForNext, HeadcountType DEF Capacious
  <2>3. PICK taken \in Nat : taken = ValidateRows(file, y).occupied[c]
    BY <1>5 DEF CheckedSoFar
  <2>4. /\ Headcount(c) + Cardinality(RowsFor(rows, c, Len(rows))) <= taken
        /\ taken > Headcount(c) => taken <= capacity[c]
    BY <1>5, <1>6, <2>3 DEF CheckedSoFar
  <2>. HIDE DEF rows
  <2>. QED
    BY <1>6, <2>2, <2>4
<1>. QED
  BY <1>5, <1>6 DEF CheckedSoFar, SeatsFor

-----------------------------------------------------------------------------
(* The two steps of an import *)

IsSequence(rows) == \E S : rows \in Seq(S)

ImportInOrder(request) ==
    request.op = "import" =>
        /\ request.academicYear \in Years
        /\ IsSequence(request.rows)
        /\ \A i \in 1 .. Len(request.rows) : InOrder(request.rows[i], request.academicYear)

TheRows == Tables(students, enrollments, lastValue, guardians, links)

LEMMA ImportLoaded ==
    ASSUME enrollments \in EnrollmentsTable, Capacious, NEW w \in Workers,
           NEW file \in Files, NEW allowPartial, ImportLoad(w, file, allowPartial)
    PROVE  \E y, rows :
              LET request == [op |-> "import", academicYear |-> y, rows |-> rows] IN
              /\ Begin(w, request)
              /\ ImportInOrder(request)
              /\ SeatsFor(rows)
              /\ UNCHANGED <<registry, calendar, curriculum>>
<1>1. PICK y \in CurrentYears :
        /\ Begin(w, [op |-> "import", academicYear |-> y, rows |-> ValidateRows(file, y).valid])
        /\ UNCHANGED <<registry, calendar, curriculum>>
  BY DEF ImportLoad
<1>2. y \in Years
  BY <1>1 DEF CurrentYears
<1>3. PICK S : file \in Seq(S) /\ \A i \in DOMAIN file : RowFromFile(file[i])
  BY RegistryAssumption DEF RowFromFile
<1>4. \A i \in 1 .. Len(file) : RowFromFile(file[i])
  BY <1>3
<1>5. PICK rows : rows = ValidateRows(file, y).valid
  OBVIOUS
<1>6. /\ rows \in Seq(S)
      /\ \A i \in 1 .. Len(rows) : InOrder(rows[i], y)
      /\ SeatsFor(rows)
  BY <1>2, <1>3, <1>4, <1>5, FileChecked
<1>. DEFINE request == [op |-> "import", academicYear |-> y, rows |-> rows]
<1>7. ImportInOrder(request)
  BY <1>2, <1>6 DEF ImportInOrder, IsSequence
<1>. QED
  BY <1>1, <1>5, <1>6, <1>7

LEMMA ImportCommitted ==
    ASSUME Sound(TheRows), NEW w \in Workers, ImportCommit(w), ImportInOrder(task[w])
    PROVE  /\ Sound(TheRows')
           /\ Grown(TheRows, TheRows')
           /\ \A c : Headcount(c)' =
                       Headcount(c) + Cardinality(RowsFor(task[w].rows, c, Len(task[w].rows)))
<1>1. PICK y, rows : y \in Years /\ y = task[w].academicYear /\ rows = task[w].rows
  BY DEF ImportInOrder, ImportCommit
<1>2. IsSequence(rows) /\ \A i \in 1 .. Len(rows) : InOrder(rows[i], y)
  BY <1>1 DEF ImportInOrder, ImportCommit
<1>3. PICK S : rows \in Seq(S)
  BY <1>2 DEF IsSequence
<1>4. PICK base : base = TheRows
  OBVIOUS
<1>5. /\ base.students = students /\ base.enrollments = enrollments /\ base.links = links
      /\ base.guardians = guardians
  BY <1>4 DEF TheRows, Tables
<1>6. PICK db : db = ImportRows(base, rows, y)
  OBVIOUS
<1>7. /\ students' = db.students /\ enrollments' = db.enrollments /\ lastValue' = db.lastValue
      /\ guardians' = db.guardians /\ links' = db.links
  BY <1>1, <1>4, <1>6 DEF ImportCommit, TheRows, Tables
<1>8. PICK trail : Trail(trail, "import", base, rows, y) /\ trail[Len(rows)] = db
  BY <1>3, <1>6, ImportIsWalk
<1>9. RoomFor(base, Len(rows))
  BY <1>1, <1>5 DEF ImportCommit, RoomFor
<1>10. RoomForNumbers(base.guardians, NumbersAfter(rows, 0))
  <2>. DEFINE numbers == NumbersAfter(rows, 0)
  <2>1. numbers = {rows[i].guardianPhone : i \in DOMAIN rows} /\ IsFiniteSet(numbers)
    <3>1. numbers = {rows[i].guardianPhone : i \in DOMAIN rows}
      BY <1>3 DEF NumbersAfter
    <3>2. IsFiniteSet(DOMAIN rows)
      BY <1>3, FS_Interval
    <3>. HIDE DEF numbers
    <3>3. [i \in DOMAIN rows |-> rows[i].guardianPhone] \in Surjection(DOMAIN rows, numbers)
      BY <3>1 DEF Surjection
    <3>4. IsFiniteSet(numbers)
      BY <3>2, <3>3, FS_Surjection
    <3>. QED
      BY <3>1, <3>4
  <2>2. Free(guardians) >= Cardinality(numbers \ {None})
    BY <1>1, <2>1 DEF ImportCommit
  <2>3. NewNumbers(guardians, numbers) \subseteq numbers \ {None} /\ IsFiniteSet(numbers \ {None})
    BY <2>1, FS_Subset DEF NewNumbers
  <2>4. /\ Cardinality(NewNumbers(guardians, numbers)) <= Cardinality(numbers \ {None})
        /\ Cardinality(NewNumbers(guardians, numbers)) \in Nat
        /\ Cardinality(numbers \ {None}) \in Nat
    BY <2>3, FS_Subset, FS_CardinalityType
  <2>5. Free(guardians) \in Nat
    BY <1>4, <1>5, FreeIsNat, TheTables, RegistryAssumption DEF Sound
  <2>. HIDE DEF numbers
  <2>6. RoomForNumbers(guardians, numbers)
    BY <2>2, <2>4, <2>5 DEF RoomForNumbers
  <2>. QED
    BY <1>5, <2>6 DEF numbers
<1>11. ImportedSoFar(base, db, rows, Len(rows))
  BY <1>1, <1>2, <1>3, <1>4, <1>8, <1>9, <1>10, FileImported
<1>12. TheRows' = db
  BY <1>7, <1>11 DEF ImportedSoFar, Sound, TheRows, Tables
<1>13. ASSUME NEW c
       PROVE  Headcount(c)' = Headcount(c) + Cardinality(RowsFor(rows, c, Len(rows)))
  <2>1. Headcount(c) = Cardinality(InClass(enrollments, c))
    BY HeadcountIs
  <2>2. Headcount(c)' = Cardinality(InClass(enrollments', c))
    <3>1. {e \in Known(enrollments) : Live(e) /\ enrollments[e].classSection = c}'
            = InClass(enrollments', c)
      BY DEF InClass, Live, Known
    <3>. QED
      BY <3>1 DEF Headcount
  <2>. QED
    BY <1>5, <1>7, <1>11, <2>1, <2>2 DEF ImportedSoFar
<1>. QED
  BY <1>1, <1>4, <1>11, <1>12, <1>13 DEF ImportedSoFar

-----------------------------------------------------------------------------
(* The school: every request of Calendar, Curriculum, Registry and           *)
(* Guardians, side by side. *)

\* Nobody is there yet, whatever years and levels there are.
SchoolInit ==
    /\ RequestsInit
    /\ PeriodsOK
    /\ CurriculumTypeOK
    /\ capacity \in [Classes -> Nat \cup {None}]
    /\ students = [s \in Students |-> Absent]
    /\ enrollments = [e \in EnrollmentIds |-> Absent]
    /\ lastValue = 0
    /\ guardians = [g \in GuardianIds |-> Absent]
    /\ links = [k \in LinkIds |-> Absent]
    /\ unplaced = {}

SchoolNext ==
    \E w \in Workers :
        \/ (YearStep(w) \/ TermStep(w)) /\ UNCHANGED <<curriculum, registry>>
        \/ (ProgramStep(w) \/ LevelStep(w)) /\ UNCHANGED <<calendar, registry>>
        \/ YearEnds(w)
        \/ RegistrationStep(w)
        \/ PlacementStep(w)
        \/ StudentStep(w)
        \/ ClassStep(w)
        \/ GuardiansStep(w)

school == <<task, overlapped, calendar, curriculum, registry>>

SchoolSpec == SchoolInit /\ [][SchoolNext]_school

-----------------------------------------------------------------------------
(* What requests hold while they are under way *)

Placeable(row) == row \in Enrollment /\ row.status = "ENROLLED" /\ FitsClass(row)

RegisterInHand(r) ==
    r.op = "register" =>
        \A s \in Students :
            Placeable(NewEnrollment(s, r.academicYear, r.level, r.classSection))

PlaceInHand(r, st) ==
    r.op = "place" => Placeable(r.row) /\ r.row.student \in Known(st)

MoveInHand(r, en) ==
    r.op = "move" =>
        /\ r.enrollment \in Known(en)
        /\ r.classSection \in Classes \cup {None}
        /\ r.classSection # None =>
             /\ ClassLevel[r.classSection] = en[r.enrollment].level
             /\ ClassYear[r.classSection] = en[r.enrollment].academicYear

EndInHand(r) ==
    r.op = "end" => r.enrollment \in EnrollmentIds /\ r.status \in EnrollmentStatuses

\* A student of the version that was read still has the status that was read.
StatusInHand(r, st) ==
    r.op = "status" =>
        /\ r.student \in Known(st)
        /\ r.live \in EnrollmentIds \cup {None}
        /\ r.expectedVersion \in Nat
        /\ r.expectedVersion <= st[r.student].version
        /\ r.expectedVersion = st[r.student].version =>
             r.status \in AllowedStatusTransitions[st[r.student].status]

LinkInHand(r, st) ==
    /\ r.op = "link" =>
         /\ r.student \in Known(st)
         /\ r.guardian \in GuardianIds
         /\ r.isPrimaryContact \in BOOLEAN
    /\ r.op = "updateLink" => r.link \in LinkIds /\ r.isPrimaryContact \in BOOLEAN \cup {None}

ClearInHand(r, st) ==
    r.op = "clear" => r.then.op \in {"link", "updateLink"} /\ LinkInHand(r.then, st)

InHand(r, st, en) ==
    /\ ImportInOrder(r)
    /\ RegisterInHand(r)
    /\ PlaceInHand(r, st)
    /\ MoveInHand(r, en)
    /\ EndInHand(r)
    /\ StatusInHand(r, st)
    /\ LinkInHand(r, st)
    /\ ClearInHand(r, st)

\* The room a request found is still there as long as it is alone ...
RoomInHand(r) ==
    /\ r.op \in {"register", "move"} /\ r.classSection # None => HasRoom(r.classSection)
    /\ r.op = "place" /\ r.row.classSection # None => HasRoom(r.row.classSection)
    /\ r.op = "import" => SeatsFor(r.rows)

\* ... and nobody else is the primary contact.
FirstInHand(r, li) ==
    /\ r.op = "link" /\ r.isPrimaryContact = TRUE => NobodyFirst(li, r.student)
    /\ r.op = "updateLink" /\ r.isPrimaryContact = TRUE /\ r.link \in Known(li) =>
         NoneButFor(li, li[r.link].student, r.link)

ClearsForThen(r, li) ==
    r.op = "clear" =>
        /\ r.then.op = "link" => r.then.student = r.student /\ r.except = None
        /\ r.then.op = "updateLink" =>
             /\ r.then.link \in Known(li)
             /\ li[r.then.link].student = r.student
             /\ r.except = r.then.link

AloneInHand(r) == RoomInHand(r) /\ FirstInHand(r, links) /\ ClearsForThen(r, links)

Placed ==
    \A s \in Known(students) \ unplaced :
        \/ \E e \in Known(enrollments) : enrollments[e].student = s
        \/ \E w \in Workers : task[w].op = "place" /\ task[w].row.student = s

SchoolInv ==
    /\ OneWay
    /\ Sound(TheRows)
    /\ Capacious
    /\ \A w \in Workers : InHand(task[w], students, enrollments)
    /\ Placed
    /\ ~overlapped => FirstAlone(links) /\ \A w \in Workers : AloneInHand(task[w])

-----------------------------------------------------------------------------
(* What a step of one request leaves to the others *)

Stepped(w, request) ==
    /\ OneWay'
    /\ task' = [v \in Workers |-> IF v = w THEN request ELSE task[v]]
    /\ ~overlapped' => ~overlapped /\ \A v \in Workers \ {w} : task[v] = Idle

LEMMA BeginStepped ==
    ASSUME OneWay, NEW w \in Workers, NEW request, Begin(w, request)
    PROVE  Stepped(w, request) /\ task[w] = Idle
  BY BeginsAlone DEF Stepped

LEMMA ProceedStepped ==
    ASSUME OneWay, NEW w \in Workers, NEW request, Proceed(w, request), task[w] # Idle
    PROVE  Stepped(w, request)
  BY ProceedsAlone DEF Stepped

LEMMA AtOnceStepped ==
    ASSUME OneWay, NEW w \in Workers, AtOnce(w)
    PROVE  Stepped(w, Idle) /\ task[w] = Idle
<1>1. /\ OneWay' /\ task' = task
      /\ ~overlapped' => ~overlapped /\ \A v \in Workers : task[v] = Idle
  BY AtOnceAlone
<1>2. task[w] = Idle
  BY DEF AtOnce, Arrive
<1>3. task = [v \in Workers |-> task[v]]
  BY DEF OneWay, Remembered
<1>. QED
  BY <1>1, <1>2, <1>3 DEF Stepped

\* Students keep the status of their version, enrolments their student and place.
Onward(st, en, more, then) ==
    /\ \A s \in Known(st) :
         /\ s \in Known(more)
         /\ st[s].version <= more[s].version
         /\ st[s].version = more[s].version => st[s].status = more[s].status
    /\ \A e \in Known(en) :
         /\ e \in Known(then)
         /\ then[e].student = en[e].student
         /\ then[e].level = en[e].level
         /\ then[e].academicYear = en[e].academicYear

LEMMA OnwardStays ==
    ASSUME NEW st \in StudentsTable, NEW en
    PROVE  Onward(st, en, st, en)
<1>1. \A s \in Known(st) : st[s].version \in Nat
  BY KnownRows DEF Student
<1>. QED
  BY <1>1 DEF Onward

LEMMA HandKept ==
    ASSUME NEW st \in StudentsTable, NEW en, NEW more \in StudentsTable, NEW then,
           Onward(st, en, more, then), NEW r, InHand(r, st, en)
    PROVE  InHand(r, more, then)
<1>1. PlaceInHand(r, more)
  BY DEF InHand, PlaceInHand, Onward
<1>2. MoveInHand(r, then)
  BY DEF InHand, MoveInHand, Onward
<1>3. StatusInHand(r, more)
  <2>. SUFFICES ASSUME r.op = "status"
                PROVE  /\ r.student \in Known(more)
                       /\ r.expectedVersion <= more[r.student].version
                       /\ r.expectedVersion = more[r.student].version =>
                            r.status \in AllowedStatusTransitions[more[r.student].status]
    BY DEF InHand, StatusInHand
  <2>1. PICK s : s = r.student
    OBVIOUS
  <2>2. s \in Known(st) /\ s \in Known(more) /\ st[s].version \in Nat /\ more[s].version \in Nat
    BY <2>1, KnownRows DEF InHand, StatusInHand, Onward, Student
  <2>3. /\ st[s].version <= more[s].version
        /\ st[s].version = more[s].version => st[s].status = more[s].status
    BY <2>2 DEF Onward
  <2>4. /\ r.expectedVersion \in Nat /\ r.expectedVersion <= st[s].version
        /\ r.expectedVersion = st[s].version => r.status \in AllowedStatusTransitions[st[s].status]
    BY <2>1 DEF InHand, StatusInHand
  <2>5. r.expectedVersion <= more[s].version
    BY <2>2, <2>3, <2>4
  <2>6. r.expectedVersion = more[s].version =>
          st[s].version = more[s].version /\ r.expectedVersion = st[s].version
    BY <2>2, <2>3, <2>4
  <2>7. r.expectedVersion = more[s].version =>
          r.status \in AllowedStatusTransitions[more[s].status]
    BY <2>3, <2>4, <2>6
  <2>. QED
    BY <2>1, <2>2, <2>5, <2>7
<1>4. LinkInHand(r, more) /\ ClearInHand(r, more)
  BY DEF InHand, LinkInHand, ClearInHand, Onward
<1>. QED
  BY <1>1, <1>2, <1>3, <1>4 DEF InHand

LEMMA IdleInHand ==
    /\ \A st, en : InHand(Idle, st, en)
    /\ AloneInHand(Idle)
    /\ AloneInHand(Idle)'
<1>1. Idle.op = "idle"
  BY DEF Idle
<1>2. \A st, en : InHand(Idle, st, en)
  BY <1>1 DEF InHand, ImportInOrder, RegisterInHand, PlaceInHand, MoveInHand, EndInHand,
              StatusInHand, LinkInHand, ClearInHand
<1>3. AloneInHand(Idle)
  BY <1>1 DEF AloneInHand, RoomInHand, FirstInHand, ClearsForThen
<1>4. AloneInHand(Idle)'
  BY <1>1 DEF AloneInHand, RoomInHand, FirstInHand, ClearsForThen
<1>. QED
  BY <1>2, <1>3, <1>4

LEMMA StepKeeps ==
    ASSUME SchoolInv, NEW w \in Workers, NEW request, Stepped(w, request),
           Sound(TheRows'), Capacious', Placed',
           Onward(students, enrollments, students', enrollments'),
           InHand(request, students', enrollments'),
           ~overlapped' => FirstAlone(links') /\ AloneInHand(request)'
    PROVE  SchoolInv'
<1>1. students \in StudentsTable /\ students' \in StudentsTable
  BY DEF SchoolInv, Sound, TheRows, Tables
<1>2. task' = [v \in Workers |-> IF v = w THEN request ELSE task[v]]
  BY DEF Stepped
<1>3. ASSUME NEW v \in Workers
      PROVE  InHand(task'[v], students', enrollments')
  <2>1. CASE v = w
    BY <1>2, <2>1
  <2>2. CASE v # w
    <3>1. InHand(task[v], students, enrollments)
      BY DEF SchoolInv
    <3>2. task'[v] = task[v]
      BY <1>2, <2>2
    <3>3. PICK r : r = task[v]
      OBVIOUS
    <3>4. InHand(r, students', enrollments')
      BY <1>1, <3>1, <3>3, HandKept
    <3>. QED
      BY <3>2, <3>3, <3>4
  <2>. QED
    BY <2>1, <2>2
<1>4. ASSUME NEW v \in Workers, ~overlapped'
      PROVE  AloneInHand(task[v])'
  <2>1. CASE v = w
    <3>1. task'[v] = request
      BY <1>2, <2>1
    <3>. QED
      BY <1>4, <3>1 DEF AloneInHand, RoomInHand, FirstInHand, ClearsForThen
  <2>2. CASE v # w
    <3>1. task'[v] = Idle
      BY <1>2, <1>4, <2>2 DEF Stepped
    <3>. QED
      BY <3>1, IdleInHand DEF AloneInHand, RoomInHand, FirstInHand, ClearsForThen
  <2>. QED
    BY <2>1, <2>2
<1>5. Sound(TheRows)' /\ OneWay'
  BY DEF Stepped
<1>. QED
  BY <1>3, <1>4, <1>5 DEF SchoolInv

\* A step that brings nobody in, and takes no enrolment away.
LEMMA PlacedStays ==
    ASSUME Placed, NEW w \in Workers, NEW request,
           task' = [v \in Workers |-> IF v = w THEN request ELSE task[v]],
           task[w].op # "place", unplaced' = unplaced, Known(students') = Known(students),
           \A e \in Known(enrollments) :
               e \in Known(enrollments') /\ enrollments'[e].student = enrollments[e].student
    PROVE  Placed'
<1>. SUFFICES ASSUME NEW s \in Known(students) \ unplaced
              PROVE  \/ \E e \in Known(enrollments') : enrollments'[e].student = s
                     \/ \E v \in Workers : task'[v].op = "place" /\ task'[v].row.student = s
  BY DEF Placed
<1>1. CASE \E e \in Known(enrollments) : enrollments[e].student = s
  BY <1>1
<1>2. CASE \E v \in Workers : task[v].op = "place" /\ task[v].row.student = s
  <2>1. PICK v \in Workers : task[v].op = "place" /\ task[v].row.student = s
    BY <1>2
  <2>2. v # w
    BY <2>1
  <2>3. task'[v] = task[v]
    BY <2>2
  <2>. QED
    BY <2>1, <2>3
<1>. QED
  BY <1>1, <1>2 DEF Placed

-----------------------------------------------------------------------------
(* Steps *)

\* What is over stays as it ended.
EndsStep ==
    /\ \A s \in Known(students) :
         students[s].status = "ARCHIVED" => students'[s].status = "ARCHIVED"
    /\ \A e \in Known(enrollments) : ~Live(e) => enrollments'[e] = enrollments[e]

\* Whoever is placed in a class fits in it.
SeatsStep ==
    ~overlapped' =>
        \A c \in Classes :
            Headcount(c)' > Headcount(c) =>
                (capacity[c] # None => Headcount(c)' <= capacity[c])

SchoolStep == SchoolInv' /\ EndsStep /\ SeatsStep

LEMMA NoMoreSeats ==
    ASSUME enrollments \in EnrollmentsTable, enrollments' = enrollments
    PROVE  /\ \A c : Headcount(c)' = Headcount(c)
           /\ SeatsStep
<1>1. \A c : Headcount(c)' = Headcount(c)
  BY DEF Headcount, Live
<1>2. \A c : Headcount(c) \in Nat
  BY HeadcountType
<1>. QED
  BY <1>1, <1>2 DEF SeatsStep

\* A step that only changes what a request remembers.
LEMMA Quiet ==
    ASSUME SchoolInv, NEW w \in Workers, NEW request, Stepped(w, request),
           task[w].op # "place", UNCHANGED registry,
           InHand(request, students, enrollments), ~overlapped => AloneInHand(request)
    PROVE  SchoolStep
<1>1. /\ students' = students /\ enrollments' = enrollments /\ lastValue' = lastValue
      /\ guardians' = guardians /\ links' = links /\ capacity' = capacity
      /\ unplaced' = unplaced
  BY DEF registry, placement, family
<1>2. students \in StudentsTable /\ enrollments \in EnrollmentsTable
  BY DEF SchoolInv, Sound, TheRows, Tables
<1>3. Sound(TheRows') /\ Capacious'
  BY <1>1 DEF SchoolInv, TheRows, Capacious
<1>4. Onward(students, enrollments, students', enrollments')
  BY <1>1, <1>2, OnwardStays
<1>5. InHand(request, students', enrollments')
  BY <1>1
<1>6. Placed'
  <2>1. task' = [v \in Workers |-> IF v = w THEN request ELSE task[v]]
    BY DEF Stepped
  <2>. QED
    BY <1>1, <2>1, PlacedStays DEF SchoolInv
<1>7. ASSUME ~overlapped'
      PROVE  FirstAlone(links') /\ AloneInHand(request)'
  <2>1. ~overlapped
    BY <1>7 DEF Stepped
  <2>2. AloneInHand(request)
    BY <2>1
  <2>3. AloneInHand(request)'
    <3>1. \A c : HasRoom(c)' = HasRoom(c)
      BY <1>1, <1>2, NoMoreSeats DEF HasRoom
    <3>2. \A rows : SeatsFor(rows)' = SeatsFor(rows)
      BY <1>1, <1>2, NoMoreSeats DEF SeatsFor
    <3>. QED
      BY <1>1, <2>2, <3>1, <3>2 DEF AloneInHand, RoomInHand, FirstInHand, ClearsForThen
  <2>. QED
    BY <1>1, <2>1, <2>3 DEF SchoolInv
<1>8. SchoolInv'
  BY <1>3, <1>4, <1>5, <1>6, <1>7, StepKeeps
<1>9. EndsStep
  BY <1>1 DEF EndsStep
<1>10. SeatsStep
  BY <1>1, <1>2, NoMoreSeats
<1>. QED
  BY <1>8, <1>9, <1>10 DEF SchoolStep

-----------------------------------------------------------------------------
(* Requests for years, terms, programmes and levels *)

Elsewhere ==
    {"updateYear", "setYear", "createTerm", "updateTerm", "setTerm", "createLevel",
     "updateProgram", "setNext"}

StepElsewhere(w) ==
    \/ AtOnce(w)
    \/ \E request : Begin(w, request) /\ request.op \in Elsewhere
    \/ Finish(w) /\ task[w].op \in Elsewhere

LEMMA CalendarIsElsewhere ==
    ASSUME NEW w \in Workers, YearStep(w) \/ TermStep(w) \/ YearEnds(w)
    PROVE  StepElsewhere(w)
<1>1. CASE \E y \in Years, span \in YearSpans, status \in NewStatuses :
             CreateAcademicYear(w, y, span, status)
  BY <1>1 DEF CreateAcademicYear, StepElsewhere
<1>2. ASSUME NEW y \in Years, NEW changes, UpdateAcademicYearLoad(w, y, changes)
      PROVE  StepElsewhere(w)
  <2>1. PICK request : /\ request = [op |-> "updateYear", year |-> y, changes |-> changes,
                                     expectedVersion |-> years[y].version]
                       /\ Begin(w, request)
    BY <1>2 DEF UpdateAcademicYearLoad
  <2>. QED
    BY <2>1 DEF StepElsewhere, Elsewhere
<1>3. CASE UpdateAcademicYearCommit(w)
  BY <1>3 DEF UpdateAcademicYearCommit, StepElsewhere, Elsewhere
<1>4. ASSUME NEW y \in Years, SetCurrentYearLoad(w, y)
      PROVE  StepElsewhere(w)
  <2>1. PICK request : request = [op |-> "setYear", year |-> y] /\ Begin(w, request)
    BY <1>4 DEF SetCurrentYearLoad
  <2>. QED
    BY <2>1 DEF StepElsewhere, Elsewhere
<1>5. CASE SetCurrentYearCommit(w)
  BY <1>5 DEF SetCurrentYearCommit, StepElsewhere, Elsewhere
<1>6. ASSUME NEW t \in Terms, NEW y \in Years, NEW span \in Spans, NEW status \in NewStatuses,
             CreateTermLoad(w, t, y, span, status)
      PROVE  StepElsewhere(w)
  <2>1. PICK row, request : request = [op |-> "createTerm", term |-> t, row |-> row]
                            /\ Begin(w, request)
    BY <1>6 DEF CreateTermLoad
  <2>. QED
    BY <2>1 DEF StepElsewhere, Elsewhere
<1>7. CASE CreateTermCommit(w)
  BY <1>7 DEF CreateTermCommit, StepElsewhere, Elsewhere
<1>8. ASSUME NEW t \in Terms, NEW changes \in Edits, UpdateTermLoad(w, t, changes)
      PROVE  StepElsewhere(w)
  <2>1. PICK request : /\ request = [op |-> "updateTerm", term |-> t, changes |-> changes,
                                     expectedVersion |-> terms[t].version]
                       /\ Begin(w, request)
    BY <1>8 DEF UpdateTermLoad
  <2>. QED
    BY <2>1 DEF StepElsewhere, Elsewhere
<1>9. CASE UpdateTermCommit(w)
  BY <1>9 DEF UpdateTermCommit, StepElsewhere, Elsewhere
<1>10. ASSUME NEW t \in Terms, SetCurrentTermLoad(w, t)
       PROVE  StepElsewhere(w)
  <2>1. PICK request : request = [op |-> "setTerm", term |-> t] /\ Begin(w, request)
    BY <1>10 DEF SetCurrentTermLoad
  <2>. QED
    BY <2>1 DEF StepElsewhere, Elsewhere
<1>11. CASE SetCurrentTermCommit(w)
  BY <1>11 DEF SetCurrentTermCommit, StepElsewhere, Elsewhere
<1>. QED
  BY <1>1, <1>2, <1>3, <1>4, <1>5, <1>6, <1>7, <1>8, <1>9, <1>10, <1>11
  DEF YearStep, TermStep, YearEnds

LEMMA CurriculumIsElsewhere ==
    ASSUME NEW w \in Workers, ProgramStep(w) \/ LevelStep(w)
    PROVE  StepElsewhere(w)
<1>1. ASSUME NEW d, CreateDepartment(w, d)
      PROVE  StepElsewhere(w)
  BY <1>1 DEF CreateDepartment, StepElsewhere
<1>2. ASSUME NEW p, NEW d, CreateProgram(w, p, d)
      PROVE  StepElsewhere(w)
  BY <1>2 DEF CreateProgram, StepElsewhere
<1>3. ASSUME NEW p, NEW status, UpdateProgramLoad(w, p, status)
      PROVE  StepElsewhere(w)
  <2>1. PICK request : /\ request = [op |-> "updateProgram", program |-> p, status |-> status,
                                     expectedVersion |-> programs[p].version]
                       /\ Begin(w, request)
    BY <1>3 DEF UpdateProgramLoad
  <2>. QED
    BY <2>1 DEF StepElsewhere, Elsewhere
<1>4. CASE UpdateProgramCommit(w)
  BY <1>4 DEF UpdateProgramCommit, StepElsewhere, Elsewhere
<1>5. ASSUME NEW l, NEW p, NEW isTerminal, CreateLevelLoad(w, l, p, isTerminal)
      PROVE  StepElsewhere(w)
  <2>1. PICK row, request : request = [op |-> "createLevel", level |-> l, row |-> row]
                            /\ Begin(w, request)
    BY <1>5 DEF CreateLevelLoad
  <2>. QED
    BY <2>1 DEF StepElsewhere, Elsewhere
<1>6. CASE CreateLevelCommit(w)
  BY <1>6 DEF CreateLevelCommit, StepElsewhere, Elsewhere
<1>7. ASSUME NEW l, NEW next, SetNextLevelLoad(w, l, next)
      PROVE  StepElsewhere(w)
  <2>1. PICK request : /\ request = [op |-> "setNext", level |-> l, next |-> next]
                       /\ Begin(w, request)
    BY <1>7 DEF SetNextLevelLoad
  <2>. QED
    BY <2>1 DEF StepElsewhere, Elsewhere
<1>8. CASE SetNextLevelCommit(w)
  BY <1>8 DEF SetNextLevelCommit, StepElsewhere, Elsewhere
<1>. QED
  BY <1>1, <1>2, <1>3, <1>4, <1>5, <1>6, <1>7, <1>8 DEF ProgramStep, LevelStep

LEMMA ElsewhereInHand ==
    ASSUME NEW r, r.op \in Elsewhere
    PROVE  InHand(r, students, enrollments) /\ AloneInHand(r)
<1>1. /\ r.op # "import" /\ r.op # "register" /\ r.op # "place" /\ r.op # "move"
      /\ r.op # "end" /\ r.op # "status" /\ r.op # "link" /\ r.op # "updateLink"
      /\ r.op # "clear"
  BY DEF Elsewhere
<1>2. InHand(r, students, enrollments)
  BY <1>1 DEF InHand, ImportInOrder, RegisterInHand, PlaceInHand, MoveInHand, EndInHand,
              StatusInHand, LinkInHand, ClearInHand
<1>3. AloneInHand(r)
  BY <1>1 DEF AloneInHand, RoomInHand, FirstInHand, ClearsForThen
<1>. QED
  BY <1>2, <1>3

LEMMA IdleOp == Idle.op = "idle"
  BY DEF Idle

LEMMA ElsewhereKeeps ==
    ASSUME SchoolInv, NEW w \in Workers, StepElsewhere(w), UNCHANGED registry
    PROVE  SchoolStep
<1>. OneWay
  BY DEF SchoolInv
<1>1. CASE AtOnce(w)
  <2>1. Stepped(w, Idle) /\ task[w] = Idle
    BY <1>1, AtOnceStepped
  <2>2. task[w].op # "place"
    BY <2>1, IdleOp
  <2>. QED
    BY <2>1, <2>2, IdleInHand, Quiet
<1>2. CASE \E request : Begin(w, request) /\ request.op \in Elsewhere
  <2>1. PICK request : Begin(w, request) /\ request.op \in Elsewhere
    BY <1>2
  <2>2. Stepped(w, request) /\ task[w] = Idle
    BY <2>1, BeginStepped
  <2>3. task[w].op # "place"
    BY <2>2, IdleOp
  <2>4. InHand(request, students, enrollments) /\ AloneInHand(request)
    BY <2>1, ElsewhereInHand
  <2>. QED
    BY <2>2, <2>3, <2>4, Quiet
<1>3. CASE Finish(w) /\ task[w].op \in Elsewhere
  <2>1. task[w].op # "place" /\ task[w] # Idle
    BY <1>3, IdleOp DEF Elsewhere
  <2>2. Stepped(w, Idle)
    BY <1>3, <2>1, ProceedStepped DEF Finish
  <2>. QED
    BY <2>1, <2>2, IdleInHand, Quiet
<1>. QED
  BY <1>1, <1>2, <1>3 DEF StepElsewhere

-----------------------------------------------------------------------------
(* Requests that begin *)

LEMMA LoadKeeps ==
    ASSUME SchoolInv, NEW w \in Workers, NEW request, Begin(w, request), UNCHANGED registry,
           InHand(request, students, enrollments), AloneInHand(request)
    PROVE  SchoolStep
<1>1. Stepped(w, request) /\ task[w] = Idle
  BY BeginStepped DEF SchoolInv
<1>2. task[w].op # "place"
  BY <1>1, IdleOp
<1>. QED
  BY <1>1, <1>2, Quiet

LEMMA SchoolTables ==
    ASSUME SchoolInv
    PROVE  /\ students \in StudentsTable /\ enrollments \in EnrollmentsTable
           /\ guardians \in GuardiansTable /\ links \in LinksTable
           /\ Numbered(students, lastValue) /\ Enrolled(enrollments, students)
           /\ Linked(links, students)
           /\ Capacious /\ OneWay /\ Placed
  BY DEF SchoolInv, Sound, TheRows, Tables

LEMMA RegisterLoadKeeps ==
    ASSUME SchoolInv, NEW w \in Workers, NEW level \in Levels, NEW c \in Classes \cup {None},
           RegisterLoad(w, level, c)
    PROVE  SchoolStep
<1>1. PICK y \in CurrentYears :
        /\ Resolves(c, level, y)
        /\ Begin(w, [op |-> "register", academicYear |-> y, level |-> level, classSection |-> c])
        /\ UNCHANGED registry
  BY DEF RegisterLoad
<1>2. PICK r : r = [op |-> "register", academicYear |-> y, level |-> level, classSection |-> c]
  OBVIOUS
<1>3. y \in Years
  BY DEF CurrentYears
<1>4. ASSUME NEW s \in Students
      PROVE  Placeable(NewEnrollment(s, y, level, c))
  BY <1>1, <1>3, NewEnrollmentType DEF Placeable, FitsClass, Resolves
<1>5. r.op = "register" /\ r.academicYear = y /\ r.level = level /\ r.classSection = c
  BY <1>2
<1>6. InHand(r, students, enrollments)
  BY <1>4, <1>5 DEF InHand, ImportInOrder, RegisterInHand, PlaceInHand, MoveInHand, EndInHand,
                    StatusInHand, LinkInHand, ClearInHand
<1>7. AloneInHand(r)
  BY <1>1, <1>5 DEF AloneInHand, RoomInHand, FirstInHand, ClearsForThen, Resolves
<1>. QED
  BY <1>1, <1>2, <1>6, <1>7, LoadKeeps

LEMMA EnrolLoadKeeps ==
    ASSUME SchoolInv, NEW w \in Workers, NEW s \in Students, NEW y \in Years,
           NEW level \in Levels, NEW c \in Classes \cup {None}, EnrolLoad(w, s, y, level, c)
    PROVE  SchoolStep
<1>1. PICK row : row = NewEnrollment(s, y, level, c)
  OBVIOUS
<1>2. PICK r : r = [op |-> "place", row |-> row]
  OBVIOUS
<1>3. Begin(w, r) /\ UNCHANGED registry /\ Resolves(c, level, y) /\ students[s] # Absent
  BY <1>1, <1>2 DEF EnrolLoad
<1>4. /\ row \in Enrollment /\ row.student = s /\ row.academicYear = y /\ row.level = level
      /\ row.classSection = c /\ row.status = "ENROLLED"
  BY <1>1, NewEnrollmentType
<1>5. Placeable(row)
  BY <1>3, <1>4 DEF Placeable, FitsClass, Resolves
<1>6. s \in Known(students)
  BY <1>3, SchoolTables, RowsAreNeither DEF StudentsTable, Known
<1>7. r.op = "place" /\ r.row = row
  BY <1>2
<1>8. InHand(r, students, enrollments)
  BY <1>4, <1>5, <1>6, <1>7 DEF InHand, ImportInOrder, RegisterInHand, PlaceInHand, MoveInHand,
                                EndInHand, StatusInHand, LinkInHand, ClearInHand
<1>9. AloneInHand(r)
  BY <1>3, <1>4, <1>7 DEF AloneInHand, RoomInHand, FirstInHand, ClearsForThen, Resolves
<1>. QED
  BY <1>3, <1>8, <1>9, LoadKeeps

LEMMA LiveIsKnown ==
    ASSUME SchoolInv, NEW e \in EnrollmentIds, Live(e)
    PROVE  e \in Known(enrollments) /\ enrollments[e] \in Enrollment
             /\ enrollments[e].status = "ENROLLED"
  BY SchoolTables, RowsAreNeither DEF EnrollmentsTable, Known, Live

LEMMA MoveLoadKeeps ==
    ASSUME SchoolInv, NEW w \in Workers, NEW e \in EnrollmentIds, NEW c \in Classes \cup {None},
           MoveLoad(w, e, c)
    PROVE  SchoolStep
<1>1. PICK version, r : /\ r = [op |-> "move", enrollment |-> e, classSection |-> c,
                                expectedVersion |-> version]
                        /\ Begin(w, r)
  BY DEF MoveLoad
<1>2. Live(e) /\ UNCHANGED registry
      /\ Resolves(c, enrollments[e].level, enrollments[e].academicYear)
  BY DEF MoveLoad
<1>3. r.op = "move" /\ r.enrollment = e /\ r.classSection = c
  BY <1>1
<1>4. e \in Known(enrollments)
  BY <1>2, LiveIsKnown
<1>5. InHand(r, students, enrollments)
  BY <1>2, <1>3, <1>4 DEF InHand, ImportInOrder, RegisterInHand, PlaceInHand, MoveInHand,
                          EndInHand, StatusInHand, LinkInHand, ClearInHand, Resolves
<1>6. AloneInHand(r)
  BY <1>2, <1>3 DEF AloneInHand, RoomInHand, FirstInHand, ClearsForThen, Resolves
<1>. QED
  BY <1>1, <1>2, <1>5, <1>6, LoadKeeps

LEMMA EndLoadKeeps ==
    ASSUME SchoolInv, NEW w \in Workers, NEW e \in EnrollmentIds, NEW outcome \in Outcomes,
           EndLoad(w, e, outcome)
    PROVE  SchoolStep
<1>1. PICK r : /\ r = [op |-> "end", enrollment |-> e, status |-> outcome]
               /\ Begin(w, r) /\ UNCHANGED registry
  BY DEF EndLoad
<1>2. r.op = "end" /\ r.enrollment = e /\ r.status = outcome
  BY <1>1
<1>3. outcome \in EnrollmentStatuses
  BY RegistryAssumption DEF EnrollmentStatuses
<1>4. InHand(r, students, enrollments)
  BY <1>2, <1>3 DEF InHand, ImportInOrder, RegisterInHand, PlaceInHand, MoveInHand,
                    EndInHand, StatusInHand, LinkInHand, ClearInHand
<1>5. AloneInHand(r)
  BY <1>2 DEF AloneInHand, RoomInHand, FirstInHand, ClearsForThen
<1>. QED
  BY <1>1, <1>4, <1>5, LoadKeeps

LEMMA StatusLoadKeeps ==
    ASSUME SchoolInv, NEW w \in Workers, NEW s \in Students, NEW status,
           StatusLoad(w, s, status)
    PROVE  SchoolStep
<1>1. PICK e, version, r :
        /\ e \in (IF FoundLive(s) = {} THEN {None} ELSE FoundLive(s))
        /\ version = students[s].version
        /\ r = [op |-> "status", student |-> s, status |-> status,
                expectedVersion |-> version, live |-> e]
        /\ Begin(w, r) /\ UNCHANGED registry
  BY DEF StatusLoad
<1>2. /\ r.op = "status" /\ r.student = s /\ r.status = status /\ r.live = e
      /\ r.expectedVersion = version
  BY <1>1
<1>3. e \in EnrollmentIds \cup {None}
  <2>1. FoundLive(s) \subseteq EnrollmentIds
    BY SchoolTables DEF FoundLive, LiveIn, Known, EnrollmentsTable
  <2>. QED
    BY <1>1, <2>1
<1>4. s \in Known(students) /\ students[s] \in Student
      /\ status \in AllowedStatusTransitions[students[s].status]
  BY SchoolTables, RowsAreNeither DEF StatusLoad, StudentsTable, Known
<1>5. version \in Nat /\ version <= students[s].version
  BY <1>1, <1>4 DEF Student
<1>6. StatusInHand(r, students)
  BY <1>1, <1>2, <1>3, <1>4, <1>5 DEF StatusInHand
<1>7. InHand(r, students, enrollments)
  BY <1>2, <1>6 DEF InHand, ImportInOrder, RegisterInHand, PlaceInHand, MoveInHand, EndInHand,
                    LinkInHand, ClearInHand
<1>8. AloneInHand(r)
  BY <1>2 DEF AloneInHand, RoomInHand, FirstInHand, ClearsForThen
<1>. QED
  BY <1>1, <1>7, <1>8, LoadKeeps

LEMMA ImportLoadKeeps ==
    ASSUME SchoolInv, NEW w \in Workers, NEW file \in Files, NEW allowPartial,
           ImportLoad(w, file, allowPartial)
    PROVE  SchoolStep
<1>1. PICK y, rows, r :
        /\ r = [op |-> "import", academicYear |-> y, rows |-> rows]
        /\ Begin(w, r) /\ ImportInOrder(r) /\ SeatsFor(rows) /\ UNCHANGED registry
  BY SchoolTables, ImportLoaded
<1>2. r.op = "import" /\ r.rows = rows
  BY <1>1
<1>3. InHand(r, students, enrollments)
  BY <1>1, <1>2 DEF InHand, RegisterInHand, PlaceInHand, MoveInHand, EndInHand, StatusInHand,
                    LinkInHand, ClearInHand
<1>4. AloneInHand(r)
  BY <1>1, <1>2 DEF AloneInHand, RoomInHand, FirstInHand, ClearsForThen
<1>. QED
  BY <1>1, <1>3, <1>4, LoadKeeps

LEMMA LinkLoadKeeps ==
    ASSUME SchoolInv, NEW w \in Workers, NEW s \in Students, NEW g \in GuardianIds,
           NEW isPrimary \in BOOLEAN, LinkLoad(w, s, g, isPrimary)
    PROVE  SchoolStep
<1>1. PICK link : link = [op |-> "link", student |-> s, guardian |-> g,
                          isPrimaryContact |-> isPrimary]
  OBVIOUS
<1>2. PICK clear : clear = [op |-> "clear", student |-> s, except |-> None, then |-> link]
  OBVIOUS
<1>3. /\ isPrimary => Begin(w, clear)
      /\ ~isPrimary => Begin(w, link)
      /\ UNCHANGED registry /\ s \in Known(students)
  BY <1>1, <1>2 DEF LinkLoad
<1>4. /\ link.op = "link" /\ link.student = s /\ link.guardian = g
      /\ link.isPrimaryContact = isPrimary
  BY <1>1
<1>5. clear.op = "clear" /\ clear.student = s /\ clear.except = None /\ clear.then = link
  BY <1>2
<1>6. LinkInHand(link, students)
  BY <1>3, <1>4 DEF LinkInHand
<1>7. CASE isPrimary
  <2>1. InHand(clear, students, enrollments)
    BY <1>4, <1>5, <1>6 DEF InHand, ImportInOrder, RegisterInHand, PlaceInHand, MoveInHand,
                            EndInHand, StatusInHand, LinkInHand, ClearInHand
  <2>2. AloneInHand(clear)
    BY <1>4, <1>5 DEF AloneInHand, RoomInHand, FirstInHand, ClearsForThen
  <2>. QED
    BY <1>3, <1>7, <2>1, <2>2, LoadKeeps
<1>8. CASE ~isPrimary
  <2>1. InHand(link, students, enrollments)
    BY <1>4, <1>6 DEF InHand, ImportInOrder, RegisterInHand, PlaceInHand, MoveInHand,
                      EndInHand, StatusInHand, ClearInHand
  <2>2. AloneInHand(link)
    BY <1>4, <1>8 DEF AloneInHand, RoomInHand, FirstInHand, ClearsForThen
  <2>. QED
    BY <1>3, <1>8, <2>1, <2>2, LoadKeeps
<1>. QED
  BY <1>7, <1>8

LEMMA UpdateLinkLoadKeeps ==
    ASSUME SchoolInv, NEW w \in Workers, NEW k \in LinkIds,
           NEW isPrimary \in BOOLEAN \cup {None}, UpdateLinkLoad(w, k, isPrimary)
    PROVE  SchoolStep
<1>1. PICK version, change :
        change = [op |-> "updateLink", link |-> k, isPrimaryContact |-> isPrimary,
                  expectedVersion |-> version] /\ version = links[k].version
  OBVIOUS
<1>2. PICK s, clear : clear = [op |-> "clear", student |-> s, except |-> k, then |-> change]
                      /\ s = links[k].student
  OBVIOUS
<1>3. /\ isPrimary = TRUE => Begin(w, clear)
      /\ isPrimary # TRUE => Begin(w, change)
      /\ UNCHANGED registry /\ k \in Known(links)
  BY <1>1, <1>2 DEF UpdateLinkLoad
<1>4. change.op = "updateLink" /\ change.link = k /\ change.isPrimaryContact = isPrimary
  BY <1>1
<1>5. clear.op = "clear" /\ clear.student = s /\ clear.except = k /\ clear.then = change
  BY <1>2
<1>6. LinkInHand(change, students)
  BY <1>4 DEF LinkInHand
<1>7. CASE isPrimary = TRUE
  <2>1. InHand(clear, students, enrollments)
    BY <1>4, <1>5, <1>6 DEF InHand, ImportInOrder, RegisterInHand, PlaceInHand, MoveInHand,
                            EndInHand, StatusInHand, LinkInHand, ClearInHand
  <2>2. AloneInHand(clear)
    BY <1>2, <1>3, <1>4, <1>5 DEF AloneInHand, RoomInHand, FirstInHand, ClearsForThen
  <2>. QED
    BY <1>3, <1>7, <2>1, <2>2, LoadKeeps
<1>8. CASE isPrimary # TRUE
  <2>1. InHand(change, students, enrollments)
    BY <1>4, <1>6 DEF InHand, ImportInOrder, RegisterInHand, PlaceInHand, MoveInHand,
                      EndInHand, StatusInHand, ClearInHand
  <2>2. AloneInHand(change)
    BY <1>4, <1>8 DEF AloneInHand, RoomInHand, FirstInHand, ClearsForThen
  <2>. QED
    BY <1>3, <1>8, <2>1, <2>2, LoadKeeps
<1>. QED
  BY <1>7, <1>8

-----------------------------------------------------------------------------
(* Classes and students *)

LEMMA UpdateClassSectionKeeps ==
    ASSUME SchoolInv, NEW w \in Workers, NEW c \in Classes, NEW places \in Capacities[c],
           UpdateClassSection(w, c, places)
    PROVE  SchoolStep
<1>1. /\ students' = students /\ enrollments' = enrollments /\ lastValue' = lastValue
      /\ guardians' = guardians /\ links' = links /\ unplaced' = unplaced
  BY DEF UpdateClassSection, family
<1>2. Stepped(w, Idle) /\ task[w] = Idle
  BY AtOnceStepped, SchoolTables DEF UpdateClassSection
<1>3. Capacious'
  <2>1. places \in Nat \cup {None}
    BY RegistryAssumption
  <2>. QED
    BY <2>1, SchoolTables DEF UpdateClassSection, Capacious
<1>4. Sound(TheRows')
  BY <1>1 DEF SchoolInv, TheRows
<1>5. Placed'
  <2>1. task' = [v \in Workers |-> IF v = w THEN Idle ELSE task[v]] /\ task[w].op # "place"
    BY <1>2, IdleOp DEF Stepped
  <2>. QED
    BY <1>1, <2>1, SchoolTables, PlacedStays
<1>6. Onward(students, enrollments, students', enrollments')
  BY <1>1, SchoolTables, OnwardStays
<1>7. ~overlapped' => FirstAlone(links')
  BY <1>1, <1>2 DEF SchoolInv, Stepped
<1>8. SchoolInv'
  BY <1>2, <1>3, <1>4, <1>5, <1>6, <1>7, IdleInHand, StepKeeps
<1>9. SeatsStep
  BY <1>1, SchoolTables, NoMoreSeats
<1>. QED
  BY <1>1, <1>8, <1>9 DEF SchoolStep, EndsStep

\* A step that changes one row of the students.
LEMMA StudentsReplaced ==
    ASSUME SchoolInv, students' \in StudentsTable, Numbered(students', lastValue'),
           Known(students) \subseteq Known(students'),
           enrollments' = enrollments, guardians' = guardians, links' = links
    PROVE  Sound(TheRows')
<1>1. Enrolled(enrollments', students')
  BY SchoolTables, EnrolledWithMore
<1>2. Linked(links', students')
  BY SchoolTables DEF Linked
<1>. QED
  BY <1>1, <1>2, SchoolTables DEF Sound, TheRows, Tables

LEMMA RegisterStudentKeeps ==
    ASSUME SchoolInv, NEW w \in Workers, RegisterStudent(w)
    PROVE  SchoolStep
<1>1. PICK r, st, s, last : r = task[w] /\ st = students /\ s = NewId(st) /\ last = lastValue
  OBVIOUS
<1>2. /\ r.op = "register" /\ ~Full(st)
      /\ students' = Put(st, s, NewStudent(last + 1)) /\ lastValue' = last + 1
      /\ enrollments' = enrollments /\ guardians' = guardians /\ links' = links
      /\ capacity' = capacity /\ unplaced' = unplaced
  BY <1>1 DEF RegisterStudent, WithNextNumber, NextNumber, Put, family
<1>3. PICK row : row = NewEnrollment(s, r.academicYear, r.level, r.classSection)
  OBVIOUS
<1>4. PICK place : place = [op |-> "place", row |-> row] /\ Proceed(w, place)
  BY <1>1, <1>3 DEF RegisterStudent
<1>5. place.op = "place" /\ place.row = row
  BY <1>4
<1>6. s \in Students /\ st[s] = Absent /\ st \in StudentsTable /\ Numbered(st, last)
  <2>1. st \in StudentsTable /\ Numbered(st, last)
    BY <1>1, SchoolTables
  <2>. QED
    BY <1>1, <1>2, <2>1, NewIdIsFree DEF StudentsTable
<1>7. students' \in StudentsTable /\ Numbered(students', lastValue')
  BY <1>2, <1>6, NumberedAdds
<1>8. /\ Known(students') = Known(st) \cup {s} /\ s \notin Known(st)
      /\ \A x \in Known(st) : students'[x] = st[x]
  <2>1. IsTable(st, Students)
    BY <1>6, TheTables
  <2>2. NewStudent(last + 1) # Absent /\ NewStudent(last + 1) # Gone
    BY <1>6, NewStudentType, RowsAreNeither DEF Numbered
  <2>. QED
    BY <1>2, <1>6, <2>1, <2>2, RowAdded
<1>9. Stepped(w, place)
  <2>1. task[w] # Idle
    BY <1>1, <1>2, IdleOp
  <2>. QED
    BY <1>4, <2>1, SchoolTables, ProceedStepped
<1>10. Placeable(row) /\ row.student = s /\ row.classSection = r.classSection
  <2>1. InHand(r, students, enrollments)
    BY <1>1 DEF SchoolInv
  <2>. QED
    BY <1>2, <1>3, <1>6, <2>1 DEF InHand, RegisterInHand, NewEnrollment
<1>11. Sound(TheRows')
  BY <1>1, <1>2, <1>7, <1>8, StudentsReplaced
<1>12. Onward(students, enrollments, students', enrollments')
  <2>1. \A x \in Known(st) : st[x].version \in Nat
    BY <1>6, KnownRows DEF Student
  <2>. QED
    BY <1>1, <1>2, <1>8, <2>1 DEF Onward
<1>13. InHand(place, students', enrollments')
  <2>1. row.student \in Known(students')
    BY <1>8, <1>10
  <2>. QED
    BY <1>5, <1>10, <2>1 DEF InHand, ImportInOrder, RegisterInHand, PlaceInHand, MoveInHand,
                             EndInHand, StatusInHand, LinkInHand, ClearInHand
<1>14. task' = [v \in Workers |-> IF v = w THEN place ELSE task[v]]
  BY <1>9 DEF Stepped
<1>15. Placed'
  <2>. SUFFICES ASSUME NEW x \in Known(students') \ unplaced
                PROVE  \/ \E e \in Known(enrollments) : enrollments[e].student = x
                       \/ \E v \in Workers : task'[v].op = "place" /\ task'[v].row.student = x
    BY <1>2 DEF Placed
  <2>1. CASE x = s
    <3>1. task'[w] = place
      BY <1>14
    <3>. QED
      BY <1>5, <1>10, <2>1, <3>1
  <2>2. CASE x # s
    <3>1. x \in Known(students) \ unplaced
      BY <1>1, <1>8, <2>2
    <3>2. CASE \E v \in Workers : task[v].op = "place" /\ task[v].row.student = x
      <4>1. PICK v \in Workers : task[v].op = "place" /\ task[v].row.student = x
        BY <3>2
      <4>2. v # w
        BY <1>1, <1>2, <4>1
      <4>3. task'[v] = task[v]
        BY <1>14, <4>2
      <4>. QED
        BY <4>1, <4>3
    <3>. QED
      BY <3>1, <3>2, SchoolTables DEF Placed
  <2>. QED
    BY <2>1, <2>2
<1>16. ASSUME ~overlapped'
       PROVE  FirstAlone(links') /\ AloneInHand(place)'
  <2>1. ~overlapped
    BY <1>9, <1>16 DEF Stepped
  <2>2. r.classSection # None => HasRoom(r.classSection)
    <3>1. AloneInHand(r)
      BY <1>1, <2>1 DEF SchoolInv
    <3>. QED
      BY <1>2, <3>1 DEF AloneInHand, RoomInHand
  <2>3. row.classSection # None => HasRoom(row.classSection)'
    BY <1>2, <1>10, <2>2, SchoolTables, NoMoreSeats DEF HasRoom
  <2>4. AloneInHand(place)'
    BY <1>5, <2>3 DEF AloneInHand, RoomInHand, FirstInHand, ClearsForThen
  <2>. QED
    BY <1>2, <2>1, <2>4 DEF SchoolInv
<1>17. Capacious'
  BY <1>2, SchoolTables DEF Capacious
<1>18. SchoolInv'
  BY <1>9, <1>11, <1>12, <1>13, <1>15, <1>16, <1>17, StepKeeps
<1>19. EndsStep
  BY <1>1, <1>2, <1>8 DEF EndsStep
<1>20. SeatsStep
  BY <1>2, SchoolTables, NoMoreSeats
<1>. QED
  BY <1>18, <1>19, <1>20 DEF SchoolStep

\* An edit of one student, which keeps the identifier and an end that was archived.
LEMMA EditKeeps ==
    ASSUME SchoolInv, NEW w \in Workers, NEW request, Stepped(w, request),
           task[w].op # "place", NEW s \in Known(students), NEW row \in Student,
           row.number = students[s].number, row.version = students[s].version + 1,
           students[s].status = "ARCHIVED" => row.status = "ARCHIVED",
           students' = Put(students, s, row),
           UNCHANGED <<capacity, enrollments, lastValue, unplaced, family>>,
           InHand(request, students', enrollments), AloneInHand(Idle) => AloneInHand(request)'
    PROVE  SchoolStep
<1>1. /\ enrollments' = enrollments /\ lastValue' = lastValue /\ guardians' = guardians
      /\ links' = links /\ capacity' = capacity /\ unplaced' = unplaced
  BY DEF family
<1>2. PICK st, last : st = students /\ last = lastValue
  OBVIOUS
<1>3. st \in StudentsTable /\ Numbered(st, last)
  BY <1>2, SchoolTables
<1>4. /\ students' \in StudentsTable /\ Known(students') = Known(students)
      /\ Numbered(students', lastValue')
  BY <1>1, <1>2, <1>3, NumberedStays
<1>5. /\ students'[s] = row
      /\ \A x \in Known(students) \ {s} : students'[x] = students[x]
  BY SchoolTables DEF StudentsTable, Known, Put
<1>6. Sound(TheRows')
  BY <1>1, <1>4, StudentsReplaced
<1>7. Onward(students, enrollments, students', enrollments')
  <2>1. \A x \in Known(students) : students[x].version \in Nat
    BY SchoolTables, KnownRows DEF Student
  <2>2. \A x \in Known(students) :
          /\ students[x].version <= students'[x].version
          /\ students[x].version = students'[x].version =>
               students[x].status = students'[x].status
    BY <1>5, <2>1
  <2>. QED
    BY <1>1, <1>4, <2>2 DEF Onward
<1>8. Placed'
  <2>1. task' = [v \in Workers |-> IF v = w THEN request ELSE task[v]]
    BY DEF Stepped
  <2>. QED
    BY <1>1, <1>4, <2>1, SchoolTables, PlacedStays
<1>9. Capacious'
  BY <1>1, SchoolTables DEF Capacious
<1>10. ~overlapped' => FirstAlone(links')
  BY <1>1 DEF SchoolInv, Stepped
<1>11. SchoolInv'
  BY <1>1, <1>6, <1>7, <1>8, <1>9, <1>10, IdleInHand, StepKeeps
<1>12. EndsStep
  BY <1>1, <1>5 DEF EndsStep
<1>13. SeatsStep
  BY <1>1, SchoolTables, NoMoreSeats
<1>. QED
  BY <1>11, <1>12, <1>13 DEF SchoolStep

LEMMA UpdateStudentKeeps ==
    ASSUME SchoolInv, NEW w \in Workers, NEW s \in Students, UpdateStudent(w, s)
    PROVE  SchoolStep
<1>1. students \in StudentsTable
  BY SchoolTables
<1>2. s \in Known(students)
  BY <1>1, RowsAreNeither DEF UpdateStudent, Known, StudentsTable
<1>3. PICK row : row = [students[s] EXCEPT !.version = @ + 1]
  OBVIOUS
<1>4. students' = Put(students, s, row)
  BY <1>1, <1>3 DEF UpdateStudent, Put, StudentsTable
<1>5. /\ row \in Student /\ row.number = students[s].number /\ row.status = students[s].status
      /\ row.version = students[s].version + 1
  <2>1. students[s] \in Student
    BY <1>1, <1>2, KnownRows
  <2>. QED
    BY <1>3, <2>1 DEF Student
<1>6. Stepped(w, Idle) /\ task[w] = Idle
  BY AtOnceStepped, SchoolTables DEF UpdateStudent
<1>7. task[w].op # "place"
  BY <1>6, IdleOp
<1>8. UNCHANGED <<capacity, enrollments, lastValue, unplaced, family>>
  BY DEF UpdateStudent
<1>. QED
  BY <1>2, <1>4, <1>5, <1>6, <1>7, <1>8, IdleInHand, EditKeeps

LEMMA SetStatusKeeps ==
    ASSUME SchoolInv, NEW w \in Workers, SetStatus(w)
    PROVE  SchoolStep
<1>1. PICK r, s, status : r = task[w] /\ s = r.student /\ status = r.status
  OBVIOUS
<1>2. r.op = "status" /\ Matches(students[s], r.expectedVersion)
  BY <1>1 DEF SetStatus
<1>3. StatusInHand(r, students)
  BY <1>1 DEF SchoolInv, InHand
<1>4. students \in StudentsTable
  BY SchoolTables
<1>5. /\ s \in Known(students) /\ students[s] \in Student
      /\ status \in AllowedStatusTransitions[students[s].status]
      /\ r.live \in EnrollmentIds \cup {None}
  BY <1>1, <1>2, <1>3, <1>4, KnownRows DEF StatusInHand, Matches
<1>6. status \in StudentStatuses /\ students[s].status # "ARCHIVED"
  <2>1. students[s].status \in StudentStatuses
    BY <1>5 DEF Student
  <2>. QED
    BY <1>5, <2>1 DEF StudentStatuses, AllowedStatusTransitions
<1>7. PICK row : row = [students[s] EXCEPT !.status = status, !.version = @ + 1]
  OBVIOUS
<1>8. students' = Put(students, s, row)
  BY <1>1, <1>4, <1>5, <1>7 DEF SetStatus, Put, StudentsTable, Known
<1>9. /\ row \in Student /\ row.number = students[s].number
      /\ row.version = students[s].version + 1
  <2>1. PICK old \in Student : old = students[s]
    BY <1>5
  <2>2. PICK version \in Nat : version = old.version + 1
    BY <2>1 DEF Student
  <2>3. row = [[old EXCEPT !.status = status] EXCEPT !.version = version]
    BY <1>7, <2>1, <2>2 DEF Student
  <2>. QED
    BY <1>6, <2>1, <2>2, <2>3 DEF Student
<1>10. UNCHANGED <<capacity, enrollments, lastValue, unplaced, family>>
  BY DEF SetStatus
<1>11. task[w] # Idle /\ task[w].op # "place"
  BY <1>1, <1>2, IdleOp
<1>12. CASE Finish(w)
  <2>1. Stepped(w, Idle)
    BY <1>11, <1>12, SchoolTables, ProceedStepped DEF Finish
  <2>. QED
    BY <1>5, <1>6, <1>8, <1>9, <1>10, <1>11, <2>1, IdleInHand, EditKeeps
<1>13. CASE /\ status \in DOMAIN ExitEnrollmentStatus
            /\ r.live # None
            /\ Proceed(w, [op |-> "end", enrollment |-> r.live,
                           status |-> ExitEnrollmentStatus[status]])
  <2>1. PICK exit : exit = [op |-> "end", enrollment |-> r.live,
                            status |-> ExitEnrollmentStatus[status]]
    OBVIOUS
  <2>2. Stepped(w, exit)
    BY <1>11, <1>13, <2>1, SchoolTables, ProceedStepped
  <2>3. exit.op = "end" /\ exit.enrollment = r.live /\ exit.status = ExitEnrollmentStatus[status]
    BY <2>1
  <2>4. ExitEnrollmentStatus[status] \in EnrollmentStatuses
    BY <1>13 DEF ExitEnrollmentStatus, EnrollmentStatuses
  <2>5. InHand(exit, students', enrollments)
    BY <1>5, <1>13, <2>3, <2>4 DEF InHand, ImportInOrder, RegisterInHand, PlaceInHand,
                                   MoveInHand, EndInHand, StatusInHand, LinkInHand, ClearInHand
  <2>6. AloneInHand(exit)'
    BY <2>3 DEF AloneInHand, RoomInHand, FirstInHand, ClearsForThen
  <2>. QED
    BY <1>5, <1>6, <1>8, <1>9, <1>10, <1>11, <2>2, <2>5, <2>6, EditKeeps
<1>. QED
  BY <1>1, <1>12, <1>13 DEF SetStatus

-----------------------------------------------------------------------------
(* Enrolments *)

LEMMA HeadcountNext ==
    \A c : Headcount(c)' = Cardinality(InClass(enrollments', c))
<1>1. TAKE c
<1>2. {e \in Known(enrollments) : Live(e) /\ enrollments[e].classSection = c}'
        = InClass(enrollments', c)
  BY DEF InClass, Live, Known
<1>. QED
  BY <1>2 DEF Headcount

\* A step that changes the enrolments, and neither students nor links.
LEMMA EnrollmentsReplaced ==
    ASSUME SchoolInv, enrollments' \in EnrollmentsTable, Enrolled(enrollments', students),
           students' = students, lastValue' = lastValue, guardians' = guardians, links' = links
    PROVE  Sound(TheRows')
  BY SchoolTables DEF Sound, TheRows, Tables

LEMMA CreateEnrollmentKeeps ==
    ASSUME SchoolInv, NEW w \in Workers, CreateEnrollment(w)
    PROVE  SchoolStep
<1>1. PICK r, row, en, id : /\ r = task[w] /\ row = r.row /\ en = enrollments
                            /\ id = NewId(en)
  OBVIOUS
<1>2. /\ r.op = "place" /\ ~Full(en) /\ OneActive(row) /\ enrollments' = Put(en, id, row)
      /\ Finish(w)
      /\ students' = students /\ lastValue' = lastValue /\ guardians' = guardians
      /\ links' = links /\ capacity' = capacity /\ unplaced' = unplaced
  BY <1>1 DEF CreateEnrollment, Put, family
<1>3. row \in Enrollment /\ row.status = "ENROLLED" /\ FitsClass(row)
      /\ row.student \in Known(students)
  <2>1. PlaceInHand(r, students)
    BY <1>1 DEF SchoolInv, InHand
  <2>. QED
    BY <1>1, <1>2, <2>1 DEF PlaceInHand, Placeable
<1>4. en \in EnrollmentsTable /\ Enrolled(en, students)
  BY <1>1, SchoolTables
<1>5. id \in EnrollmentIds /\ en[id] = Absent
  BY <1>1, <1>2, <1>4, NewIdIsFree DEF EnrollmentsTable
<1>6. ASSUME NEW e \in Known(en)
      PROVE  ~BothLive(en[e], row)
  <2>1. e \notin LiveIn(row.student, row.academicYear)
    BY <1>2 DEF OneActive
  <2>. QED
    BY <1>1, <2>1 DEF LiveIn, Live, BothLive, Known
<1>7. enrollments' \in EnrollmentsTable /\ Enrolled(enrollments', students)
  BY <1>2, <1>3, <1>4, <1>5, <1>6, EnrolledAdds
<1>8. /\ Known(enrollments') = Known(en) \cup {id} /\ id \notin Known(en)
      /\ enrollments'[id] = row
      /\ \A x \in Known(en) : enrollments'[x] = en[x]
  <2>1. IsTable(en, EnrollmentIds)
    BY <1>4, TheTables
  <2>2. row # Absent /\ row # Gone
    BY <1>3, RowsAreNeither
  <2>. QED
    BY <1>2, <1>5, <2>1, <2>2, RowAdded
<1>9. Stepped(w, Idle)
  <2>1. task[w] # Idle
    BY <1>1, <1>2, IdleOp
  <2>. QED
    BY <1>2, <2>1, SchoolTables, ProceedStepped DEF Finish
<1>10. Sound(TheRows')
  BY <1>2, <1>7, EnrollmentsReplaced
<1>11. Onward(students, enrollments, students', enrollments')
  <2>1. \A s \in Known(students) : students[s].version \in Nat
    BY SchoolTables, KnownRows DEF Student
  <2>. QED
    BY <1>1, <1>2, <1>8, <2>1 DEF Onward
<1>12. Placed'
  <2>. SUFFICES ASSUME NEW s \in Known(students) \ unplaced
                PROVE  \/ \E e \in Known(enrollments') : enrollments'[e].student = s
                       \/ \E v \in Workers : task'[v].op = "place" /\ task'[v].row.student = s
    BY <1>2 DEF Placed
  <2>1. CASE \E e \in Known(enrollments) : enrollments[e].student = s
    BY <1>1, <1>8, <2>1
  <2>2. ASSUME NEW v \in Workers, task[v].op = "place", task[v].row.student = s
        PROVE  \/ \E e \in Known(enrollments') : enrollments'[e].student = s
               \/ \E x \in Workers : task'[x].op = "place" /\ task'[x].row.student = s
    <3>1. CASE v = w
      BY <1>1, <1>8, <2>2, <3>1
    <3>2. CASE v # w
      <4>1. task'[v] = task[v]
        BY <1>9, <3>2 DEF Stepped
      <4>. QED
        BY <2>2, <4>1
    <3>. QED
      BY <3>1, <3>2
  <2>. QED
    BY <2>1, <2>2, SchoolTables DEF Placed
<1>13. Capacious'
  BY <1>2, SchoolTables DEF Capacious
<1>14. ~overlapped' => FirstAlone(links')
  BY <1>2, <1>9 DEF SchoolInv, Stepped
<1>15. SchoolInv'
  BY <1>9, <1>10, <1>11, <1>12, <1>13, <1>14, IdleInHand, StepKeeps
<1>16. EndsStep
  BY <1>1, <1>2, <1>8 DEF EndsStep
<1>17. SeatsStep
  <2>. SUFFICES ASSUME ~overlapped', NEW c \in Classes, Headcount(c)' > Headcount(c),
                       capacity[c] # None
                PROVE  Headcount(c)' <= capacity[c]
    BY DEF SeatsStep
  <2>1. Headcount(c) \in Nat /\ capacity[c] \in Nat
    BY SchoolTables, HeadcountType DEF Capacious
  <2>2. Headcount(c)' = Headcount(c) + Place(row, c)
    BY <1>1, <1>2, <1>3, <1>4, <1>5, HeadcountIs, HeadcountNext, PlacesTaken
  <2>3. c = row.classSection
    BY <2>1, <2>2 DEF Place
  <2>4. AloneInHand(r)
    BY <1>1, <1>9 DEF SchoolInv, Stepped
  <2>5. HasRoom(c)
    <3>1. c # None
      BY RegistryAssumption
    <3>. QED
      BY <1>1, <1>2, <2>3, <2>4, <3>1 DEF AloneInHand, RoomInHand
  <2>. QED
    BY <2>1, <2>2, <2>5 DEF HasRoom, Place
<1>. QED
  BY <1>15, <1>16, <1>17 DEF SchoolStep

\* A live enrolment that ends, or moves to a class that had room.
LEMMA EnrollmentEdited ==
    ASSUME SchoolInv, NEW w \in Workers, Stepped(w, Idle), task[w].op # "place",
           NEW id \in Known(enrollments), NEW row \in Enrollment,
           enrollments[id].status = "ENROLLED", row.student = enrollments[id].student,
           row.academicYear = enrollments[id].academicYear, row.level = enrollments[id].level,
           FitsClass(row),
           \/ row.classSection = enrollments[id].classSection
           \/ ~overlapped /\ row.classSection # None => HasRoom(row.classSection),
           enrollments' = Put(enrollments, id, row),
           UNCHANGED <<capacity, students, lastValue, unplaced, family>>
    PROVE  SchoolStep
<1>1. /\ students' = students /\ lastValue' = lastValue /\ guardians' = guardians
      /\ links' = links /\ capacity' = capacity /\ unplaced' = unplaced
  BY DEF family
<1>2. PICK en : en = enrollments
  OBVIOUS
<1>3. en \in EnrollmentsTable /\ Enrolled(en, students)
  BY <1>2, SchoolTables
<1>4. /\ enrollments' \in EnrollmentsTable /\ Known(enrollments') = Known(en)
      /\ Enrolled(enrollments', students)
  BY <1>2, <1>3, EnrolledStays
<1>5. enrollments'[id] = row /\ \A x \in Known(en) \ {id} : enrollments'[x] = en[x]
  BY <1>2, <1>3 DEF EnrollmentsTable, Known, Put
<1>6. Sound(TheRows')
  BY <1>1, <1>4, EnrollmentsReplaced
<1>7. Onward(students, enrollments, students', enrollments')
  <2>1. \A s \in Known(students) : students[s].version \in Nat
    BY SchoolTables, KnownRows DEF Student
  <2>. QED
    BY <1>1, <1>2, <1>4, <1>5, <2>1 DEF Onward
<1>8. Placed'
  <2>1. task' = [v \in Workers |-> IF v = w THEN Idle ELSE task[v]]
    BY DEF Stepped
  <2>2. \A e \in Known(enrollments) :
          e \in Known(enrollments') /\ enrollments'[e].student = enrollments[e].student
    BY <1>2, <1>4, <1>5
  <2>. QED
    BY <1>1, <2>1, <2>2, SchoolTables, PlacedStays
<1>9. Capacious'
  BY <1>1, SchoolTables DEF Capacious
<1>10. ~overlapped' => FirstAlone(links')
  BY <1>1 DEF SchoolInv, Stepped
<1>11. SchoolInv'
  BY <1>6, <1>7, <1>8, <1>9, <1>10, IdleInHand, StepKeeps
<1>12. EndsStep
  BY <1>1, <1>2, <1>5 DEF EndsStep, Live, Known
<1>13. SeatsStep
  <2>. SUFFICES ASSUME ~overlapped', NEW c \in Classes, Headcount(c)' > Headcount(c),
                       capacity[c] # None
                PROVE  Headcount(c)' <= capacity[c]
    BY DEF SeatsStep
  <2>1. Headcount(c) \in Nat /\ capacity[c] \in Nat
    BY SchoolTables, HeadcountType DEF Capacious
  <2>. DEFINE old == InClass(en, c)
              new == InClass(enrollments', c)
  <2>2. Headcount(c) = Cardinality(old) /\ Headcount(c)' = Cardinality(new)
    BY <1>2, HeadcountIs, HeadcountNext
  <2>3. IsFiniteSet(old)
    BY <1>3, FreeIsNat, TheTables, FS_Subset, RegistryAssumption DEF InClass
  <2>4. new \subseteq old \cup {id}
    BY <1>4, <1>5 DEF InClass
  <2>5. row.classSection = c /\ en[id].classSection # c
    <3>1. ~(new \subseteq old)
      <4>. HIDE DEF old, new
      <4>1. new \subseteq old => Cardinality(new) <= Cardinality(old) /\ Cardinality(new) \in Nat
        BY <2>3, FS_Subset, FS_CardinalityType
      <4>. QED
        BY <2>1, <2>2, <4>1
    <3>2. PICK x \in new : x \notin old
      BY <3>1
    <3>3. x = id
      BY <2>4, <3>2
    <3>. QED
      BY <1>2, <1>5, <3>2, <3>3 DEF InClass
  <2>6. HasRoom(c)
    <3>1. c # None /\ ~overlapped
      BY RegistryAssumption DEF Stepped
    <3>. QED
      BY <1>2, <2>5, <3>1
  <2>7. Cardinality(new) <= Cardinality(old) + 1
    <3>. HIDE DEF old, new
    <3>1. IsFiniteSet(old \cup {id}) /\ Cardinality(old \cup {id}) <= Cardinality(old) + 1
          /\ Cardinality(old \cup {id}) \in Nat
      <4>1. Cardinality(old) \in Nat
        BY <2>3, FS_CardinalityType
      <4>2. ASSUME id \in old
            PROVE  old \cup {id} = old
        BY <4>2
      <4>3. ASSUME id \notin old
            PROVE  /\ IsFiniteSet(old \cup {id})
                   /\ Cardinality(old \cup {id}) = Cardinality(old) + 1
        BY <2>3, <4>3, FS_AddElement
      <4>. QED
        BY <2>3, <4>1, <4>2, <4>3
    <3>2. Cardinality(new) <= Cardinality(old \cup {id}) /\ Cardinality(new) \in Nat
      BY <2>4, <3>1, FS_Subset, FS_CardinalityType
    <3>. QED
      BY <2>1, <2>2, <3>1, <3>2
  <2>8. Cardinality(new) \in Nat
    BY <2>3, <2>4, FS_Subset, FS_AddElement, FS_CardinalityType
  <2>. HIDE DEF old, new
  <2>. QED
    BY <2>1, <2>2, <2>6, <2>7, <2>8 DEF HasRoom
<1>. QED
  BY <1>11, <1>12, <1>13 DEF SchoolStep

LEMMA MoveToClassSectionKeeps ==
    ASSUME SchoolInv, NEW w \in Workers, MoveToClassSection(w)
    PROVE  SchoolStep
<1>1. PICK r, e, c : r = task[w] /\ e = r.enrollment /\ c = r.classSection
  OBVIOUS
<1>2. r.op = "move" /\ Live(e) /\ Finish(w)
      /\ UNCHANGED <<capacity, students, lastValue, unplaced, family>>
  BY <1>1 DEF MoveToClassSection
<1>3. MoveInHand(r, enrollments)
  BY <1>1 DEF SchoolInv, InHand
<1>4. /\ e \in Known(enrollments) /\ c \in Classes \cup {None}
      /\ c # None => /\ ClassLevel[c] = enrollments[e].level
                     /\ ClassYear[c] = enrollments[e].academicYear
  BY <1>1, <1>2, <1>3 DEF MoveInHand
<1>5. enrollments \in EnrollmentsTable
  BY SchoolTables
<1>6. PICK old \in Enrollment : old = enrollments[e]
  BY <1>4, <1>5, KnownRows
<1>7. PICK version \in Nat : version = old.version + 1
  BY <1>6 DEF Enrollment
<1>8. PICK row : row = [[old EXCEPT !.classSection = c] EXCEPT !.version = version]
  OBVIOUS
<1>9. enrollments' = Put(enrollments, e, row)
  <2>1. enrollments' = [enrollments EXCEPT ![e] =
           [[old EXCEPT !.classSection = c] EXCEPT !.version = old.version + 1]]
    BY <1>1, <1>4, <1>5, <1>6 DEF MoveToClassSection, EnrollmentsTable, Known, Enrollment
  <2>. QED
    BY <1>7, <1>8, <2>1 DEF Put
<1>10. /\ row \in Enrollment /\ row.student = old.student /\ row.level = old.level
       /\ row.academicYear = old.academicYear /\ row.classSection = c
  BY <1>4, <1>6, <1>7, <1>8 DEF Enrollment
<1>11. FitsClass(row)
  BY <1>4, <1>6, <1>10 DEF FitsClass
<1>12. task[w].op # "place" /\ Stepped(w, Idle)
  <2>1. task[w] # Idle
    BY <1>1, <1>2, IdleOp
  <2>. QED
    BY <1>1, <1>2, <2>1, SchoolTables, ProceedStepped DEF Finish
<1>13. ~overlapped /\ row.classSection # None => HasRoom(row.classSection)
  BY <1>1, <1>2, <1>10 DEF SchoolInv, AloneInHand, RoomInHand
<1>14. enrollments[e].status = "ENROLLED"
  BY <1>2 DEF Live
<1>. QED
  BY <1>2, <1>4, <1>6, <1>9, <1>10, <1>11, <1>12, <1>13, <1>14, EnrollmentEdited

LEMMA EndEnrollmentKeeps ==
    ASSUME SchoolInv, NEW w \in Workers, EndEnrollment(w)
    PROVE  SchoolStep
<1>1. PICK r, e, status : r = task[w] /\ e = r.enrollment /\ status = r.status
  OBVIOUS
<1>2. r.op = "end" /\ Live(e) /\ Finish(w)
      /\ UNCHANGED <<capacity, students, lastValue, unplaced, family>>
  BY <1>1 DEF EndEnrollment, MayEnd
<1>3. e \in EnrollmentIds /\ status \in EnrollmentStatuses
  BY <1>1, <1>2 DEF SchoolInv, InHand, EndInHand
<1>4. e \in Known(enrollments) /\ enrollments[e].status = "ENROLLED"
  BY <1>2, <1>3, LiveIsKnown
<1>5. enrollments \in EnrollmentsTable /\ Enrolled(enrollments, students)
  BY SchoolTables
<1>6. PICK old \in Enrollment : old = enrollments[e]
  BY <1>4, <1>5, KnownRows
<1>7. PICK version \in Nat : version = old.version + 1
  BY <1>6 DEF Enrollment
<1>8. PICK row : row = [[old EXCEPT !.status = status] EXCEPT !.version = version]
  OBVIOUS
<1>9. enrollments' = Put(enrollments, e, row)
  <2>1. enrollments' = [enrollments EXCEPT ![e] =
           [[old EXCEPT !.status = status] EXCEPT !.version = old.version + 1]]
    BY <1>1, <1>4, <1>5, <1>6 DEF EndEnrollment, EnrollmentsTable, Known, Enrollment
  <2>. QED
    BY <1>7, <1>8, <2>1 DEF Put
<1>10. /\ row \in Enrollment /\ row.student = old.student /\ row.level = old.level
       /\ row.academicYear = old.academicYear /\ row.classSection = old.classSection
  BY <1>3, <1>6, <1>7, <1>8 DEF Enrollment
<1>11. FitsClass(row)
  <2>1. FitsClass(old)
    BY <1>4, <1>5, <1>6 DEF Enrolled
  <2>. QED
    BY <1>10, <2>1 DEF FitsClass
<1>12. task[w].op # "place" /\ Stepped(w, Idle)
  <2>1. task[w] # Idle
    BY <1>1, <1>2, IdleOp
  <2>. QED
    BY <1>1, <1>2, <2>1, SchoolTables, ProceedStepped DEF Finish
<1>. QED
  BY <1>2, <1>4, <1>6, <1>9, <1>10, <1>11, <1>12, EnrollmentEdited

-----------------------------------------------------------------------------
(* Imports, and requests that end before their next step *)

LEMMA ImportCommitKeeps ==
    ASSUME SchoolInv, NEW w \in Workers, ImportCommit(w)
    PROVE  SchoolStep
<1>1. PICK r, rows : r = task[w] /\ rows = r.rows
  OBVIOUS
<1>2. r.op = "import" /\ Finish(w) /\ capacity' = capacity /\ unplaced' = unplaced
  BY <1>1 DEF ImportCommit
<1>3. ImportInOrder(task[w])
  BY DEF SchoolInv, InHand
<1>4. /\ Sound(TheRows') /\ Grown(TheRows, TheRows')
      /\ \A c : Headcount(c)' = Headcount(c) + Cardinality(RowsFor(rows, c, Len(rows)))
  <2>1. Sound(TheRows)
    BY DEF SchoolInv
  <2>2. Sound(TheRows)' => Sound(TheRows')
    OBVIOUS
  <2>. QED
    BY <1>1, <1>3, <2>1, <2>2, ImportCommitted
<1>5. /\ \A s \in Known(students) : s \in Known(students') /\ students'[s] = students[s]
      /\ \A e \in Known(enrollments) :
           e \in Known(enrollments') /\ enrollments'[e] = enrollments[e]
      /\ \A s \in Known(students') \ Known(students) :
           \E e \in Known(enrollments') : enrollments'[e].student = s
      /\ FirstAlone(links) => FirstAlone(links')
  BY <1>4 DEF Grown, TheRows, Tables
<1>6. Stepped(w, Idle)
  <2>1. task[w] # Idle
    BY <1>1, <1>2, IdleOp
  <2>. QED
    BY <1>2, <2>1, SchoolTables, ProceedStepped DEF Finish
<1>7. Onward(students, enrollments, students', enrollments')
  <2>1. \A s \in Known(students) : students[s].version \in Nat
    BY SchoolTables, KnownRows DEF Student
  <2>. QED
    BY <1>5, <2>1 DEF Onward
<1>8. Placed'
  <2>. SUFFICES ASSUME NEW s \in Known(students') \ unplaced
                PROVE  \/ \E e \in Known(enrollments') : enrollments'[e].student = s
                       \/ \E v \in Workers : task'[v].op = "place" /\ task'[v].row.student = s
    BY <1>2 DEF Placed
  <2>1. CASE s \notin Known(students)
    BY <1>5, <2>1
  <2>2. CASE \E e \in Known(enrollments) : enrollments[e].student = s
    BY <1>5, <2>2
  <2>3. ASSUME NEW v \in Workers, task[v].op = "place", task[v].row.student = s
        PROVE  \E x \in Workers : task'[x].op = "place" /\ task'[x].row.student = s
    <3>1. v # w
      BY <1>1, <1>2, <2>3
    <3>2. task'[v] = task[v]
      BY <1>6, <3>1 DEF Stepped
    <3>. QED
      BY <2>3, <3>2
  <2>. QED
    BY <2>1, <2>2, <2>3, SchoolTables DEF Placed
<1>9. Capacious'
  BY <1>2, SchoolTables DEF Capacious
<1>10. ~overlapped' => FirstAlone(links')
  BY <1>5, <1>6 DEF SchoolInv, Stepped
<1>11. SchoolInv'
  BY <1>4, <1>6, <1>7, <1>8, <1>9, <1>10, IdleInHand, StepKeeps
<1>12. EndsStep
  BY <1>5 DEF EndsStep
<1>13. SeatsStep
  <2>. SUFFICES ASSUME ~overlapped', NEW c \in Classes, Headcount(c)' > Headcount(c),
                       capacity[c] # None
                PROVE  Headcount(c)' <= capacity[c]
    BY DEF SeatsStep
  <2>1. Headcount(c) \in Nat
    BY SchoolTables, HeadcountType
  <2>2. Cardinality(RowsFor(rows, c, Len(rows))) \in Nat
    <3>1. Len(rows) \in Nat
      BY <1>1, <1>2, <1>3 DEF ImportInOrder, IsSequence
    <3>. QED
      BY <3>1, RowsForNext
  <2>3. SeatsFor(rows)
    <3>1. AloneInHand(r)
      BY <1>1, <1>6 DEF SchoolInv, Stepped
    <3>. QED
      BY <1>1, <1>2, <3>1 DEF AloneInHand, RoomInHand
  <2>. QED
    BY <1>4, <2>1, <2>2, <2>3 DEF SeatsFor
<1>. QED
  BY <1>11, <1>12, <1>13 DEF SchoolStep

LEMMA RegistryDropKeeps ==
    ASSUME SchoolInv, NEW w \in Workers, RegistryDrop(w)
    PROVE  SchoolStep
<1>1. /\ students' = students /\ enrollments' = enrollments /\ lastValue' = lastValue
      /\ guardians' = guardians /\ links' = links /\ capacity' = capacity
      /\ Finish(w) /\ task[w] # Idle
  BY DEF RegistryDrop, DropTask, family
<1>2. Stepped(w, Idle)
  BY <1>1, SchoolTables, ProceedStepped DEF Finish
<1>3. Sound(TheRows') /\ Capacious'
  BY <1>1 DEF SchoolInv, TheRows, Capacious
<1>4. Onward(students, enrollments, students', enrollments')
  BY <1>1, SchoolTables, OnwardStays
<1>5. Placed'
  <2>. SUFFICES ASSUME NEW s \in Known(students), s \notin unplaced'
                PROVE  \/ \E e \in Known(enrollments) : enrollments[e].student = s
                       \/ \E v \in Workers : task'[v].op = "place" /\ task'[v].row.student = s
    BY <1>1 DEF Placed
  <2>1. s \notin unplaced
    BY DEF RegistryDrop
  <2>2. \A v \in Workers \ {w} : task'[v] = task[v]
    BY <1>2 DEF Stepped
  <2>3. CASE task[w].op = "place" /\ task[w].row.student = s
    <3>1. \/ \E e \in Known(enrollments) : enrollments[e].student = s
          \/ \E v \in Workers \ {w} : task[v].op = "place" /\ task[v].row.student = s
      BY <2>3 DEF RegistryDrop
    <3>. QED
      BY <2>2, <3>1
  <2>4. CASE ~(task[w].op = "place" /\ task[w].row.student = s)
    BY <2>1, <2>2, <2>4, SchoolTables DEF Placed
  <2>. QED
    BY <2>3, <2>4
<1>6. ~overlapped' => FirstAlone(links')
  BY <1>1, <1>2 DEF SchoolInv, Stepped
<1>7. SchoolInv'
  BY <1>2, <1>3, <1>4, <1>5, <1>6, IdleInHand, StepKeeps
<1>8. EndsStep
  BY <1>1 DEF EndsStep
<1>9. SeatsStep
  BY <1>1, SchoolTables, NoMoreSeats
<1>. QED
  BY <1>7, <1>8, <1>9 DEF SchoolStep

-----------------------------------------------------------------------------
(* Guardians and links *)

\* A step that leaves students and enrolments alone.
LEMMA FamilyKeeps ==
    ASSUME SchoolInv, NEW w \in Workers, NEW request, Stepped(w, request),
           task[w].op # "place", UNCHANGED placement,
           guardians' \in GuardiansTable, links' \in LinksTable, Linked(links', students),
           InHand(request, students, enrollments),
           ~overlapped' => FirstAlone(links') /\ AloneInHand(request)'
    PROVE  SchoolStep
<1>1. /\ students' = students /\ enrollments' = enrollments /\ lastValue' = lastValue
      /\ capacity' = capacity /\ unplaced' = unplaced
  BY DEF placement
<1>2. Sound(TheRows')
  BY <1>1, SchoolTables DEF Sound, TheRows, Tables
<1>3. Capacious'
  BY <1>1, SchoolTables DEF Capacious
<1>4. Placed'
  <2>1. task' = [v \in Workers |-> IF v = w THEN request ELSE task[v]]
    BY DEF Stepped
  <2>. QED
    BY <1>1, <2>1, SchoolTables, PlacedStays
<1>5. Onward(students, enrollments, students', enrollments')
  BY <1>1, SchoolTables, OnwardStays
<1>6. InHand(request, students', enrollments')
  BY <1>1
<1>7. SchoolInv'
  BY <1>2, <1>3, <1>4, <1>5, <1>6, StepKeeps
<1>8. EndsStep
  BY <1>1 DEF EndsStep
<1>9. SeatsStep
  BY <1>1, SchoolTables, NoMoreSeats
<1>. QED
  BY <1>7, <1>8, <1>9 DEF SchoolStep

\* A guardian who is made or changed.
LEMMA GuardianKeeps ==
    ASSUME SchoolInv, NEW w \in Workers, AtOnce(w), NEW g \in GuardianIds, NEW phone \in Phone,
           guardians' = Put(guardians, g, phone), links' = links, UNCHANGED placement
    PROVE  SchoolStep
<1>1. Stepped(w, Idle) /\ task[w] = Idle
  BY AtOnceStepped, SchoolTables
<1>2. task[w].op # "place"
  BY <1>1, IdleOp
<1>3. guardians' \in GuardiansTable
  BY SchoolTables DEF GuardiansTable, Put
<1>4. links' \in LinksTable /\ Linked(links', students)
  BY SchoolTables
<1>5. ~overlapped' => FirstAlone(links')
  BY <1>1 DEF SchoolInv, Stepped
<1>. QED
  BY <1>1, <1>2, <1>3, <1>4, <1>5, IdleInHand, FamilyKeeps

LEMMA CreateGuardianKeeps ==
    ASSUME SchoolInv, NEW w \in Workers, NEW phone \in Phone, CreateGuardian(w, phone)
    PROVE  SchoolStep
<1>1. PICK g : g = NewId(guardians)
  OBVIOUS
<1>2. g \in GuardianIds
  BY <1>1, SchoolTables, NewIdIsFree DEF CreateGuardian, GuardiansTable
<1>3. guardians' = Put(guardians, g, phone)
  BY <1>1 DEF CreateGuardian, Put
<1>. QED
  BY <1>2, <1>3, GuardianKeeps DEF CreateGuardian

LEMMA UpdateGuardianKeeps ==
    ASSUME SchoolInv, NEW w \in Workers, NEW g \in GuardianIds, NEW phone \in Phone,
           UpdateGuardian(w, g, phone)
    PROVE  SchoolStep
<1>1. guardians' = Put(guardians, g, phone)
  BY DEF UpdateGuardian, Put
<1>. QED
  BY <1>1, GuardianKeeps DEF UpdateGuardian

\* The rows that are cleared stay links of their students.
LEMMA Cleared ==
    ASSUME SchoolInv, NEW s, NEW except, ClearPrimaryContact(s, except)
    PROVE  /\ links' \in LinksTable /\ Linked(links', students)
           /\ Known(links') = Known(links)
           /\ \A k \in Known(links) : links'[k].student = links[k].student
           /\ FirstAlone(links) => FirstAlone(links')
           /\ NoneButFor(links', s, except)
<1>1. links \in LinksTable /\ Linked(links, students)
  BY SchoolTables
<1>2. links' = [k \in LinkIds |->
         IF k \in LinksOf(s) \ {except} THEN [links[k] EXCEPT !.isPrimaryContact = FALSE]
         ELSE links[k]]
  BY DEF ClearPrimaryContact
<1>3. ASSUME NEW k \in LinkIds, k \in LinksOf(s) \ {except}
      PROVE  /\ k \in Known(links) /\ links'[k] \in Link
             /\ links'[k].student = links[k].student /\ links'[k].isPrimaryContact = FALSE
  <2>1. k \in Known(links)
    BY <1>3 DEF LinksOf
  <2>2. links[k] \in Link
    BY <1>1, <2>1, KnownRows
  <2>3. links'[k] = [links[k] EXCEPT !.isPrimaryContact = FALSE]
    BY <1>2, <1>3
  <2>. QED
    BY <2>1, <2>2, <2>3 DEF Link
<1>4. \A k \in LinkIds : k \notin LinksOf(s) \ {except} => links'[k] = links[k]
  BY <1>2
<1>5. links' \in LinksTable
  <2>1. \A k \in LinkIds : links'[k] \in Link \cup {Absent, Gone}
    BY <1>1, <1>3, <1>4 DEF LinksTable
  <2>. QED
    BY <1>2, <2>1 DEF LinksTable
<1>6. Known(links') = Known(links)
  <2>1. \A k \in LinkIds : links'[k] \notin {Absent, Gone} <=> links[k] \notin {Absent, Gone}
    BY <1>3, <1>4, RowsAreNeither DEF Known
  <2>. QED
    BY <1>1, <1>5, <2>1 DEF Known, LinksTable
<1>7. \A k \in Known(links) :
        /\ k \in LinkIds
        /\ links'[k].student = links[k].student
        /\ links'[k].isPrimaryContact => links[k].isPrimaryContact
        /\ links[k].student = s /\ links'[k].isPrimaryContact => k = except
  BY <1>1, <1>3, <1>4 DEF LinksOf, Known, LinksTable
<1>8. Linked(links', students)
  BY <1>1, <1>6, <1>7 DEF Linked
<1>9. FirstAlone(links) => FirstAlone(links')
  BY <1>6, <1>7 DEF FirstAlone
<1>10. NoneButFor(links', s, except)
  BY <1>6, <1>7 DEF NoneButFor
<1>. QED
  BY <1>5, <1>6, <1>7, <1>8, <1>9, <1>10

LEMMA ClearStepKeeps ==
    ASSUME SchoolInv, NEW w \in Workers, ClearStep(w)
    PROVE  SchoolStep
<1>1. PICK r, s, except, then : r = task[w] /\ s = r.student /\ except = r.except /\ then = r.then
  OBVIOUS
<1>2. /\ r.op = "clear" /\ ClearPrimaryContact(s, except) /\ Proceed(w, then)
      /\ guardians' = guardians /\ UNCHANGED placement
  BY <1>1 DEF ClearStep
<1>3. then.op \in {"link", "updateLink"} /\ LinkInHand(then, students)
  BY <1>1, <1>2 DEF SchoolInv, InHand, ClearInHand
<1>4. InHand(then, students, enrollments)
  BY <1>3 DEF InHand, ImportInOrder, RegisterInHand, PlaceInHand, MoveInHand, EndInHand,
              StatusInHand, ClearInHand
<1>5. /\ links' \in LinksTable /\ Linked(links', students) /\ Known(links') = Known(links)
      /\ \A k \in Known(links) : links'[k].student = links[k].student
      /\ FirstAlone(links) => FirstAlone(links')
      /\ NoneButFor(links', s, except)
  BY <1>2, Cleared
<1>6. Stepped(w, then) /\ task[w].op # "place"
  <2>1. task[w] # Idle
    BY <1>1, <1>2, IdleOp
  <2>. QED
    BY <1>1, <1>2, <2>1, SchoolTables, ProceedStepped
<1>7. ASSUME ~overlapped'
      PROVE  FirstAlone(links') /\ AloneInHand(then)'
  <2>1. FirstAlone(links) /\ ClearsForThen(r, links)
    BY <1>1, <1>6, <1>7 DEF SchoolInv, Stepped, AloneInHand
  <2>2. then.op = "link" => NobodyFirst(links', then.student)
    <3>. SUFFICES ASSUME then.op = "link"
                  PROVE  NobodyFirst(links', then.student)
      OBVIOUS
    <3>1. then.student = s /\ except = None
      BY <1>1, <1>2, <2>1 DEF ClearsForThen
    <3>2. \A k \in Known(links') : k # None
      BY <1>5, RegistryAssumption DEF Known, LinksTable
    <3>. QED
      BY <1>5, <3>1, <3>2 DEF NoneButFor, NobodyFirst
  <2>3. then.op = "updateLink" => NoneButFor(links', links'[then.link].student, then.link)
    BY <1>1, <1>2, <1>5, <2>1 DEF ClearsForThen
  <2>4. FirstInHand(then, links')
    BY <2>2, <2>3 DEF FirstInHand
  <2>5. AloneInHand(then)'
    BY <1>3, <2>4 DEF AloneInHand, RoomInHand, ClearsForThen
  <2>. QED
    BY <1>5, <2>1, <2>5
<1>8. guardians' \in GuardiansTable
  BY <1>2, SchoolTables
<1>. QED
  BY <1>2, <1>4, <1>5, <1>6, <1>7, <1>8, FamilyKeeps

LEMMA CreateLinkKeeps ==
    ASSUME SchoolInv, NEW w \in Workers, CreateLink(w)
    PROVE  SchoolStep
<1>1. PICK r, li, k : r = task[w] /\ li = links /\ k = NewId(li)
  OBVIOUS
<1>2. PICK row : row = [student |-> r.student, guardian |-> r.guardian,
                        isPrimaryContact |-> r.isPrimaryContact, version |-> 0]
  OBVIOUS
<1>3. /\ r.op = "link" /\ ~Full(li) /\ links' = Put(li, k, row) /\ Finish(w)
      /\ guardians' = guardians /\ UNCHANGED placement
  BY <1>1, <1>2 DEF CreateLink, Put
<1>4. LinkInHand(r, students)
  BY <1>1 DEF SchoolInv, InHand
<1>5. row.student = r.student /\ row.isPrimaryContact = r.isPrimaryContact
  BY <1>2
<1>6. r.student \in Known(students) /\ r.guardian \in GuardianIds
      /\ r.isPrimaryContact \in BOOLEAN
  BY <1>3, <1>4 DEF LinkInHand
<1>7. r.student \in Students
  BY <1>6, SchoolTables, KnownRows
<1>8. row \in Link
  BY <1>2, <1>6, <1>7 DEF Link
<1>9. li \in LinksTable /\ Linked(li, students)
  BY <1>1, SchoolTables
<1>10. k \in LinkIds /\ li[k] = Absent
  BY <1>1, <1>3, <1>9, NewIdIsFree DEF LinksTable
<1>11. /\ links' \in LinksTable /\ Linked(links', students)
       /\ FirstAlone(li) /\ (row.isPrimaryContact => NobodyFirst(li, row.student))
            => FirstAlone(links')
  BY <1>3, <1>5, <1>6, <1>8, <1>9, <1>10, LinkAdded
<1>12. Stepped(w, Idle) /\ task[w].op # "place"
  <2>1. task[w] # Idle
    BY <1>1, <1>3, IdleOp
  <2>. QED
    BY <1>1, <1>3, <2>1, SchoolTables, ProceedStepped DEF Finish
<1>13. ASSUME ~overlapped'
       PROVE  FirstAlone(links')
  <2>1. FirstAlone(li) /\ FirstInHand(r, li)
    BY <1>1, <1>12, <1>13 DEF SchoolInv, Stepped, AloneInHand
  <2>2. row.isPrimaryContact => NobodyFirst(li, row.student)
    BY <1>3, <1>5, <1>6, <2>1 DEF FirstInHand
  <2>. QED
    BY <1>11, <2>1, <2>2
<1>14. guardians' \in GuardiansTable
  BY <1>3, SchoolTables
<1>. QED
  BY <1>3, <1>11, <1>12, <1>13, <1>14, IdleInHand, FamilyKeeps

LEMMA UpdateLinkKeeps ==
    ASSUME SchoolInv, NEW w \in Workers, UpdateLink(w)
    PROVE  SchoolStep
<1>1. PICK r, k, value : r = task[w] /\ k = r.link /\ value = r.isPrimaryContact
  OBVIOUS
<1>2. /\ r.op = "updateLink" /\ k \in Known(links) /\ Finish(w)
      /\ guardians' = guardians /\ UNCHANGED placement
  BY <1>1 DEF UpdateLink
<1>3. value \in BOOLEAN \cup {None}
  BY <1>1, <1>2 DEF SchoolInv, InHand, LinkInHand
<1>4. links \in LinksTable /\ Linked(links, students) /\ k \in LinkIds
  BY <1>2, SchoolTables, KnownRows
<1>5. PICK old \in Link : old = links[k]
  BY <1>2, <1>4, KnownRows
<1>6. PICK version \in Nat : version = old.version + 1
  BY <1>5 DEF Link
<1>7. PICK flag \in BOOLEAN : flag = Given(value, old.isPrimaryContact)
  BY <1>3, <1>5 DEF Given, Link
<1>8. PICK row : row = [[old EXCEPT !.isPrimaryContact = flag] EXCEPT !.version = version]
  OBVIOUS
<1>9. links' = Put(links, k, row)
  <2>1. links' = [links EXCEPT ![k] =
           [[old EXCEPT !.isPrimaryContact = Given(value, old.isPrimaryContact)]
              EXCEPT !.version = old.version + 1]]
    BY <1>1, <1>4, <1>5 DEF UpdateLink, LinksTable, Link
  <2>. QED
    BY <1>6, <1>7, <1>8, <2>1 DEF Put
<1>10. row \in Link /\ row.student = old.student /\ row.isPrimaryContact = flag
  BY <1>5, <1>6, <1>7, <1>8 DEF Link
<1>11. links' \in LinksTable
  BY <1>4, <1>9, <1>10 DEF LinksTable, Put
<1>12. /\ Known(links') = Known(links) /\ links'[k] = row
       /\ \A l \in Known(links) \ {k} : links'[l] = links[l]
  BY <1>2, <1>4, <1>9, <1>10, RowsAreNeither DEF Known, LinksTable, Put
<1>13. Linked(links', students)
  BY <1>2, <1>4, <1>5, <1>10, <1>12 DEF Linked
<1>14. Stepped(w, Idle) /\ task[w].op # "place"
  <2>1. task[w] # Idle
    BY <1>1, <1>2, IdleOp
  <2>. QED
    BY <1>1, <1>2, <2>1, SchoolTables, ProceedStepped DEF Finish
<1>15. ASSUME ~overlapped'
       PROVE  FirstAlone(links')
  <2>1. FirstAlone(links) /\ FirstInHand(r, links)
    BY <1>1, <1>14, <1>15 DEF SchoolInv, Stepped, AloneInHand
  <2>2. flag => NoneButFor(links, old.student, k)
    <3>. SUFFICES ASSUME flag = TRUE
                  PROVE  NoneButFor(links, old.student, k)
      OBVIOUS
    <3>1. value = TRUE \/ old.isPrimaryContact = TRUE
      BY <1>3, <1>5, <1>7 DEF Given, Link
    <3>2. CASE value = TRUE
      BY <1>1, <1>2, <1>5, <2>1, <3>2 DEF FirstInHand
    <3>3. CASE old.isPrimaryContact = TRUE
      BY <1>2, <1>5, <2>1, <3>3 DEF FirstAlone, NoneButFor
    <3>. QED
      BY <3>1, <3>2, <3>3
  <2>3. ASSUME NEW a \in Known(links'), NEW b \in Known(links'),
               links'[a].isPrimaryContact, links'[b].isPrimaryContact,
               links'[a].student = links'[b].student
        PROVE  a = b
    <3>1. CASE a = k /\ b # k
      <4>1. flag = TRUE /\ links[b].student = old.student /\ links[b].isPrimaryContact
        BY <1>7, <1>10, <1>12, <2>3, <3>1
      <4>2. b \in Known(links) /\ b # k
        BY <1>12, <2>3, <3>1
      <4>. QED
        BY <2>2, <4>1, <4>2 DEF NoneButFor
    <3>2. CASE a # k /\ b = k
      <4>1. flag = TRUE /\ links[a].student = old.student /\ links[a].isPrimaryContact
        BY <1>7, <1>10, <1>12, <2>3, <3>2
      <4>2. a \in Known(links) /\ a # k
        BY <1>12, <2>3, <3>2
      <4>. QED
        BY <2>2, <4>1, <4>2 DEF NoneButFor
    <3>3. CASE a # k /\ b # k
      BY <1>12, <2>1, <2>3, <3>3 DEF FirstAlone
    <3>. QED
      BY <3>1, <3>2, <3>3
  <2>. QED
    BY <2>3 DEF FirstAlone
<1>16. guardians' \in GuardiansTable
  BY <1>2, SchoolTables
<1>. QED
  BY <1>2, <1>11, <1>13, <1>14, <1>15, <1>16, IdleInHand, FamilyKeeps

LEMMA UnlinkKeeps ==
    ASSUME SchoolInv, NEW w \in Workers, NEW k \in LinkIds, Unlink(w, k)
    PROVE  SchoolStep
<1>1. /\ k \in Known(links) /\ AtOnce(w) /\ links' = [links EXCEPT ![k] = Gone]
      /\ guardians' = guardians /\ UNCHANGED placement
  BY DEF Unlink
<1>2. Stepped(w, Idle) /\ task[w] = Idle
  BY <1>1, AtOnceStepped, SchoolTables
<1>3. task[w].op # "place"
  BY <1>2, IdleOp
<1>4. links \in LinksTable /\ Linked(links, students)
  BY SchoolTables
<1>5. links' \in LinksTable
  BY <1>1, <1>4 DEF LinksTable
<1>6. \A l \in Known(links') : l \in Known(links) /\ links'[l] = links[l]
  BY <1>1, <1>4 DEF Known, LinksTable
<1>7. Linked(links', students)
  BY <1>4, <1>6 DEF Linked
<1>8. FirstAlone(links) => FirstAlone(links')
  BY <1>6 DEF FirstAlone
<1>9. ~overlapped' => FirstAlone(links')
  BY <1>2, <1>8 DEF SchoolInv, Stepped
<1>10. guardians' \in GuardiansTable
  BY <1>1, SchoolTables
<1>. QED
  BY <1>1, <1>2, <1>3, <1>5, <1>7, <1>9, <1>10, IdleInHand, FamilyKeeps

-----------------------------------------------------------------------------
(* The school *)

LEMMA SchoolInitHolds == SchoolInit => SchoolInv
<1>. SUFFICES ASSUME SchoolInit
              PROVE  SchoolInv
  OBVIOUS
<1>1. Known(students) = {} /\ Known(enrollments) = {} /\ Known(links) = {}
  BY DEF SchoolInit, Known
<1>2. /\ students \in StudentsTable /\ enrollments \in EnrollmentsTable
      /\ guardians \in GuardiansTable /\ links \in LinksTable
  BY DEF SchoolInit, StudentsTable, EnrollmentsTable, GuardiansTable, LinksTable
<1>3. Numbered(students, lastValue)
  <2>1. lastValue = 0 /\ Cardinality(Known(students)) = 0
    BY <1>1, FS_EmptySet DEF SchoolInit
  <2>2. {students[s].number : s \in Known(students)} = {} /\ 1 .. 0 = {}
    BY <1>1
  <2>. QED
    BY <2>1, <2>2 DEF Numbered
<1>4. Sound(TheRows)
  BY <1>1, <1>2, <1>3 DEF Sound, TheRows, Tables, Enrolled, Linked
<1>5. FirstAlone(links) /\ Placed /\ Capacious
  BY <1>1 DEF FirstAlone, Placed, Capacious, SchoolInit
<1>6. OneWay /\ \A w \in Workers : task[w] = Idle
  BY OneWayInit DEF SchoolInit, RequestsInit
<1>. QED
  BY <1>4, <1>5, <1>6, IdleInHand DEF SchoolInv

LEMMA RegistryKeeps ==
    ASSUME SchoolInv, NEW w \in Workers,
           RegistrationStep(w) \/ PlacementStep(w) \/ StudentStep(w) \/ ClassStep(w)
    PROVE  SchoolStep
  BY RegisterLoadKeeps, RegisterStudentKeeps, EnrolLoadKeeps, CreateEnrollmentKeeps,
     MoveLoadKeeps, MoveToClassSectionKeeps, EndLoadKeeps, EndEnrollmentKeeps,
     UpdateStudentKeeps, StatusLoadKeeps, SetStatusKeeps, UpdateClassSectionKeeps
  DEF RegistrationStep, PlacementStep, StudentStep, ClassStep

LEMMA GuardiansKeep ==
    ASSUME SchoolInv, NEW w \in Workers, GuardiansStep(w)
    PROVE  SchoolStep
  BY CreateGuardianKeeps, UpdateGuardianKeeps, LinkLoadKeeps, UpdateLinkLoadKeeps,
     ClearStepKeeps, CreateLinkKeeps, UpdateLinkKeeps, UnlinkKeeps, ImportLoadKeeps,
     ImportCommitKeeps, RegistryDropKeeps
  DEF GuardiansStep, ImportStep

LEMMA SchoolNextKeeps ==
    ASSUME SchoolInv, SchoolNext
    PROVE  SchoolStep
<1>1. PICK w \in Workers :
        \/ (YearStep(w) \/ TermStep(w)) /\ UNCHANGED <<curriculum, registry>>
        \/ (ProgramStep(w) \/ LevelStep(w)) /\ UNCHANGED <<calendar, registry>>
        \/ YearEnds(w)
        \/ RegistrationStep(w) \/ PlacementStep(w) \/ StudentStep(w) \/ ClassStep(w)
        \/ GuardiansStep(w)
  BY DEF SchoolNext
<1>2. CASE (YearStep(w) \/ TermStep(w)) /\ UNCHANGED <<curriculum, registry>>
  BY <1>2, CalendarIsElsewhere, ElsewhereKeeps
<1>3. CASE (ProgramStep(w) \/ LevelStep(w)) /\ UNCHANGED <<calendar, registry>>
  BY <1>3, CurriculumIsElsewhere, ElsewhereKeeps
<1>4. CASE YearEnds(w)
  <2>1. UNCHANGED registry
    BY <1>4 DEF YearEnds
  <2>. QED
    BY <1>4, <2>1, CalendarIsElsewhere, ElsewhereKeeps
<1>. QED
  BY <1>1, <1>2, <1>3, <1>4, RegistryKeeps, GuardiansKeep

LEMMA SchoolStutters ==
    ASSUME SchoolInv, UNCHANGED school
    PROVE  SchoolInv' /\ UNCHANGED registry
<1>1. /\ students' = students /\ enrollments' = enrollments /\ lastValue' = lastValue
      /\ guardians' = guardians /\ links' = links /\ capacity' = capacity
      /\ unplaced' = unplaced /\ task' = task /\ overlapped' = overlapped
  BY DEF school, registry, placement, family
<1>2. OneWay' /\ Sound(TheRows)' /\ Capacious' /\ Placed'
  BY <1>1 DEF SchoolInv, OneWay, Remembered, OneAtMost, TheRows, Capacious, Placed
<1>3. \A w \in Workers : InHand(task'[w], students', enrollments')
  BY <1>1 DEF SchoolInv
<1>4. ASSUME ~overlapped', NEW w \in Workers
      PROVE  AloneInHand(task[w])'
  <2>1. AloneInHand(task[w])
    BY <1>1, <1>4 DEF SchoolInv
  <2>2. \A c : HasRoom(c)' = HasRoom(c)
    BY <1>1, SchoolTables, NoMoreSeats DEF HasRoom
  <2>3. \A rows : SeatsFor(rows)' = SeatsFor(rows)
    BY <1>1, SchoolTables, NoMoreSeats DEF SeatsFor
  <2>4. PICK r : r = task[w]
    OBVIOUS
  <2>5. AloneInHand(r)'
    BY <1>1, <2>1, <2>2, <2>3, <2>4 DEF AloneInHand, RoomInHand, FirstInHand, ClearsForThen
  <2>. QED
    BY <1>1, <2>4, <2>5 DEF AloneInHand, RoomInHand, FirstInHand, ClearsForThen
<1>5. ~overlapped' => FirstAlone(links')
  BY <1>1 DEF SchoolInv
<1>. QED
  BY <1>1, <1>2, <1>3, <1>4, <1>5 DEF SchoolInv, registry, placement, family

LEMMA SchoolInvariance == SchoolSpec => []SchoolInv
<1>1. SchoolInit => SchoolInv
  BY SchoolInitHolds
<1>2. SchoolInv /\ [SchoolNext]_school => SchoolInv'
  BY SchoolNextKeeps, SchoolStutters DEF SchoolStep
<1>. QED
  BY <1>1, <1>2, PTL DEF SchoolSpec

\* The tables of the school have their types, whatever overlaps or is rolled back
\* (student.repository.ts, enrollment.repository.ts, guardian.repository.ts).
THEOREM SchoolTypeCorrect ==
    SchoolSpec => []( /\ students \in [Students -> Student \cup {Absent}]
                      /\ enrollments \in [EnrollmentIds -> Enrollment \cup {Absent}]
                      /\ guardians \in [GuardianIds -> Phone \cup {Absent}]
                      /\ links \in [LinkIds -> Link \cup {Absent, Gone}]
                      /\ capacity \in [Classes -> Nat \cup {None}]
                      /\ lastValue \in Nat )
<1>1. SchoolInv => /\ students \in [Students -> Student \cup {Absent}]
                   /\ enrollments \in [EnrollmentIds -> Enrollment \cup {Absent}]
                   /\ guardians \in [GuardianIds -> Phone \cup {Absent}]
                   /\ links \in [LinkIds -> Link \cup {Absent, Gone}]
                   /\ capacity \in [Classes -> Nat \cup {None}]
                   /\ lastValue \in Nat
  BY SchoolTables
     DEF StudentsTable, EnrollmentsTable, GuardiansTable, LinksTable, Numbered, Capacious
<1>. QED
  BY <1>1, SchoolInvariance, PTL

\* Student IDs are issued once each and leave no gap, whatever overlaps or is
\* rolled back (identifier-sequence.ts:35-50).
THEOREM StudentIdsAreGapless == SchoolSpec => []IdentifiersAreGapless
<1>1. SchoolInv => IdentifiersAreGapless
  BY SchoolTables DEF Numbered, IdentifiersAreGapless
<1>. QED
  BY <1>1, SchoolInvariance, PTL

\* Every student is placed, in one place a year and in a class that is taught there
\* and then, or is being placed, or was left by a registration that died
\* (student.service.ts:261-290).
THEOREM EveryoneIsPlaced == SchoolSpec => []StudentsArePlaced
<1>1. SchoolInv => StudentsArePlaced
  <2>. SUFFICES ASSUME SchoolInv
                PROVE  StudentsArePlaced
    OBVIOUS
  <2>1. enrollments \in EnrollmentsTable /\ Enrolled(enrollments, students) /\ Placed
    BY SchoolTables
  <2>2. ASSUME NEW s \in Known(students), NEW y \in Years
        PROVE  Cardinality(LiveIn(s, y)) <= 1
    <3>1. \A e, f \in LiveIn(s, y) : e = f
      BY <2>1 DEF Enrolled, BothLive, LiveIn, Live
    <3>2. LiveIn(s, y) = {} \/ \E e \in LiveIn(s, y) : LiveIn(s, y) = {e}
      BY <3>1
    <3>3. CASE LiveIn(s, y) = {}
      <4>1. Cardinality(LiveIn(s, y)) = 0
        BY <3>3, FS_EmptySet
      <4>. QED
        BY <4>1
    <3>4. ASSUME NEW e, LiveIn(s, y) = {e}
          PROVE  Cardinality(LiveIn(s, y)) <= 1
      <4>1. Cardinality({e}) = 1
        BY FS_Singleton
      <4>. QED
        BY <3>4, <4>1
    <3>. QED
      BY <3>2, <3>3, <3>4
  <2>3. \A e \in Known(enrollments) : FitsClass(enrollments[e])
    BY <2>1 DEF Enrolled
  <2>. QED
    BY <2>1, <2>2, <2>3 DEF StudentsArePlaced, OnePlaceAYear, FitsClass, Placed
<1>. QED
  BY <1>1, SchoolInvariance, PTL

\* As long as requests do not overlap, at most one of the people linked to a student is the
\* first to ring (guardian.repository.ts:239-255, guardian.service.ts:198-208).
THEOREM OneIsRungFirst == SchoolSpec => []OnePrimaryContact
<1>1. SchoolInv => OnePrimaryContact
  <2>. SUFFICES ASSUME SchoolInv, ~overlapped, NEW s \in Known(students)
                PROVE  Cardinality({k \in LinksOf(s) : links[k].isPrimaryContact}) <= 1
    BY DEF OnePrimaryContact
  <2>. DEFINE first == {k \in LinksOf(s) : links[k].isPrimaryContact}
  <2>1. \A k, l \in first : k = l
    BY DEF SchoolInv, FirstAlone, LinksOf
  <2>2. first = {} \/ \E k \in first : first = {k}
    BY <2>1
  <2>. HIDE DEF first
  <2>3. Cardinality(first) <= 1
    <3>1. Cardinality({}) = 0 /\ \A k : Cardinality({k}) = 1
      BY FS_EmptySet, FS_Singleton
    <3>2. ASSUME NEW k \in first, first = {k}
          PROVE  Cardinality(first) <= 1
      <4>1. Cardinality(first) = 1
        BY <3>1, <3>2
      <4>. QED
        BY <4>1
    <3>3. CASE first = {}
      BY <3>1, <3>3
    <3>. QED
      BY <2>2, <3>2, <3>3
  <2>. QED
    BY <2>3 DEF first
<1>. QED
  BY <1>1, SchoolInvariance, PTL

\* An archived student stays archived, and what ended an enrolment stays
\* (enrollment.repository.ts:135, student.service.ts:477-508).
THEOREM WhatIsOverStaysOver == SchoolSpec => EndsAreFinal
<1>1. SchoolInv /\ [SchoolNext]_school => [EndsStep]_registry
  BY SchoolNextKeeps, SchoolStutters DEF SchoolStep
<1>. QED
  BY <1>1, SchoolInvariance, PTL DEF SchoolSpec, EndsAreFinal, EndsStep

\* As long as requests do not overlap, whoever is placed in a class fits in it
\* (academic.service.ts:810, student-import.service.ts:424-440).
THEOREM WhoeverIsPlacedFits == SchoolSpec => SeatsFit
<1>1. SchoolInv /\ [SchoolNext]_school => [SeatsStep]_registry
  BY SchoolNextKeeps, SchoolStutters DEF SchoolStep
<1>. QED
  BY <1>1, SchoolInvariance, PTL DEF SchoolSpec, SeatsFit, SeatsStep

=============================================================================
