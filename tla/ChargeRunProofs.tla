-------------------------- MODULE ChargeRunProofs --------------------------
(***************************************************************************)
(* Of charge runs, for any number of students, structures, runs and         *)
(* requests in flight: types, no double charge, no overlap within a run,    *)
(* runs recorded as a whole.  Of requests that do not overlap: a structure  *)
(* that was charged from does not change, and a run bills everyone.         *)
(***************************************************************************)
EXTENDS ChargeRun, SumTheorems

\* No more is known of the types than the argument needs.
Shape ==
    /\ DOMAIN task = Workers /\ task = [w \in Workers |-> task[w]]
    /\ DOMAIN runs = RunIds /\ runs = [n \in RunIds |-> runs[n]]
    /\ \A c \in charges : c = [run |-> c.run, line |-> c.line, status |-> c.status]

\* A run that has raised charges has its row, so a new one starts with none.
RunsOnRecord == \A c \in charges : runs[c.run] # Absent

\* One line for a student and a category in the plan of a run in flight.
PlansWithoutOverlap ==
    \A w \in Workers :
        task[w].op = "run" =>
            \A l, m \in task[w].toCreate :
                l.student = m.student /\ l.category = m.category => l = m

IInv ==
    /\ Shape
    /\ RunsOnRecord
    /\ PlansWithoutOverlap
    /\ NoDuplicateCharge
    /\ OneCategoryPerRun

\* A plan found free of conflicts has one line for a student and a category.
LEMMA PlannedOnce ==
    ASSUME NEW only, ~Conflict(Planned(only)),
           NEW l \in Planned(only), NEW m \in Planned(only),
           l.student = m.student, l.category = m.category
    PROVE  l = m
<1>1. l.structure = m.structure
  BY DEF Conflict
<1>2. \A p \in Planned(only) :
        p = [student |-> p.student, structure |-> p.structure, category |-> p.category,
             amount |-> structures[p.structure].items[p.category]]
  BY DEF Planned, LinesFor
<1>. QED
  BY <1>1, <1>2

\* Beginning and finishing a request.
LEMMA BeginPlans ==
    ASSUME Shape, PlansWithoutOverlap, NEW w \in Workers, NEW request, Begin(w, request),
           request.op # "run"
    PROVE  PlansWithoutOverlap'
<1>1. task'[w] = request /\ \A v \in Workers \ {w} : task'[v] = task[v]
  BY DEF Begin, Shape
<1>. QED
  BY <1>1 DEF PlansWithoutOverlap

\* First the plans and charges: no line twice, no category twice.
LEMMA FinishPlans ==
    ASSUME Shape, PlansWithoutOverlap, NEW w \in Workers, Finish(w)
    PROVE  PlansWithoutOverlap'
<1>1. task'[w] = Idle /\ \A v \in Workers \ {w} : task'[v] = task[v]
  BY DEF Finish, Shape
<1>. QED
  BY <1>1 DEF PlansWithoutOverlap, Idle

\* Steps that touch neither charges nor runs.
LEMMA ChargesKept ==
    ASSUME IInv, UNCHANGED <<charges, runs>>
    PROVE  RunsOnRecord' /\ NoDuplicateCharge' /\ OneCategoryPerRun'
  BY DEF IInv, RunsOnRecord, NoDuplicateCharge, OneCategoryPerRun

LEMMA RunLoadSafe ==
    ASSUME IInv, NEW w \in Workers, NEW only, RunLoad(w, only)
    PROVE  IInv'
<1>1. /\ task'[w].toCreate \subseteq Planned(only)
      /\ \A v \in Workers \ {w} : task'[v] = task[v]
  BY DEF RunLoad, Begin, IInv, Shape
<1>2. PlansWithoutOverlap'
  BY <1>1, PlannedOnce DEF RunLoad, IInv, PlansWithoutOverlap
<1>3. Shape'
  BY DEF RunLoad, Begin, IInv, Shape
<1>. QED
  BY <1>2, <1>3, ChargesKept DEF RunLoad, IInv

LEMMA RunCommitSafe ==
    ASSUME IInv, NEW w \in Workers, NEW n \in RunIds, RunCommit(w, n)
    PROVE  IInv'
<1>. DEFINE raised == {[run |-> n, line |-> l, status |-> "RAISED"] : l \in task[w].toCreate}
<1>1. charges' = charges \cup raised
  BY DEF RunCommit
<1>2. /\ runs'[n] # Absent
      /\ \A m \in RunIds \ {n} : runs'[m] = runs[m]
  BY DEF RunCommit, IInv, Shape, Row, Absent
<1>3. \A c \in charges : c.run # n
  BY DEF RunCommit, IInv, RunsOnRecord
<1>4. \A c \in raised : c.run = n /\ c.line \in task[w].toCreate /\ ~LiveCharge(c.line)
  BY DEF RunCommit, Insertable
<1>5. \A c, d \in raised :
        c.line.student = d.line.student /\ c.line.category = d.line.category => c = d
  BY DEF RunCommit, IInv, PlansWithoutOverlap
<1>6. Shape'
  BY <1>1 DEF RunCommit, Finish, IInv, Shape
<1>7. RunsOnRecord'
  <2>1. \A c \in charges : runs'[c.run] # Absent
    BY <1>3 DEF RunCommit, IInv, RunsOnRecord, Shape
  <2>. QED
    BY <1>1, <1>2, <1>4, <2>1 DEF RunsOnRecord
<1>8. NoDuplicateCharge'
  <2>1. \A c \in charges, d \in raised :
          c.status = "RAISED" => ~SameItem(c.line, d.line) /\ ~SameItem(d.line, c.line)
    BY <1>4 DEF LiveCharge, SameItem
  <2>2. \A c, d \in raised : SameItem(c.line, d.line) => c = d
    BY <1>5 DEF SameItem
  <2>. QED
    BY <1>1, <2>1, <2>2 DEF IInv, NoDuplicateCharge
<1>9. OneCategoryPerRun'
  BY <1>1, <1>3, <1>4, <1>5 DEF IInv, OneCategoryPerRun
<1>10. PlansWithoutOverlap'
  BY FinishPlans DEF RunCommit, IInv
<1>. QED
  BY <1>6, <1>7, <1>8, <1>9, <1>10 DEF IInv

LEMMA VoidChargeSafe ==
    ASSUME IInv, NEW c \in charges, VoidCharge(c)
    PROVE  IInv'
<1>. DEFINE voided == [c EXCEPT !.status = "VOID"]
<1>1. /\ voided = [run |-> c.run, line |-> c.line, status |-> "VOID"]
      /\ charges' = (charges \ {c}) \cup {voided}
      /\ UNCHANGED <<runs, task>>
  BY DEF VoidCharge, IInv, Shape
<1>2. voided.run = c.run /\ voided.line = c.line /\ voided.status = "VOID"
  BY <1>1
<1>. HIDE DEF voided
<1>3. Shape' /\ RunsOnRecord'
  BY <1>1, <1>2 DEF IInv, Shape, RunsOnRecord
<1>4. NoDuplicateCharge'
  BY <1>1, <1>2 DEF IInv, NoDuplicateCharge
<1>5. OneCategoryPerRun'
  BY <1>1, <1>2 DEF IInv, OneCategoryPerRun
<1>. QED
  BY <1>1, <1>3, <1>4, <1>5 DEF IInv, PlansWithoutOverlap

LEMMA IInvInit == Init => IInv
  BY DEF Init, IInv, Shape, RunsOnRecord, PlansWithoutOverlap, NoDuplicateCharge,
         OneCategoryPerRun, Idle

LEMMA IInvStep == IInv /\ [Next]_vars => IInv'
<1>. SUFFICES ASSUME IInv, [Next]_vars
              PROVE  IInv'
  OBVIOUS
<1>1. ASSUME UNCHANGED <<charges, runs, task>>
      PROVE  IInv'
  BY <1>1, ChargesKept DEF IInv, Shape, PlansWithoutOverlap
<1>2. ASSUME NEW s \in Students, Enrol(s) \/ MoveToClass(s) \/ EndEnrollment(s)
      PROVE  IInv'
  BY <1>1, <1>2 DEF Enrol, MoveToClass, EndEnrollment
<1>3. CASE ClosePeriod
  BY <1>1, <1>3 DEF ClosePeriod
<1>4. ASSUME NEW t \in Structures, CreateStructure(t) \/ Archive(t)
      PROVE  IInv'
  BY <1>1, <1>4 DEF CreateStructure, Archive
<1>5. ASSUME NEW w \in Workers, NEW t \in Structures,
             NEW op \in {"add", "update", "remove"}, EditLoad(w, t, op)
      PROVE  IInv'
  <2>1. PICK k \in Categories, a \in Amounts :
          Begin(w, [op |-> op, structure |-> t, category |-> k, amount |-> a])
    BY <1>5 DEF EditLoad
  <2>2. UNCHANGED <<charges, runs>> /\ Shape'
    BY <1>5, <2>1 DEF EditLoad, Begin, IInv, Shape
  <2>. QED
    BY <2>1, <2>2, BeginPlans, ChargesKept DEF IInv
<1>6. ASSUME NEW w \in Workers, EditCommit(w) \/ ActivateCommit(w) \/ Refuse(w)
      PROVE  IInv'
  <2>1. UNCHANGED <<charges, runs>> /\ Finish(w)
    BY <1>6 DEF EditCommit, ActivateCommit, Refuse
  <2>2. Shape'
    BY <2>1 DEF Finish, IInv, Shape
  <2>. QED
    BY <2>1, <2>2, FinishPlans, ChargesKept DEF IInv
<1>7. ASSUME NEW w \in Workers, NEW t \in Structures, ActivateLoad(w, t)
      PROVE  IInv'
  <2>1. Begin(w, [op |-> "activate", structure |-> t,
                  expectedVersion |-> structures[t].version])
    BY <1>7 DEF ActivateLoad
  <2>2. UNCHANGED <<charges, runs>> /\ Shape'
    BY <1>7, <2>1 DEF ActivateLoad, Begin, IInv, Shape
  <2>. QED
    BY <2>1, <2>2, BeginPlans, ChargesKept DEF IInv
<1>8. CASE UNCHANGED vars
  BY <1>1, <1>8 DEF vars
<1>. QED
  BY <1>2, <1>3, <1>4, <1>5, <1>6, <1>7, <1>8, RunLoadSafe, RunCommitSafe, VoidChargeSafe
     DEF Next

LEMMA InvariantHolds == Spec => []IInv
  BY IInvInit, IInvStep, PTL DEF Spec

\* Two runs that race, or a run repeated, never leave a student with two live
\* charges for one item.
THEOREM NoDoubleCharge == Spec => []NoDuplicateCharge
<1>1. IInv => NoDuplicateCharge
  BY DEF IInv
<1>. QED
  BY <1>1, InvariantHolds, PTL

\* One run never charges a student twice for a category.
THEOREM NoOverlapInRun == Spec => []OneCategoryPerRun
<1>1. IInv => OneCategoryPerRun
  BY DEF IInv
<1>. QED
  BY <1>1, InvariantHolds, PTL

-----------------------------------------------------------------------------
(* Types.  A row of a run counts and adds up what was planned, so a plan must  *)
(* be a finite set.                                                            *)

\* What is planned for the edits, activations and runs in flight.
InFlight ==
    \A w \in Workers :
        /\ task[w].op = "run" =>
             task[w].toCreate \subseteq task[w].planned /\ IsFiniteSet(task[w].planned)
        /\ task[w].op \in {"add", "update", "remove", "activate"} =>
             structures[task[w].structure] \in Structure

TInv == TypeOK /\ InFlight

\* A structure that is there is one.
LEMMA StructurePresent ==
    ASSUME TypeOK, NEW t \in Structures, structures[t].status # "ABSENT"
    PROVE  structures[t] \in Structure
  BY DEF TypeOK, Absent

\* What is planned is made of items, and is finite.
LEMMA ItemsOf ==
    ASSUME NEW structure \in Structure
    PROVE  /\ structure.items = [k \in DOMAIN structure.items |-> structure.items[k]]
           /\ DOMAIN structure.items \subseteq Categories
           /\ \A k \in DOMAIN structure.items : structure.items[k] \in Amounts
<1>1. PICK K \in SUBSET Categories : structure.items \in [K -> Amounts]
  BY DEF Structure
<1>. QED
  BY <1>1

\* What a run plans is made of a student, a structure and a category each.
LEMMA PlannedLines ==
    ASSUME TypeOK, NEW only, NEW l \in Planned(only)
    PROVE  /\ l \in Line
           /\ structures[l.structure] \in Structure
           /\ structures[l.structure].status = "ACTIVE"
           /\ l.category \in DOMAIN structures[l.structure].items
           /\ l.amount = structures[l.structure].items[l.category]
<1>1. PICK s \in Students, t \in Structures : Applies(t, s, only) /\ l \in LinesFor(s, t)
  BY DEF Planned
<1>2. structures[t] \in Structure /\ structures[t].status = "ACTIVE"
  BY <1>1, StructurePresent DEF Applies
<1>3. PICK k \in DOMAIN structures[t].items :
        l = [student |-> s, structure |-> t, category |-> k,
             amount |-> structures[t].items[k]]
  BY <1>1 DEF LinesFor
<1>4. k \in Categories /\ structures[t].items[k] \in Amounts
  BY <1>2, <1>3, ItemsOf
<1>. QED
  BY <1>2, <1>3, <1>4 DEF Line

LEMMA PlannedFinite ==
    ASSUME TypeOK, NEW only
    PROVE  IsFiniteSet(Planned(only))
<1>. DEFINE P == (Students \X Structures) \X Categories
            LineAt(x) == [student |-> x[1][1], structure |-> x[1][2], category |-> x[2],
                          amount |-> structures[x[1][2]].items[x[2]]]
            m == [x \in P |-> LineAt(x)]
            T == {LineAt(x) : x \in P}
<1>1. IsFiniteSet(P)
  BY FS_Product, RunAssumption
<1>2. m \in Surjection(P, T)
  BY DEF Surjection
<1>3. IsFiniteSet(T)
  <2>. HIDE DEF P, m, T
  <2>. QED
    BY <1>1, <1>2, FS_Surjection
<1>4. Planned(only) \subseteq T
  <2>1. SUFFICES ASSUME NEW l \in Planned(only)
                 PROVE  l \in T
    OBVIOUS
  <2>. DEFINE x == <<<<l.student, l.structure>>, l.category>>
  <2>2. /\ l \in Line /\ l.amount = structures[l.structure].items[l.category]
    BY PlannedLines
  <2>3. x \in P
    BY <2>2 DEF Line
  <2>4. l = LineAt(x)
    BY <2>2 DEF Line
  <2>. QED
    BY <2>3, <2>4
<1>. HIDE DEF T
<1>. QED
  BY <1>3, <1>4, FS_Subset

\* The amounts of a set of lines, added up.
LineTotal(L) == MapThenSumSet(LAMBDA l : l.amount, L)

\* What a run's lines add up to.
LEMMA LineTotalIsSum ==
    ASSUME NEW L, IsFiniteSet(L)
    PROVE  LineTotal(L) = Sum([l \in L |-> l.amount], L)
<1>. DEFINE f == [l \in L |-> l.amount]
            Eq(g) == g = [s \in SUBSET L |->
                            IF s = {} THEN 0 ELSE Pick(s).amount + g[s \ {Pick(s)}]]
<1>1. ASSUME NEW g
      PROVE  Eq(g) <=> Adds(g, f, L)
  <2>1. \A s \in SUBSET L : s # {} => f[Pick(s)] = Pick(s).amount
    BY PickIsIn
  <2>. HIDE DEF f
  <2>2. [s \in SUBSET L |-> IF s = {} THEN 0 ELSE Pick(s).amount + g[s \ {Pick(s)}]]
          = [s \in SUBSET L |-> IF s = {} THEN 0 ELSE f[Pick(s)] + g[s \ {Pick(s)}]]
    BY <2>1
  <2>. QED
    BY <2>2 DEF Adds
<1>. HIDE DEF f, Eq
<1>2. Adds(CHOOSE g : Eq(g), f, L)
  <2>1. \E g : Eq(g)
    BY <1>1, SolutionExists
  <2>. QED
    BY <1>1, <2>1
<1>3. (CHOOSE g : Eq(g))[L] = Sum(f, L)
  BY <1>2, SolutionSums
<1>. QED
  BY <1>3 DEF f, Eq, LineTotal, MapThenSumSet, MapThenFoldSet, Pick

\* The row of a run whose plan is finite.
LEMMA RowTyped ==
    ASSUME NEW only \in Structures \cup {None}, NEW planned \in SUBSET Line,
           NEW toCreate \in SUBSET planned, IsFiniteSet(planned)
    PROVE  Row(only, planned, toCreate) \in RunRow
<1>. DEFINE students == {l.student : l \in planned}
            m == [l \in planned |-> l.student]
            f == [l \in toCreate |-> l.amount]
            total == MapThenSumSet(LAMBDA l : l.amount, toCreate)
<1>1. m \in Surjection(planned, students)
  BY DEF Surjection
<1>2. Cardinality(students) \in Nat
  <2>1. IsFiniteSet(students)
    <3>. HIDE DEF m, students
    <3>. QED
      BY <1>1, FS_Surjection
  <2>. QED
    BY <2>1, FS_CardinalityType
<1>3. IsFiniteSet(toCreate) /\ Cardinality(toCreate) \in Nat /\ Cardinality(planned) \in Nat
      /\ Cardinality(toCreate) <= Cardinality(planned)
  BY FS_Subset, FS_CardinalityType
<1>4. \A l \in toCreate : f[l] \in Nat
  BY RunAssumption DEF Line
<1>. HIDE DEF f, total
<1>5. total \in Nat
  <2>1. Sum(f, toCreate) \in Nat
    BY <1>3, <1>4, SumIsNatural
  <2>2. LineTotal(toCreate) = Sum(f, toCreate)
    BY <1>3, LineTotalIsSum DEF f
  <2>. QED
    BY <2>1, <2>2 DEF LineTotal, total
<1>6. Row(only, planned, toCreate) =
        [status |-> "APPLIED", only |-> only, matched |-> Cardinality(students),
         created |-> Cardinality(toCreate),
         skipped |-> Cardinality(planned) - Cardinality(toCreate), total |-> total]
  BY DEF Row, total
<1>. HIDE DEF students
<1>. QED
  BY <1>2, <1>3, <1>5, <1>6 DEF RunRow

\* Types, one lemma for each action.
LEMMA TypesInit == Init => TInv
  BY DEF Init, TInv, TypeOK, InFlight, Task, Idle, Absent

\* Structures that are there stay there.
StructuresStay ==
    \A t \in Structures : structures[t] \in Structure => structures'[t] \in Structure

\* The types after a step that writes none but the variables it is about.
LEMMA TaskTyped ==
    ASSUME TypeOK, NEW w \in Workers, NEW request \in Task, Begin(w, request)
    PROVE  /\ task' \in [Workers -> Task]
           /\ task'[w] = request
           /\ \A v \in Workers \ {w} : task'[v] = task[v]
  BY DEF TypeOK, Begin

LEMMA FinishTyped ==
    ASSUME TInv, NEW w \in Workers, Finish(w), StructuresStay
    PROVE  task' \in [Workers -> Task] /\ InFlight'
<1>1. /\ task' \in [Workers -> Task]
      /\ task'[w] = Idle
      /\ \A v \in Workers \ {w} : task'[v] = task[v]
  BY DEF TInv, TypeOK, Finish, Task
<1>2. \A v \in Workers : task[v].op \in {"add", "update", "remove", "activate"} =>
        task[v].structure \in Structures
  BY DEF TInv, TypeOK, Task, Idle
<1>. QED
  BY <1>1, <1>2 DEF TInv, InFlight, StructuresStay, Idle

LEMMA OthersTyped ==
    ASSUME TInv, UNCHANGED task, StructuresStay
    PROVE  task' \in [Workers -> Task] /\ InFlight'
<1>1. \A v \in Workers : task[v].op \in {"add", "update", "remove", "activate"} =>
        task[v].structure \in Structures
  BY DEF TInv, TypeOK, Task, Idle
<1>. QED
  BY <1>1 DEF TInv, TypeOK, InFlight, StructuresStay

LEMMA PlacementsTyped ==
    ASSUME TInv, NEW s \in Students, Enrol(s) \/ MoveToClass(s) \/ EndEnrollment(s)
    PROVE  TInv'
<1>1. /\ placements' \in [Students -> Places \cup {None}]
      /\ UNCHANGED <<period, structures, charges, ledger, runs, task>>
  BY DEF Enrol, MoveToClass, EndEnrollment, TInv, TypeOK
<1>2. StructuresStay
  BY <1>1 DEF StructuresStay
<1>. QED
  BY <1>1, <1>2, OthersTyped DEF TInv, TypeOK

LEMMA CreateStructureTyped ==
    ASSUME TInv, NEW t \in Structures, CreateStructure(t)
    PROVE  TInv'
<1>1. PICK scope \in SUBSET Places \ {{}}, K \in SUBSET Categories \ {{}} :
        \E items \in [K -> Amounts] :
            structures' = [structures EXCEPT ![t] =
                [status |-> "DRAFT", scope |-> scope, items |-> items, version |-> 1]]
  BY DEF CreateStructure
<1>2. PICK items \in [K -> Amounts] :
            structures' = [structures EXCEPT ![t] =
                [status |-> "DRAFT", scope |-> scope, items |-> items, version |-> 1]]
  BY <1>1
<1>. DEFINE structure == [status |-> "DRAFT", scope |-> scope, items |-> items, version |-> 1]
<1>3. structure \in Structure
  BY DEF Structure
<1>4. structures' = [structures EXCEPT ![t] = structure]
  BY <1>2
<1>. HIDE DEF structure
<1>5. structures' \in [Structures -> Structure \cup {Absent}] /\ StructuresStay
  BY <1>3, <1>4 DEF TInv, TypeOK, StructuresStay
<1>6. UNCHANGED <<period, placements, charges, ledger, runs, task>>
  BY DEF CreateStructure
<1>. QED
  BY <1>5, <1>6, OthersTyped DEF TInv, TypeOK

LEMMA EditLoadTyped ==
    ASSUME TInv, NEW w \in Workers, NEW t \in Structures,
           NEW op \in {"add", "update", "remove"}, EditLoad(w, t, op)
    PROVE  TInv'
<1>1. PICK k \in Categories, a \in Amounts :
        Begin(w, [op |-> op, structure |-> t, category |-> k, amount |-> a])
  BY DEF EditLoad
<1>2. UNCHANGED <<period, placements, structures, charges, ledger, runs>>
      /\ structures[t] \in Structure
  BY StructurePresent DEF EditLoad, Editable, TInv
<1>. DEFINE request == [op |-> op, structure |-> t, category |-> k, amount |-> a]
<1>3. request \in Task /\ request.structure = t /\ request.op # "run"
  BY DEF Task
<1>. HIDE DEF request
<1>4. /\ task' \in [Workers -> Task]
      /\ task'[w] = request
      /\ \A v \in Workers \ {w} : task'[v] = task[v]
  BY <1>1, <1>3, TaskTyped DEF request, TInv
<1>. QED
  BY <1>2, <1>3, <1>4 DEF TInv, TypeOK, InFlight

LEMMA EditCommitTyped ==
    ASSUME TInv, NEW w \in Workers, EditCommit(w)
    PROVE  TInv'
<1>1. /\ task[w].op \in {"add", "update", "remove"}
      /\ Finish(w) /\ UNCHANGED <<period, placements, charges, ledger, runs>>
  BY DEF EditCommit
<1>2. PICK t \in Structures, k \in Categories, a \in Amounts :
        t = task[w].structure /\ k = task[w].category /\ a = task[w].amount
  BY <1>1 DEF TInv, TypeOK, Task, Idle
<1>3. structures[t] \in Structure
  BY <1>1, <1>2 DEF TInv, InFlight
<1>. DEFINE items == structures[t].items
<1>4. /\ items = [c \in DOMAIN items |-> items[c]]
      /\ DOMAIN items \subseteq Categories
      /\ \A c \in DOMAIN items : items[c] \in Amounts
  BY <1>3, ItemsOf
<1>5. PICK new : /\ structures' = [structures EXCEPT ![t].items = new]
                 /\ \E K \in SUBSET Categories : new \in [K -> Amounts]
  <2>1. CASE task[w].op = "add"
    <3>. DEFINE new == [c \in DOMAIN items \cup {k} |-> IF c = k THEN a ELSE items[c]]
    <3>1. structures' = [structures EXCEPT ![t].items = new]
      BY <1>2, <2>1 DEF EditCommit
    <3>2. new \in [DOMAIN items \cup {k} -> Amounts]
      BY <1>4
    <3>. QED
      <4>. HIDE DEF new
      <4>1. DOMAIN items \cup {k} \in SUBSET Categories
        BY <1>4
      <4>. QED
        BY <3>1, <3>2, <4>1
  <2>2. CASE task[w].op = "update"
    <3>1. structures' = [structures EXCEPT ![t].items = [items EXCEPT ![k] = a]]
      BY <1>2, <2>2 DEF EditCommit
    <3>2. [items EXCEPT ![k] = a] \in [DOMAIN items -> Amounts]
      BY <1>4
    <3>. QED
      BY <1>4, <3>1, <3>2
  <2>3. CASE task[w].op = "remove"
    <3>1. structures' = [structures EXCEPT ![t].items = Restrict(items, DOMAIN items \ {k})]
      BY <1>2, <2>3 DEF EditCommit
    <3>2. Restrict(items, DOMAIN items \ {k}) \in [DOMAIN items \ {k} -> Amounts]
      BY <1>4 DEF Restrict
    <3>. QED
      BY <1>4, <3>1, <3>2
  <2>. QED
    BY <1>1, <2>1, <2>2, <2>3
<1>6. new \in UNION {[K -> Amounts] : K \in SUBSET Categories}
  BY <1>5
<1>7. [structures[t] EXCEPT !.items = new] \in Structure
  BY <1>3, <1>6 DEF Structure
<1>8. structures' \in [Structures -> Structure \cup {Absent}] /\ StructuresStay
  BY <1>5, <1>7 DEF TInv, TypeOK, StructuresStay
<1>. QED
  BY <1>1, <1>8, FinishTyped DEF TInv, TypeOK

LEMMA ActivateLoadTyped ==
    ASSUME TInv, NEW w \in Workers, NEW t \in Structures, ActivateLoad(w, t)
    PROVE  TInv'
<1>. DEFINE request == [op |-> "activate", structure |-> t,
                        expectedVersion |-> structures[t].version]
<1>1. Begin(w, request) /\ UNCHANGED <<period, placements, structures, charges, ledger, runs>>
  BY DEF ActivateLoad
<1>2. structures[t] \in Structure
  BY StructurePresent DEF ActivateLoad, TInv
<1>3. request \in Task /\ request.structure = t /\ request.op = "activate"
  BY <1>2 DEF Task, Structure
<1>. HIDE DEF request
<1>4. /\ task' \in [Workers -> Task]
      /\ \A v \in Workers \ {w} : task'[v] = task[v]
  BY <1>1, <1>3, TaskTyped DEF TInv
<1>5. task'[w].structure = t /\ task'[w].op = "activate"
  BY DEF ActivateLoad, Begin, TInv, TypeOK
<1>. QED
  BY <1>1, <1>2, <1>4, <1>5 DEF TInv, TypeOK, InFlight

\* Publishing and archiving: the structure takes a new status and version.
LEMMA StatusTyped ==
    ASSUME TypeOK, NEW t \in Structures, structures[t] \in Structure,
           NEW status \in {"ACTIVE", "ARCHIVED"},
           structures' = [structures EXCEPT ![t].status = status, ![t].version = @ + 1]
    PROVE  structures' \in [Structures -> Structure \cup {Absent}] /\ StructuresStay
<1>. DEFINE structure == structures[t]
<1>1. [structures[t] EXCEPT !.status = status, !.version = @ + 1] \in Structure
  <2>. HIDE DEF structure
  <2>1. structure.version + 1 \in Nat /\ status \in {"DRAFT", "ACTIVE", "ARCHIVED"}
    BY DEF Structure, structure
  <2>2. [structure EXCEPT !.status = status, !.version = structure.version + 1] \in Structure
    BY <2>1 DEF Structure, structure
  <2>. QED
    BY <2>2 DEF structure
<1>2. structures' = [structures EXCEPT ![t] =
                       [structures[t] EXCEPT !.status = status, !.version = @ + 1]]
  BY DEF TypeOK
<1>. QED
  BY <1>1, <1>2 DEF TypeOK, StructuresStay

LEMMA ActivateCommitTyped ==
    ASSUME TInv, NEW w \in Workers, ActivateCommit(w)
    PROVE  TInv'
<1>1. PICK t \in Structures : t = task[w].structure
  BY DEF ActivateCommit, TInv, TypeOK, Task, Idle
<1>2. structures[t] \in Structure
  BY <1>1 DEF ActivateCommit, TInv, InFlight
<1>3. /\ structures' = [structures EXCEPT ![t].status = "ACTIVE", ![t].version = @ + 1]
      /\ Finish(w) /\ UNCHANGED <<period, placements, charges, ledger, runs>>
  BY <1>1 DEF ActivateCommit
<1>. QED
  BY <1>2, <1>3, StatusTyped, FinishTyped DEF TInv, TypeOK

LEMMA ArchiveTyped ==
    ASSUME TInv, NEW t \in Structures, Archive(t)
    PROVE  TInv'
<1>1. structures[t] \in Structure
  BY StructurePresent DEF Archive, TInv
<1>2. /\ structures' = [structures EXCEPT ![t].status = "ARCHIVED", ![t].version = @ + 1]
      /\ UNCHANGED <<period, placements, charges, ledger, runs, task>>
  BY DEF Archive
<1>. QED
  BY <1>1, <1>2, StatusTyped, OthersTyped DEF TInv, TypeOK

LEMMA RunLoadTyped ==
    ASSUME TInv, NEW w \in Workers, NEW only \in Structures \cup {None}, RunLoad(w, only)
    PROVE  TInv'
<1>. DEFINE planned == Planned(only)
            toCreate == {l \in planned : ~LiveCharge(l)}
            request == [op |-> "run", only |-> only, planned |-> planned,
                        toCreate |-> toCreate]
<1>1. Begin(w, request) /\ UNCHANGED <<period, placements, structures, charges, ledger, runs>>
  BY DEF RunLoad
<1>2. planned \in SUBSET Line /\ IsFiniteSet(planned) /\ toCreate \in SUBSET planned
  BY PlannedLines, PlannedFinite DEF TInv
<1>. HIDE DEF planned, toCreate
<1>3. request \in Task /\ request.op = "run"
      /\ request.planned = planned /\ request.toCreate = toCreate
  BY <1>2 DEF Task
<1>4. /\ task' \in [Workers -> Task]
      /\ \A v \in Workers \ {w} : task'[v] = task[v]
  BY <1>1, <1>3, TaskTyped DEF TInv
<1>5. /\ task'[w].op = "run"
      /\ task'[w].toCreate \subseteq task'[w].planned
      /\ IsFiniteSet(task'[w].planned)
  <2>1. PICK p, c : /\ p = planned /\ c = toCreate
                    /\ task' = [task EXCEPT ![w] = [op |-> "run", only |-> only,
                                                    planned |-> p, toCreate |-> c]]
    BY <1>1 DEF Begin
  <2>2. task'[w] = [op |-> "run", only |-> only, planned |-> p, toCreate |-> c]
    BY <2>1 DEF TInv, TypeOK
  <2>. QED
    BY <1>2, <2>1, <2>2
<1>. QED
  BY <1>1, <1>4, <1>5 DEF TInv, TypeOK, InFlight

\* What a run in flight holds.
LEMMA RunTask ==
    ASSUME TInv, NEW w \in Workers, task[w].op = "run"
    PROVE  /\ task[w].only \in Structures \cup {None}
           /\ task[w].planned \in SUBSET Line
           /\ task[w].toCreate \in SUBSET task[w].planned
           /\ IsFiniteSet(task[w].planned)
           /\ IsFiniteSet(task[w].toCreate)
<1>1. task[w] \in Task
  BY DEF TInv, TypeOK
<1>2. task[w].toCreate \in SUBSET task[w].planned /\ IsFiniteSet(task[w].planned)
  BY DEF TInv, InFlight
<1>. QED
  BY <1>1, <1>2, FS_Subset DEF Task, Idle

LEMMA RunCommitTyped ==
    ASSUME TInv, NEW w \in Workers, NEW n \in RunIds, RunCommit(w, n)
    PROVE  TInv'
<1>. DEFINE lines == task[w].toCreate
<1>1. /\ task[w].op = "run"
      /\ runs' = [runs EXCEPT ![n] = Row(task[w].only, task[w].planned, lines)]
      /\ charges' = charges \cup {[run |-> n, line |-> l, status |-> "RAISED"] : l \in lines}
      /\ ledger' = ledger \cup {[run |-> n, line |-> l, type |-> "DEBIT"] : l \in lines}
      /\ Finish(w) /\ UNCHANGED <<period, placements, structures>>
  BY DEF RunCommit
<1>2. lines \in SUBSET Line
  BY <1>1, RunTask
<1>3. Row(task[w].only, task[w].planned, lines) \in RunRow
  BY <1>1, RunTask, RowTyped
<1>. HIDE DEF lines
<1>4. runs' \in [RunIds -> RunRow \cup {Absent}]
  BY <1>1, <1>3 DEF TInv, TypeOK
<1>5. charges' \subseteq Charge /\ ledger' \subseteq Entry
  BY <1>1, <1>2 DEF TInv, TypeOK, Charge, Entry
<1>6. StructuresStay
  BY <1>1 DEF StructuresStay
<1>. QED
  BY <1>1, <1>4, <1>5, <1>6, FinishTyped DEF TInv, TypeOK

LEMMA VoidChargeTyped ==
    ASSUME TInv, NEW c \in charges, VoidCharge(c)
    PROVE  TInv'
<1>1. c \in Charge
  BY DEF TInv, TypeOK
<1>2. [c EXCEPT !.status = "VOID"] \in Charge
      /\ [run |-> c.run, line |-> c.line, type |-> "CREDIT"] \in Entry
  BY <1>1 DEF Charge, Entry
<1>3. UNCHANGED <<period, placements, structures, runs, task>>
      /\ charges' \subseteq Charge /\ ledger' \subseteq Entry
  BY <1>2 DEF VoidCharge, TInv, TypeOK
<1>4. StructuresStay
  BY <1>3 DEF StructuresStay
<1>. QED
  BY <1>3, <1>4, OthersTyped DEF TInv, TypeOK

LEMMA TypesStep == TInv /\ [Next]_vars => TInv'
<1>. SUFFICES ASSUME TInv, [Next]_vars
              PROVE  TInv'
  OBVIOUS
<1>1. CASE UNCHANGED vars
  BY <1>1 DEF vars, TInv, TypeOK, InFlight
<1>2. CASE ClosePeriod
  <2>1. UNCHANGED <<placements, structures, charges, ledger, runs, task>> /\ period' = "CLOSED"
    BY <1>2 DEF ClosePeriod
  <2>2. StructuresStay
    BY <2>1 DEF StructuresStay
  <2>. QED
    BY <2>1, <2>2, OthersTyped DEF TInv, TypeOK
<1>3. ASSUME NEW w \in Workers, Refuse(w)
      PROVE  TInv'
  <2>1. Finish(w) /\ UNCHANGED <<period, placements, structures, charges, ledger, runs>>
    BY <1>3 DEF Refuse
  <2>2. StructuresStay
    BY <2>1 DEF StructuresStay
  <2>. QED
    BY <2>1, <2>2, FinishTyped DEF TInv, TypeOK
<1>. QED
  BY <1>1, <1>2, <1>3, PlacementsTyped, CreateStructureTyped, EditLoadTyped, EditCommitTyped,
     ActivateLoadTyped, ActivateCommitTyped, ArchiveTyped, RunLoadTyped, RunCommitTyped,
     VoidChargeTyped DEF Next

LEMMA TypesHold == Spec => []TInv
  BY TypesInit, TypesStep, PTL DEF Spec

\* Types, among them the figures on the row of a run: what it skipped is never negative.
THEOREM TypeCorrect == Spec => []TypeOK
<1>1. TInv => TypeOK
  BY DEF TInv
<1>. QED
  BY <1>1, TypesHold, PTL

-----------------------------------------------------------------------------
(* A run is whole.  A charge only ever changes its status, so the lines of a   *)
(* run are what they were when it was written.                                 *)

\* The amounts of a set of charges, added up.
ChargedTotal(C) == MapThenSumSet(LAMBDA c : c.line.amount, C)

RunIsWhole(n) ==
    IF runs[n] = Absent
      THEN ChargesOf(n) = {}
      ELSE /\ runs[n].created = Cardinality(ChargesOf(n))
           /\ runs[n].total = ChargedTotal(ChargesOf(n))

LedgerFollows ==
    ledger =
         {[run |-> c.run, line |-> c.line, type |-> "DEBIT"] : c \in charges}
           \cup {[run |-> c.run, line |-> c.line, type |-> "CREDIT"] :
                   c \in {d \in charges : d.status = "VOID"}}

\* What a run's charges add up to.
LEMMA ChargedTotalIsSum ==
    ASSUME NEW C, IsFiniteSet(C)
    PROVE  ChargedTotal(C) = Sum([c \in C |-> c.line.amount], C)
<1>. DEFINE f == [c \in C |-> c.line.amount]
            Eq(g) == g = [s \in SUBSET C |->
                            IF s = {} THEN 0 ELSE Pick(s).line.amount + g[s \ {Pick(s)}]]
<1>1. ASSUME NEW g
      PROVE  Eq(g) <=> Adds(g, f, C)
  <2>1. \A s \in SUBSET C : s # {} => f[Pick(s)] = Pick(s).line.amount
    BY PickIsIn
  <2>. HIDE DEF f
  <2>2. [s \in SUBSET C |-> IF s = {} THEN 0 ELSE Pick(s).line.amount + g[s \ {Pick(s)}]]
          = [s \in SUBSET C |-> IF s = {} THEN 0 ELSE f[Pick(s)] + g[s \ {Pick(s)}]]
    BY <2>1
  <2>. QED
    BY <2>2 DEF Adds
<1>. HIDE DEF f, Eq
<1>2. Adds(CHOOSE g : Eq(g), f, C)
  <2>1. \E g : Eq(g)
    BY <1>1, SolutionExists
  <2>. QED
    BY <1>1, <2>1
<1>3. (CHOOSE g : Eq(g))[C] = Sum(f, C)
  BY <1>2, SolutionSums
<1>. QED
  BY <1>3 DEF f, Eq, ChargedTotal, MapThenSumSet, MapThenFoldSet, Pick

\* Sets of charges or lines that pair off, amounts equal, are as many and come to as much.
LEMMA ChargesPairOff ==
    ASSUME NEW C, NEW S, NEW m \in Bijection(S, C), IsFiniteSet(S), NEW f,
           \A x \in S : f[x] \in Int /\ m[x].line.amount = f[x]
    PROVE  /\ IsFiniteSet(C)
           /\ Cardinality(C) = Cardinality(S)
           /\ ChargedTotal(C) = Sum(f, S)
<1>. DEFINE g == [c \in C |-> c.line.amount]
<1>1. IsFiniteSet(C) /\ Cardinality(C) = Cardinality(S)
  BY FS_Bijection DEF ExistsBijection
<1>2. /\ m \in [S -> C]
      /\ \A x, y \in S : m[x] = m[y] => x = y
      /\ \A c \in C : \E x \in S : m[x] = c
  BY DEF Bijection, Injection, Surjection, IsInjective
<1>3. \A x \in S : f[x] \in Int /\ g[m[x]] = f[x]
  BY <1>2
<1>4. ChargedTotal(C) = Sum(g, C)
  BY <1>1, ChargedTotalIsSum
<1>. HIDE DEF g
<1>5. Sum(f, S) = Sum(g, C)
  BY <1>2, <1>3, SumReindexed
<1>. QED
  BY <1>1, <1>4, <1>5

WInv == TInv /\ IInv /\ IsFiniteSet(charges) /\ (\A n \in RunIds : RunIsWhole(n)) /\ LedgerFollows

\* Runs and charges kept, the runs stay whole.
LEMMA WholeKept ==
    ASSUME WInv, UNCHANGED <<charges, ledger, runs>>
    PROVE  IsFiniteSet(charges)' /\ (\A n \in RunIds : RunIsWhole(n)') /\ LedgerFollows'
  BY DEF WInv, RunIsWhole, LedgerFollows, ChargesOf

\* A run is written with all its charges; a void keeps what they add up to.
LEMMA RunCommitWhole ==
    ASSUME WInv, NEW w \in Workers, NEW n \in RunIds, RunCommit(w, n)
    PROVE  IsFiniteSet(charges)' /\ (\A r \in RunIds : RunIsWhole(r)') /\ LedgerFollows'
<1>1. PICK lines : lines = task[w].toCreate
  OBVIOUS
<1>. DEFINE ChargeFor(l) == [run |-> n, line |-> l, status |-> "RAISED"]
            raised == {ChargeFor(l) : l \in lines}
            m == [l \in lines |-> ChargeFor(l)]
            f == [l \in lines |-> l.amount]
<1>2. /\ task[w].op = "run"
      /\ runs' = [runs EXCEPT ![n] = Row(task[w].only, task[w].planned, lines)]
      /\ charges' = charges \cup raised
      /\ ledger' = ledger \cup {[run |-> n, line |-> l, type |-> "DEBIT"] : l \in lines}
      /\ runs[n] = Absent
  BY <1>1 DEF RunCommit
<1>3. lines \in SUBSET Line /\ IsFiniteSet(lines)
  BY <1>1, <1>2, RunTask DEF WInv
<1>4. m \in Bijection(lines, raised)
  BY DEF Bijection, Injection, Surjection, IsInjective
<1>5. \A l \in lines : f[l] \in Int /\ m[l].line.amount = f[l]
  BY <1>3, RunAssumption DEF Line
<1>6. LineTotal(lines) = Sum(f, lines)
  BY <1>3, LineTotalIsSum
<1>7. /\ runs'[n] # Absent
      /\ runs'[n].created = Cardinality(lines)
      /\ runs'[n].total = LineTotal(lines)
      /\ \A r \in RunIds \ {n} : runs'[r] = runs[r]
  BY <1>2 DEF WInv, TInv, TypeOK, Row, Absent, LineTotal
<1>8. ChargesOf(n)' = raised /\ \A r \in RunIds \ {n} : ChargesOf(r)' = ChargesOf(r)
  <2>1. \A c \in charges : c.run # n
    BY <1>2 DEF WInv, IInv, RunsOnRecord
  <2>2. \A c \in raised : c.run = n
    OBVIOUS
  <2>. HIDE DEF raised
  <2>. QED
    BY <1>2, <2>1, <2>2 DEF ChargesOf
<1>9. LedgerFollows'
  <2>1. {[run |-> n, line |-> l, type |-> "DEBIT"] : l \in lines}
          = {[run |-> c.run, line |-> c.line, type |-> "DEBIT"] : c \in raised}
    <3>1. \A l \in lines : ChargeFor(l).run = n /\ ChargeFor(l).line = l
      OBVIOUS
    <3>. QED
      BY <3>1
  <2>2. \A c \in raised : c.status # "VOID"
    OBVIOUS
  <2>. HIDE DEF raised
  <2>. QED
    BY <1>2, <2>1, <2>2 DEF WInv, LedgerFollows
<1>. HIDE DEF raised, m, f
<1>10. /\ IsFiniteSet(raised)
       /\ Cardinality(raised) = Cardinality(lines)
       /\ ChargedTotal(raised) = Sum(f, lines)
  BY <1>3, <1>4, <1>5, ChargesPairOff
<1>11. IsFiniteSet(charges')
  BY <1>2, <1>10, FS_Union DEF WInv
<1>12. RunIsWhole(n)'
  <2>1. /\ runs'[n].created = Cardinality(ChargesOf(n)')
        /\ runs'[n].total = ChargedTotal(ChargesOf(n)')
    BY <1>6, <1>7, <1>8, <1>10
  <2>. QED
    BY <1>7, <2>1 DEF RunIsWhole
<1>13. \A r \in RunIds \ {n} : RunIsWhole(r)'
  BY <1>7, <1>8 DEF WInv, RunIsWhole
<1>. QED
  BY <1>9, <1>11, <1>12, <1>13

LEMMA VoidChargeWhole ==
    ASSUME WInv, NEW c \in charges, VoidCharge(c)
    PROVE  IsFiniteSet(charges)' /\ (\A r \in RunIds : RunIsWhole(r)') /\ LedgerFollows'
<1>1. PICK voided : voided = [c EXCEPT !.status = "VOID"]
  OBVIOUS
<1>2. /\ c \in Charge /\ voided \in Charge /\ c.status = "RAISED"
      /\ voided.run = c.run /\ voided.line = c.line /\ voided.status = "VOID"
  BY <1>1 DEF WInv, TInv, TypeOK, Charge, VoidCharge
<1>3. /\ charges' = (charges \ {c}) \cup {voided}
      /\ ledger' = ledger \cup {[run |-> c.run, line |-> c.line, type |-> "CREDIT"]}
      /\ UNCHANGED runs
  BY <1>1 DEF VoidCharge
<1>4. voided \notin charges
  BY <1>2 DEF WInv, IInv, OneCategoryPerRun
<1>5. IsFiniteSet(charges')
  BY <1>3, FS_AddElement, FS_RemoveElement DEF WInv
<1>6. ASSUME NEW r \in RunIds
      PROVE  RunIsWhole(r)'
  <2>. DEFINE C == ChargesOf(r)
              D == ChargesOf(r)'
              m == [d \in C |-> IF d = c THEN voided ELSE d]
              f == [d \in C |-> d.line.amount]
  <2>1. C \subseteq charges /\ IsFiniteSet(C)
    BY FS_Subset DEF ChargesOf, WInv
  <2>2. m \in Bijection(C, D)
    <3>1. \A d \in C : m[d] \in D
      BY <1>2, <1>3 DEF ChargesOf
    <3>2. \A d, e \in C : m[d] = m[e] => d = e
      BY <1>4, <2>1
    <3>3. \A e \in D : \E d \in C : m[d] = e
      <4>1. SUFFICES ASSUME NEW e \in D
                     PROVE  \E d \in C : m[d] = e
        OBVIOUS
      <4>2. CASE e = voided
        <5>1. c \in C
          BY <1>2, <4>2 DEF ChargesOf
        <5>. QED
          BY <4>2, <5>1
      <4>3. CASE e # voided
        <5>1. e \in C /\ e # c
          BY <1>2, <1>3, <1>4, <4>3 DEF ChargesOf
        <5>. QED
          BY <5>1
      <4>. QED
        BY <4>2, <4>3
    <3>4. m = [d \in C |-> m[d]]
      OBVIOUS
    <3>. HIDE DEF m, C, D
    <3>. QED
      BY <3>1, <3>2, <3>3, <3>4 DEF Bijection, Injection, Surjection, IsInjective
  <2>3. \A d \in C : f[d] \in Int /\ m[d].line.amount = f[d]
    BY <1>2, <2>1, RunAssumption DEF WInv, TInv, TypeOK, Charge, Line
  <2>4. ChargedTotal(C) = Sum(f, C)
    BY <2>1, ChargedTotalIsSum
  <2>5. PICK A, B : A = C /\ B = D
    OBVIOUS
  <2>6. Cardinality(B) = Cardinality(A) /\ ChargedTotal(B) = ChargedTotal(A)
    <3>1. m \in Bijection(A, B) /\ IsFiniteSet(A)
          /\ (\A d \in A : f[d] \in Int /\ m[d].line.amount = f[d])
          /\ ChargedTotal(A) = Sum(f, A)
      BY <2>1, <2>2, <2>3, <2>4, <2>5
    <3>. HIDE DEF m, f
    <3>. QED
      BY <3>1, ChargesPairOff
  <2>7. C = {} => D = {}
    BY <2>2 DEF Bijection, Surjection
  <2>8. RunIsWhole(r)
    BY DEF WInv
  <2>. HIDE DEF C, D
  <2>9. IF runs'[r] = Absent
          THEN D = {}
          ELSE runs'[r].created = Cardinality(D) /\ runs'[r].total = ChargedTotal(D)
    BY <1>3, <2>5, <2>6, <2>7, <2>8 DEF RunIsWhole, C
  <2>. QED
    BY <2>9 DEF RunIsWhole, D
<1>7. LedgerFollows'
  BY <1>2, <1>3 DEF WInv, LedgerFollows
<1>. QED
  BY <1>5, <1>6, <1>7

LEMMA WholeInit == Init => WInv
<1>. SUFFICES ASSUME Init
              PROVE  WInv
  OBVIOUS
<1>1. /\ charges = {} /\ ledger = {} /\ \A n \in RunIds : runs[n] = Absent
  BY DEF Init
<1>2. (\A n \in RunIds : RunIsWhole(n)) /\ LedgerFollows
  BY <1>1 DEF RunIsWhole, ChargesOf, LedgerFollows
<1>. QED
  BY <1>1, <1>2, TypesInit, IInvInit, FS_EmptySet DEF WInv

LEMMA WholeStep == WInv /\ [Next]_vars => WInv'
<1>. SUFFICES ASSUME WInv, [Next]_vars
              PROVE  WInv'
  OBVIOUS
<1>1. TInv' /\ IInv'
  BY TypesStep, IInvStep DEF WInv
<1>2. CASE UNCHANGED <<charges, ledger, runs>>
  BY <1>1, <1>2, WholeKept DEF WInv
<1>3. ASSUME NEW w \in Workers, NEW n \in RunIds, RunCommit(w, n)
      PROVE  WInv'
  BY <1>1, <1>3, RunCommitWhole DEF WInv
<1>4. ASSUME NEW c \in charges, VoidCharge(c)
      PROVE  WInv'
  BY <1>1, <1>4, VoidChargeWhole DEF WInv
<1>5. UNCHANGED <<charges, ledger, runs>>
        \/ (\E w \in Workers, n \in RunIds : RunCommit(w, n)) \/ (\E c \in charges : VoidCharge(c))
  BY DEF Next, vars, Enrol, MoveToClass, EndEnrollment, ClosePeriod, CreateStructure, EditLoad,
         EditCommit, ActivateLoad, ActivateCommit, Archive, RunLoad, Refuse
<1>. QED
  BY <1>2, <1>3, <1>4, <1>5

LEMMA WholeHolds == Spec => []WInv
  BY WholeInit, WholeStep, PTL DEF Spec

\* A run is whole or not there, whatever was voided since: its row counts its charges and
\* adds them up, and the ledger has the DEBIT of each and the CREDIT of each that is void.
THEOREM WholeRuns == Spec => []RunsAreWhole
<1>1. WInv => RunsAreWhole
  <2>. SUFFICES ASSUME WInv
                PROVE  RunsAreWhole
    OBVIOUS
  <2>1. \A n \in RunIds : RunIsWhole(n)
    BY DEF WInv
  <2>2. LedgerFollows
    BY DEF WInv
  <2>. QED
    BY <2>1, <2>2, Zenon DEF RunsAreWhole, RunIsWhole, LedgerFollows, ChargedTotal
<1>. QED
  BY <1>1, WholeHolds, PTL

-----------------------------------------------------------------------------
(* ChargeRun implements StudentAccount.  A run that is applied posts its charges, *)
(* one that is voided is withdrawn; every other step leaves charges and ledger.   *)

Lines == {LineOf(e) : e \in ledger}

\* What is on the accounts is of a charge that was raised, under the run it was raised by.
LEMMA LinesOfCharges ==
    ASSUME WInv, NEW k \in Lines
    PROVE  \E c \in charges : k.item = ItemOf(c)
<1>1. PICK e \in ledger : k = LineOf(e)
  BY DEF Lines
<1>2. PICK c \in charges : e.run = c.run /\ e.line = c.line
  BY DEF WInv, LedgerFollows
<1>. QED
  BY <1>1, <1>2 DEF LineOf, ItemOf

LEMMA RunCommitPosts ==
    ASSUME WInv, NEW w \in Workers, NEW n \in RunIds, RunCommit(w, n)
    PROVE  Account!Post(Lines' \ Lines)
<1>1. PICK lines : lines = task[w].toCreate
  OBVIOUS
<1>2. /\ charges' = charges \cup {[run |-> n, line |-> l, status |-> "RAISED"] : l \in lines}
      /\ ledger' = ledger \cup {[run |-> n, line |-> l, type |-> "DEBIT"] : l \in lines}
      /\ runs[n] = Absent
      /\ \A l \in lines : l.amount > 0
  BY <1>1 DEF RunCommit, Insertable
<1>3. lines \subseteq Line
  BY <1>1, RunTask DEF RunCommit, WInv
<1>4. PICK item : item = [l \in lines |-> [run |-> n, line |-> l]]
  OBVIOUS
<1>5. PICK new : new = {LineOf([run |-> n, line |-> l, type |-> "DEBIT"]) : l \in lines}
  OBVIOUS
<1>6. ASSUME NEW k \in new
      PROVE  \E l \in lines :
                k = [item |-> item[l], account |-> l.student, type |-> "DEBIT",
                     amount |-> l.amount, undoes |-> FALSE]
  <2>1. PICK l \in lines : k = LineOf([run |-> n, line |-> l, type |-> "DEBIT"])
    BY <1>5
  <2>. QED
    BY <1>4, <2>1 DEF LineOf, ItemOf
<1>7. \A l \in lines : item[l] \in [run : RunIds, line : Line] /\ item[l].run = n
  BY <1>3, <1>4
<1>8. \A l, m \in lines : item[l] = item[m] => l = m
  BY <1>4
<1>9. ASSUME NEW k \in new
      PROVE  k \in Account!Line /\ ~k.undoes /\ k.item.run = n
  <2>1. PICK l \in lines :
            k = [item |-> item[l], account |-> l.student, type |-> "DEBIT",
                 amount |-> l.amount, undoes |-> FALSE]
    BY <1>6
  <2>2. l.student \in Students /\ l.amount \in Nat \ {0}
    <3>1. l \in Line /\ l.amount > 0
      BY <1>2, <1>3
    <3>2. l.student \in Students /\ l.amount \in Nat
      BY <3>1, RunAssumption DEF Line
    <3>. QED
      BY <3>1, <3>2
  <2>. QED
    BY <1>7, <2>1, <2>2 DEF Account!Line
<1>10. Lines' = Lines \cup new
  BY <1>2, <1>5 DEF Lines
<1>11. \A c \in charges : c.run # n
  BY <1>2 DEF WInv, IInv, RunsOnRecord
<1>12. ASSUME NEW k \in Lines
       PROVE  k.item.run # n
  <2>1. PICK c \in charges : k.item = ItemOf(c)
    BY LinesOfCharges
  <2>. QED
    BY <1>11, <2>1 DEF ItemOf
<1>13. Lines' \ Lines = new
  BY <1>9, <1>10, <1>12
<1>14. \A x \in InForce : x.run # n
  BY <1>11 DEF InForce, ItemOf
<1>15. ASSUME NEW k \in new
       PROVE  k.item \notin InForce /\ Account!LinesOf(k.item) = {}
  <2>1. k.item.run = n
    BY <1>9
  <2>2. Account!LinesOf(k.item) = {j \in Lines : j.item = k.item}
    BY DEF Account!LinesOf, Lines
  <2>. QED
    BY <1>12, <1>14, <2>1, <2>2
<1>16. ASSUME NEW k \in new, NEW j \in new, j.item = k.item
       PROVE  j = k
  <2>1. PICK l \in lines :
            k = [item |-> item[l], account |-> l.student, type |-> "DEBIT",
                 amount |-> l.amount, undoes |-> FALSE]
    BY <1>6
  <2>2. PICK m \in lines :
            j = [item |-> item[m], account |-> m.student, type |-> "DEBIT",
                 amount |-> m.amount, undoes |-> FALSE]
    BY <1>6
  <2>3. l = m
    BY <1>8, <1>16, <2>1, <2>2
  <2>. QED
    BY <2>1, <2>2, <2>3
<1>17. InForce' = InForce \cup {k.item : k \in new}
  <2>1. ASSUME NEW x
        PROVE  (\E k \in new : x = k.item) <=> \E l \in lines : x = item[l]
    <3>1. ASSUME NEW l \in lines
          PROVE  \E k \in new : k.item = item[l]
      <4>. DEFINE k == LineOf([run |-> n, line |-> l, type |-> "DEBIT"])
      <4>1. k \in new
        BY <1>5
      <4>2. k.item = item[l]
        BY <1>4 DEF LineOf, ItemOf
      <4>. QED
        BY <4>1, <4>2
    <3>. QED
      BY <1>6, <3>1
  <2>2. ASSUME NEW x
        PROVE  x \in InForce' <=> x \in InForce \/ \E l \in lines : x = item[l]
    <3>1. /\ x \in InForce <=> \E c \in charges : c.status = "RAISED" /\ x = ItemOf(c)
          /\ x \in InForce' <=> \E c \in charges' : c.status = "RAISED" /\ x = ItemOf(c)
      BY DEF InForce
    <3>2. \A l \in lines : ItemOf([run |-> n, line |-> l, status |-> "RAISED"]) = item[l]
      BY <1>4 DEF ItemOf
    <3>. QED
      BY <1>2, <3>1, <3>2
  <2>. QED
    BY <2>1, <2>2
<1>18. /\ new \subseteq Account!Line
       /\ \A k \in new : /\ ~k.undoes
                         /\ k.item \notin InForce
                         /\ Account!LinesOf(k.item) = {}
                         /\ \A j \in new : j.item = k.item => j = k
  BY <1>9, <1>15, <1>16
<1>. QED
  BY <1>10, <1>13, <1>17, <1>18 DEF Account!Post, Lines

LEMMA VoidChargeWithdraws ==
    ASSUME WInv, NEW c \in charges, VoidCharge(c)
    PROVE  \E i \in [run : RunIds, line : Line] : Account!Withdraw(i)
<1>1. PICK i : i = ItemOf(c)
  OBVIOUS
<1>2. PICK voided : voided = [c EXCEPT !.status = "VOID"]
  OBVIOUS
<1>3. /\ c \in Charge /\ c.status = "RAISED"
      /\ voided.run = c.run /\ voided.line = c.line /\ voided.status = "VOID"
      /\ charges' = (charges \ {c}) \cup {voided}
      /\ ledger' = ledger \cup {[run |-> c.run, line |-> c.line, type |-> "CREDIT"]}
  BY <1>2 DEF WInv, TInv, TypeOK, Charge, VoidCharge
<1>4. i = [run |-> c.run, line |-> c.line] /\ i \in [run : RunIds, line : Line]
  BY <1>1, <1>3 DEF ItemOf, Charge
<1>5. \A d \in charges : ItemOf(d) = i => d = c
  BY <1>4 DEF ItemOf, WInv, IInv, OneCategoryPerRun
<1>6. i \in InForce /\ InForce' = InForce \ {i}
  BY <1>1, <1>3, <1>5 DEF InForce
<1>. DEFINE e == [run |-> c.run, line |-> c.line, type |-> "DEBIT"]
            u == [run |-> c.run, line |-> c.line, type |-> "CREDIT"]
<1>7. e \in ledger
  BY DEF WInv, LedgerFollows
<1>8. /\ LineOf(e).item = i /\ ~LineOf(e).undoes
      /\ LineOf(u) = Account!Undoing(LineOf(e))
  BY <1>4 DEF LineOf, ItemOf, Account!Undoing
<1>9. Lines' = Lines \cup {LineOf(u)}
  BY <1>3 DEF Lines
<1>10. LineOf(e) \in Account!LinesOf(i)
  BY <1>7, <1>8 DEF Account!LinesOf
<1>11. Account!Withdraw(i)
  BY <1>6, <1>8, <1>9, <1>10 DEF Account!Withdraw, Lines
<1>. QED
  BY <1>4, <1>11

\* Whatever runs race, are refused or cut off, and whatever is voided behind them, the
\* accounts see charges posted, those of a run at once, and withdrawn, each once
\* (charge.service.ts:302-304, 340-437).
THEOREM RunsKeepAccounts == Spec => AccountsAreKept
<1>1. Init => Account!Init
  BY DEF Init, Account!Init, InForce
<1>2. ASSUME WInv, [Next]_vars
      PROVE  [Account!Next]_(Account!account)
  <2>1. CASE UNCHANGED <<charges, ledger>>
    BY <2>1 DEF Account!account, InForce
  <2>2. ASSUME NEW w \in Workers, NEW n \in RunIds, RunCommit(w, n)
        PROVE  Account!Next
    BY <1>2, <2>2, RunCommitPosts DEF Account!Next, Lines
  <2>3. ASSUME NEW c \in charges, VoidCharge(c)
        PROVE  Account!Next
    BY <1>2, <2>3, VoidChargeWithdraws DEF Account!Next
  <2>4. \/ UNCHANGED <<charges, ledger>>
        \/ \E w \in Workers, n \in RunIds : RunCommit(w, n)
        \/ \E c \in charges : VoidCharge(c)
    BY <1>2 DEF Next, vars, Enrol, MoveToClass, EndEnrollment, ClosePeriod, CreateStructure,
       EditLoad, EditCommit, ActivateLoad, ActivateCommit, Archive, RunLoad, Refuse
  <2>. QED
    BY <2>1, <2>2, <2>3, <2>4
<1>. QED
  BY <1>1, <1>2, WholeHolds, PTL DEF Spec, AccountsAreKept, Account!Spec

-----------------------------------------------------------------------------
(* Requests served one at a time. *)

OneAtATime == \A v, w \in Workers : v = w

\* The structure of a charge is there, and says what the charge says.
ChargedAsListed ==
    \A c \in charges :
        LET structure == structures[c.line.structure] IN
        /\ structure \in Structure
        /\ c.line.category \in DOMAIN structure.items
        /\ structure.items[c.line.category] = c.line.amount

\* What the request in hand has read is still so.
ReadsHold ==
    \A w \in Workers :
        /\ task[w].op \in {"add", "update", "remove"} => Editable(task[w].structure)
        /\ task[w].op = "run" =>
             /\ task[w].planned = Planned(task[w].only)
             /\ task[w].toCreate = {l \in task[w].planned : ~LiveCharge(l)}

LInv == TInv /\ ChargedAsListed /\ ReadsHold

\* Nothing in hand, nothing read.
LEMMA NothingInHand ==
    ASSUME \A w \in Workers : task'[w] = Idle
    PROVE  ReadsHold'
  BY DEF ReadsHold, Idle

\* Requests that do not overlap: while one runs, everybody else is idle.
LEMMA FreeIsIdle ==
    ASSUME OneAtATime, Free
    PROVE  \A w \in Workers : task[w] = Idle
  BY DEF OneAtATime, Free

LEMMA FinishIsIdle ==
    ASSUME OneAtATime, TInv, NEW w \in Workers, Finish(w)
    PROVE  ReadsHold'
<1>1. \A v \in Workers : task'[v] = Idle
  BY DEF OneAtATime, TInv, TypeOK, Finish
<1>. QED
  BY <1>1, NothingInHand

\* A structure rewritten without its items, or not charged from, leaves charges as listed.
LEMMA ListedKept ==
    ASSUME TInv, TInv', ChargedAsListed, NEW t \in Structures, NEW structure \in Structure,
           structures' = [structures EXCEPT ![t] = structure],
           charges' = charges,
           HasCharges(t) => structure.items = structures[t].items
    PROVE  ChargedAsListed'
<1>1. \A u \in Structures : structures'[u] = IF u = t THEN structure ELSE structures[u]
  BY DEF TInv, TypeOK
<1>2. \A c \in charges : c.line.structure \in Structures
  BY DEF TInv, TypeOK, Charge, Line
<1>3. ASSUME NEW c \in charges
      PROVE  LET u == structures'[c.line.structure] IN
             /\ u \in Structure
             /\ c.line.category \in DOMAIN u.items
             /\ u.items[c.line.category] = c.line.amount
  <2>1. CASE c.line.structure = t
    <3>1. structure.items = structures[t].items
      BY <2>1 DEF HasCharges
    <3>. QED
      BY <1>1, <1>2, <2>1, <3>1 DEF ChargedAsListed
  <2>2. CASE c.line.structure # t
    BY <1>1, <1>2, <2>2 DEF ChargedAsListed
  <2>. QED
    BY <2>1, <2>2
<1>. QED
  BY <1>3 DEF ChargedAsListed

LEMMA EnrolmentLocked ==
    ASSUME OneAtATime, LInv, TInv', Free, UNCHANGED <<structures, charges, task>>
    PROVE  LInv'
<1>1. ReadsHold'
  BY FreeIsIdle, NothingInHand
<1>. QED
  BY <1>1 DEF LInv, ChargedAsListed

LEMMA CreateStructureLocked ==
    ASSUME OneAtATime, LInv, TInv', NEW t \in Structures, CreateStructure(t)
    PROVE  LInv'
<1>1. ReadsHold'
  BY FreeIsIdle, NothingInHand DEF CreateStructure
<1>2. ~HasCharges(t)
  BY DEF HasCharges, LInv, ChargedAsListed, CreateStructure, Absent, Structure
<1>3. PICK structure : structures' = [structures EXCEPT ![t] = structure]
  BY DEF CreateStructure
<1>4. structure \in Structure \cup {Absent} /\ structure # Absent
  <2>1. structures'[t] \in Structure \cup {Absent} /\ structures'[t] = structure
    BY <1>3 DEF LInv, TInv, TypeOK
  <2>2. structures'[t].status = "DRAFT"
    BY DEF CreateStructure, LInv, TInv, TypeOK
  <2>. QED
    BY <2>1, <2>2 DEF Absent
<1>5. ChargedAsListed'
  BY <1>2, <1>3, <1>4, ListedKept DEF LInv, CreateStructure
<1>. QED
  BY <1>1, <1>5 DEF LInv

\* A new status leaves the items as they were.
LEMMA StatusKeepsItems ==
    ASSUME TypeOK, NEW t \in Structures, structures[t] \in Structure,
           NEW status \in {"ACTIVE", "ARCHIVED"},
           structures' = [structures EXCEPT ![t].status = status, ![t].version = @ + 1]
    PROVE  \E structure \in Structure :
             /\ structures' = [structures EXCEPT ![t] = structure]
             /\ structure.items = structures[t].items
<1>1. PICK structure : structure = [structures[t] EXCEPT !.status = status, !.version = @ + 1]
  OBVIOUS
<1>2. structures' = [structures EXCEPT ![t] = structure]
  BY <1>1 DEF TypeOK
<1>3. structure.items = structures[t].items /\ structure.status = status
  BY <1>1 DEF Structure
<1>4. structure \in Structure
  <2>1. structures'[t] = structure
    BY <1>2 DEF TypeOK
  <2>2. structures'[t] \in Structure \cup {Absent}
    BY StatusTyped
  <2>. QED
    BY <1>3, <2>1, <2>2 DEF Absent
<1>. QED
  BY <1>2, <1>3, <1>4

LEMMA ArchiveLocked ==
    ASSUME OneAtATime, LInv, TInv', NEW t \in Structures, Archive(t)
    PROVE  LInv'
<1>1. ReadsHold'
  BY FreeIsIdle, NothingInHand DEF Archive
<1>2. structures[t] \in Structure
  BY StructurePresent DEF Archive, LInv, TInv
<1>3. PICK structure \in Structure :
        /\ structures' = [structures EXCEPT ![t] = structure]
        /\ structure.items = structures[t].items
  BY <1>2, StatusKeepsItems DEF Archive, LInv, TInv
<1>4. ChargedAsListed'
  BY <1>3, ListedKept DEF LInv, Archive
<1>. QED
  BY <1>1, <1>4 DEF LInv

LEMMA EditLoadLocked ==
    ASSUME OneAtATime, LInv, TInv', NEW w \in Workers, NEW t \in Structures,
           NEW op \in {"add", "update", "remove"}, EditLoad(w, t, op)
    PROVE  LInv'
<1>1. PICK k \in Categories, a \in Amounts :
        Begin(w, [op |-> op, structure |-> t, category |-> k, amount |-> a])
  BY DEF EditLoad
<1>2. \A v \in Workers : task'[v].op # "run" /\ task'[v].structure = t
  BY <1>1 DEF OneAtATime, Begin, LInv, TInv, TypeOK
<1>3. Editable(t) /\ UNCHANGED <<structures, charges>>
  BY DEF EditLoad
<1>4. Editable(t)'
  BY <1>3 DEF Editable, HasCharges
<1>5. ReadsHold'
  <2>1. ASSUME NEW v \in Workers, NEW u, u = task'[v].structure
        PROVE  Editable(u)'
    BY <1>2, <1>4, <2>1
  <2>. QED
    BY <1>2, <1>4, <2>1 DEF ReadsHold, Editable, HasCharges
<1>. QED
  BY <1>3, <1>5 DEF LInv, ChargedAsListed

LEMMA EditCommitLocked ==
    ASSUME OneAtATime, LInv, TInv', NEW w \in Workers, EditCommit(w)
    PROVE  LInv'
<1>1. ReadsHold'
  BY FinishIsIdle DEF EditCommit, LInv
<1>2. PICK t \in Structures : t = task[w].structure /\ Editable(t)
  BY DEF EditCommit, LInv, TInv, TypeOK, Task, Idle, ReadsHold
<1>3. structures[t] \in Structure
  BY <1>2, StructurePresent DEF Editable, LInv, TInv
<1>4. PICK items : structures' = [structures EXCEPT ![t].items = items]
  BY <1>2 DEF EditCommit
<1>5. PICK structure : /\ structure = structures'[t]
                       /\ structures' = [structures EXCEPT ![t] = structure]
                       /\ structure.status = "DRAFT"
  <2>1. structures \in [Structures -> Structure \cup {Absent}]
    BY DEF LInv, TInv, TypeOK
  <2>2. PICK edited : edited = [structures[t] EXCEPT !.items = items]
    OBVIOUS
  <2>3. edited.status = "DRAFT"
    BY <1>2, <1>3, <2>2 DEF Structure, Editable
  <2>4. structures' = [structures EXCEPT ![t] = edited]
    BY <1>4, <2>2
  <2>5. structures'[t] = edited
    BY <1>2, <2>1, <2>4
  <2>. QED
    BY <2>3, <2>4, <2>5
<1>6. structure \in Structure
  BY <1>5 DEF TInv, TypeOK, Absent
<1>7. ChargedAsListed'
  BY <1>2, <1>5, <1>6, ListedKept DEF LInv, EditCommit, Editable
<1>. QED
  BY <1>1, <1>7 DEF LInv

LEMMA ActivateLoadLocked ==
    ASSUME OneAtATime, LInv, TInv', NEW w \in Workers, NEW t \in Structures, ActivateLoad(w, t)
    PROVE  LInv'
<1>1. \A v \in Workers : task'[v].op = "activate"
  BY DEF ActivateLoad, OneAtATime, Begin, LInv, TInv, TypeOK
<1>2. ReadsHold'
  BY <1>1 DEF ReadsHold
<1>. QED
  BY <1>2 DEF LInv, ChargedAsListed, ActivateLoad

LEMMA ActivateCommitLocked ==
    ASSUME OneAtATime, LInv, TInv', NEW w \in Workers, ActivateCommit(w)
    PROVE  LInv'
<1>1. ReadsHold'
  BY FinishIsIdle DEF ActivateCommit, LInv
<1>2. PICK t \in Structures : t = task[w].structure
  BY DEF ActivateCommit, LInv, TInv, TypeOK, Task, Idle
<1>3. structures[t] \in Structure
  BY <1>2 DEF ActivateCommit, LInv, TInv, InFlight
<1>4. PICK structure \in Structure :
        /\ structures' = [structures EXCEPT ![t] = structure]
        /\ structure.items = structures[t].items
  BY <1>2, <1>3, StatusKeepsItems DEF ActivateCommit, LInv, TInv
<1>5. ChargedAsListed'
  BY <1>4, ListedKept DEF LInv, ActivateCommit
<1>. QED
  BY <1>1, <1>5 DEF LInv

LEMMA RunLoadLocked ==
    ASSUME OneAtATime, LInv, TInv', NEW w \in Workers, NEW only \in Structures \cup {None},
           RunLoad(w, only)
    PROVE  LInv'
<1>1. PICK p, q : /\ p = Planned(only)
                  /\ q = {l \in p : ~LiveCharge(l)}
                  /\ task' = [task EXCEPT ![w] = [op |-> "run", only |-> only,
                                                  planned |-> p, toCreate |-> q]]
  BY DEF RunLoad, Begin
<1>2. UNCHANGED <<placements, structures, charges>>
  BY DEF RunLoad
<1>3. Planned(only)' = p /\ \A l : LiveCharge(l)' = LiveCharge(l)
  BY <1>1, <1>2 DEF Planned, LinesFor, Applies, LiveCharge
<1>4. \A v \in Workers : task'[v] = [op |-> "run", only |-> only, planned |-> p, toCreate |-> q]
  BY <1>1 DEF OneAtATime, LInv, TInv, TypeOK
<1>5. ASSUME NEW v \in Workers
      PROVE  /\ task'[v].op = "run"
             /\ task'[v].planned = Planned(task[v].only)'
             /\ task'[v].toCreate = {l \in task'[v].planned : ~LiveCharge(l)'}
  <2>1. PICK o : o = task'[v].only
    OBVIOUS
  <2>2. o = only /\ task'[v].planned = p /\ task'[v].toCreate = q /\ task'[v].op = "run"
    BY <1>4, <2>1
  <2>3. Planned(o)' = p
    BY <1>3, <2>2
  <2>4. Planned(task[v].only)' = Planned(o)'
    BY <2>1 DEF Planned, Applies
  <2>. QED
    BY <1>1, <1>3, <2>2, <2>3, <2>4
<1>6. ReadsHold'
  BY <1>5 DEF ReadsHold
<1>. QED
  BY <1>2, <1>6 DEF LInv, ChargedAsListed

LEMMA RunCommitLocked ==
    ASSUME OneAtATime, LInv, TInv', NEW w \in Workers, NEW n \in RunIds, RunCommit(w, n)
    PROVE  LInv'
<1>1. ReadsHold'
  BY FinishIsIdle DEF RunCommit, LInv
<1>2. PICK lines, only : lines = task[w].toCreate /\ only = task[w].only
  OBVIOUS
<1>3. /\ task[w].op = "run"
      /\ UNCHANGED structures
      /\ charges' = charges \cup {[run |-> n, line |-> l, status |-> "RAISED"] : l \in lines}
  BY <1>2 DEF RunCommit
<1>4. lines \subseteq Planned(only)
  BY <1>2, <1>3 DEF LInv, ReadsHold
<1>5. \A l \in lines :
        /\ structures[l.structure] \in Structure
        /\ l.category \in DOMAIN structures[l.structure].items
        /\ structures[l.structure].items[l.category] = l.amount
  BY <1>4, PlannedLines DEF LInv, TInv
<1>6. ChargedAsListed'
  BY <1>3, <1>5 DEF LInv, ChargedAsListed
<1>. QED
  BY <1>1, <1>6 DEF LInv

LEMMA VoidChargeLocked ==
    ASSUME OneAtATime, LInv, TInv', NEW c \in charges, VoidCharge(c)
    PROVE  LInv'
<1>1. ReadsHold'
  BY FreeIsIdle, NothingInHand DEF VoidCharge
<1>2. [c EXCEPT !.status = "VOID"].line = c.line
  BY DEF LInv, TInv, TypeOK, Charge
<1>3. ChargedAsListed'
  BY <1>2 DEF LInv, ChargedAsListed, VoidCharge
<1>. QED
  BY <1>1, <1>3 DEF LInv

LEMMA LockedInit == Init => LInv
<1>. SUFFICES ASSUME Init
              PROVE  LInv
  OBVIOUS
<1>1. ChargedAsListed /\ ReadsHold
  BY DEF Init, ChargedAsListed, ReadsHold, Idle
<1>. QED
  BY <1>1, TypesInit DEF LInv

LEMMA LockedStep ==
    ASSUME OneAtATime, LInv, [Next]_vars
    PROVE  LInv'
<1>1. TInv'
  BY TypesStep DEF LInv
<1>2. CASE UNCHANGED vars
  BY <1>1, <1>2 DEF vars, LInv, ChargedAsListed, ReadsHold, Editable, HasCharges, Planned,
                    LinesFor, Applies, LiveCharge
<1>3. ASSUME NEW s \in Students, Enrol(s) \/ MoveToClass(s) \/ EndEnrollment(s)
      PROVE  LInv'
  BY <1>1, <1>3, EnrolmentLocked DEF Enrol, MoveToClass, EndEnrollment
<1>4. CASE ClosePeriod
  BY <1>1, <1>4, EnrolmentLocked DEF ClosePeriod
<1>5. ASSUME NEW w \in Workers, Refuse(w)
      PROVE  LInv'
  <2>1. ReadsHold'
    BY <1>5, FinishIsIdle DEF Refuse, LInv
  <2>. QED
    BY <1>1, <1>5, <2>1 DEF LInv, ChargedAsListed, Refuse
<1>. QED
  BY <1>1, <1>2, <1>3, <1>4, <1>5, CreateStructureLocked, EditLoadLocked, EditCommitLocked,
     ActivateLoadLocked, ActivateCommitLocked, ArchiveLocked, RunLoadLocked, RunCommitLocked,
     VoidChargeLocked DEF Next

LEMMA LockedHolds ==
    ASSUME OneAtATime
    PROVE  Spec => []LInv
<1>1. Init => LInv
  BY LockedInit
<1>2. LInv /\ [Next]_vars => LInv'
  BY LockedStep
<1>. QED
  BY <1>1, <1>2, PTL DEF Spec

\* When requests are served one at a time, what was charged from a structure is what the
\* structure still lists, whatever was edited, published or archived since.
THEOREM ChargedStructuresLocked ==
    ASSUME OneAtATime
    PROVE  Spec => []LockedOnceCharged
<1>1. LInv => LockedOnceCharged
  BY DEF LInv, ChargedAsListed, LockedOnceCharged
<1>. QED
  BY <1>1, LockedHolds, PTL

BillsEveryone ==
    \A n \in RunIds :
        runs[n] = Absent /\ runs'[n] # Absent =>
            \A l \in Planned(runs'[n].only) :
                \E c \in charges' : c.status = "RAISED" /\ SameItem(c.line, l)

\* What a committed run leaves unbilled is nothing.
LEMMA RunCommitBills ==
    ASSUME LInv, NEW w \in Workers, NEW n \in RunIds, RunCommit(w, n)
    PROVE  BillsEveryone
<1>1. PICK lines, only : lines = task[w].toCreate /\ only = task[w].only
  OBVIOUS
<1>2. /\ task[w].op = "run"
      /\ charges' = charges \cup {[run |-> n, line |-> l, status |-> "RAISED"] : l \in lines}
      /\ runs' = [runs EXCEPT ![n] = Row(only, task[w].planned, lines)]
  BY <1>1 DEF RunCommit
<1>3. /\ runs'[n].only = only
      /\ \A m \in RunIds \ {n} : runs'[m] = runs[m]
  BY <1>2 DEF LInv, TInv, TypeOK, Row
<1>4. lines = {l \in Planned(only) : ~LiveCharge(l)}
  BY <1>1, <1>2 DEF LInv, ReadsHold
<1>5. ASSUME NEW l \in Planned(only)
      PROVE  \E c \in charges' : c.status = "RAISED" /\ SameItem(c.line, l)
  <2>1. CASE LiveCharge(l)
    BY <1>2, <2>1 DEF LiveCharge
  <2>2. CASE ~LiveCharge(l)
    <3>. DEFINE c == [run |-> n, line |-> l, status |-> "RAISED"]
    <3>1. c \in charges' /\ c.status = "RAISED" /\ c.line = l
      BY <1>2, <1>4, <2>2
    <3>2. SameItem(c.line, l)
      BY <3>1 DEF SameItem
    <3>. QED
      BY <3>1, <3>2
  <2>. QED
    BY <2>1, <2>2
<1>. QED
  BY <1>3, <1>5 DEF BillsEveryone

LEMMA BillsStep ==
    ASSUME LInv, [Next]_vars
    PROVE  BillsEveryone
<1>1. CASE UNCHANGED runs
  BY <1>1 DEF BillsEveryone
<1>2. UNCHANGED runs \/ \E w \in Workers, n \in RunIds : RunCommit(w, n)
  BY DEF Next, vars, Enrol, MoveToClass, EndEnrollment, ClosePeriod, CreateStructure, EditLoad,
         EditCommit, ActivateLoad, ActivateCommit, Archive, RunLoad, VoidCharge, Refuse
<1>. QED
  BY <1>1, <1>2, RunCommitBills

\* When requests are served one at a time, a run leaves nobody out: each item of each active
\* structure that applies to an enrolled student stands charged when the run is written.
THEOREM EverybodyBilled ==
    ASSUME OneAtATime
    PROVE  Spec => RunBillsEveryone
<1>1. LInv /\ [Next]_vars => [BillsEveryone]_vars
  BY BillsStep
<1>2. RunBillsEveryone <=> [][BillsEveryone]_vars
  BY PTL DEF RunBillsEveryone, BillsEveryone
<1>. QED
  BY <1>1, <1>2, LockedHolds, PTL DEF Spec

=============================================================================
