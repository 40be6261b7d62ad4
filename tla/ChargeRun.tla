----------------------------- MODULE ChargeRun -----------------------------
(***************************************************************************)
(* Fee structures and the runs that raise charges from them, for one       *)
(* period: fee-structure.service.ts and the charge runs of                 *)
(* charge.service.ts over fee_structures, fee_structure_items,             *)
(* charge_runs, student_charges and financial_entries.                     *)
(*                                                                         *)
(* A worker is a request being served.  What a handler reads before its    *)
(* write, and uses in it, is kept in task; handlers whose write repeats    *)
(* their checks are one step, and need a free worker.  The three queries   *)
(* of a run are read in one step: whatever changes between them may as     *)
(* well change after them, before the run writes.                          *)
(***************************************************************************)
EXTENDS Integers, FiniteSets, FiniteSetsExt, Functions

CONSTANTS
    Students,
    Places,         \* (programme, level, class, residency) an enrolment may have
    Structures,
    Categories,
    Amounts,        \* the amounts a client may type for an item
    RunIds,
    Workers,
    None

\* A table holds finitely many rows.
ASSUME RunAssumption ==
    /\ IsFiniteSet(Students) /\ IsFiniteSet(Structures) /\ IsFiniteSet(Categories)
    /\ Amounts \subseteq Nat
    /\ None \notin Places \cup Structures

VARIABLES
    period,         \* the academic year and term: "OPEN" or "CLOSED"
    placements,     \* Students -> the place of the live enrolment, or None
    structures,     \* Structures -> Structure, or Absent
    charges,        \* the set of charges raised by runs
    ledger,         \* the set of their entries
    runs,           \* RunIds -> the row of an applied run, or Absent
    task            \* Workers -> the request being served, or Idle

vars == <<period, placements, structures, charges, ledger, runs, task>>

-----------------------------------------------------------------------------
Absent == [status |-> "ABSENT"]

Idle == [op |-> "idle"]

\* The applicability of a structure is the set of places it matches.
Structure ==
    [status : {"DRAFT", "ACTIVE", "ARCHIVED"}, scope : SUBSET Places,
     items : UNION {[K -> Amounts] : K \in SUBSET Categories}, version : Nat]

\* What a run means to charge.  An item is known by its structure and category:
\* one that was ever charged cannot be deleted, so it is never made anew.
Line == [student : Students, structure : Structures, category : Categories, amount : Amounts]

Charge == [run : RunIds, line : Line, status : {"RAISED", "VOID"}]

Entry == [run : RunIds, line : Line, type : {"DEBIT", "CREDIT"}]

RunRow ==
    [status : {"APPLIED"}, only : Structures \cup {None}, matched : Nat, created : Nat,
     skipped : Nat, total : Nat]

Task ==
         {Idle}
    \cup [op : {"add", "update", "remove"}, structure : Structures,
          category : Categories, amount : Amounts]
    \cup [op : {"activate"}, structure : Structures, expectedVersion : Nat]
    \cup [op : {"run"}, only : Structures \cup {None}, planned : SUBSET Line,
          toCreate : SUBSET Line]

TypeOK ==
    /\ period \in {"OPEN", "CLOSED"}
    /\ placements \in [Students -> Places \cup {None}]
    /\ structures \in [Structures -> Structure \cup {Absent}]
    /\ charges \subseteq Charge
    /\ ledger \subseteq Entry
    /\ runs \in [RunIds -> RunRow \cup {Absent}]
    /\ task \in [Workers -> Task]

Init ==
    /\ period = "OPEN"
    /\ placements \in [Students -> Places \cup {None}]
    /\ structures = [t \in Structures |-> Absent]
    /\ charges = {}
    /\ ledger = {}
    /\ runs = [n \in RunIds |-> Absent]
    /\ task = [w \in Workers |-> Idle]

Free == \E w \in Workers : task[w] = Idle

Begin(w, request) ==
    /\ task[w] = Idle
    /\ task' = [task EXCEPT ![w] = request]

Finish(w) == task' = [task EXCEPT ![w] = Idle]

-----------------------------------------------------------------------------
(* Enrolments and the period, as the academic modules leave them. *)

\* enrolStudent: the unique index admits one live enrolment a year.
Enrol(s) ==
    /\ Free
    /\ placements[s] = None
    /\ \E x \in Places : placements' = [placements EXCEPT ![s] = x]
    /\ UNCHANGED <<period, structures, charges, ledger, runs, task>>

\* moveToClass
MoveToClass(s) ==
    /\ Free
    /\ placements[s] # None
    /\ \E x \in Places \ {placements[s]} : placements' = [placements EXCEPT ![s] = x]
    /\ UNCHANGED <<period, structures, charges, ledger, runs, task>>

EndEnrollment(s) ==
    /\ Free
    /\ placements[s] # None
    /\ placements' = [placements EXCEPT ![s] = None]
    /\ UNCHANGED <<period, structures, charges, ledger, runs, task>>

\* updateAcademicYear and updateTerm: a closed period stays closed.
ClosePeriod ==
    /\ Free
    /\ period = "OPEN"
    /\ period' = "CLOSED"
    /\ UNCHANGED <<placements, structures, charges, ledger, runs, task>>

-----------------------------------------------------------------------------
(* Fee structures: fee-structure.service.ts *)

HasCharges(t) == \E c \in charges : c.line.structure = t

\* Mutant of Editable: a published structure may still be edited.
EditableUntilArchived(t) == structures[t].status \in {"DRAFT", "ACTIVE"}

\* assertEditable
Editable(t) ==
    /\ structures[t].status = "DRAFT"
    /\ ~HasCharges(t)

\* createFeeStructure: with its items, at least one, in one transaction.
CreateStructure(t) ==
    /\ Free
    /\ structures[t] = Absent
    /\ period = "OPEN"
    /\ \E scope \in SUBSET Places \ {{}}, K \in SUBSET Categories \ {{}} :
         \E items \in [K -> Amounts] :
            structures' = [structures EXCEPT ![t] =
                [status |-> "DRAFT", scope |-> scope, items |-> items, version |-> 1]]
    /\ UNCHANGED <<period, placements, charges, ledger, runs, task>>

\* addFeeStructureItem, updateFeeStructureItem and removeFeeStructureItem up to
\* their write.
EditLoad(w, t, op) ==
    /\ Editable(t)
    /\ \E k \in Categories, a \in Amounts :
         /\ op = "add" <=> k \notin DOMAIN structures[t].items
         /\ Begin(w, [op |-> op, structure |-> t, category |-> k, amount |-> a])
    /\ UNCHANGED <<period, placements, structures, charges, ledger, runs>>

\* The write is by item id, outside any transaction, and does not look at the
\* structure again.  The database refuses a category twice, an item that is
\* gone, and to delete one that a charge names.
EditCommit(w) ==
    LET edit == task[w]
        t == edit.structure
        k == edit.category
        items == structures[t].items
        Write(new) == structures' = [structures EXCEPT ![t].items = new]
    IN
    /\ \/ /\ edit.op = "add"
          /\ k \notin DOMAIN items
          /\ Write([c \in DOMAIN items \cup {k} |-> IF c = k THEN edit.amount ELSE items[c]])
       \/ /\ edit.op = "update"
          /\ k \in DOMAIN items
          /\ Write([items EXCEPT ![k] = edit.amount])
       \/ /\ edit.op = "remove"
          /\ k \in DOMAIN items
          /\ \A c \in charges : ~(c.line.structure = t /\ c.line.category = k)
          /\ Write(Restrict(items, DOMAIN items \ {k}))
    /\ Finish(w)
    /\ UNCHANGED <<period, placements, charges, ledger, runs>>

\* changeFeeStructureStatus to ACTIVE.
ActivateLoad(w, t) ==
    /\ structures[t].status = "DRAFT"
    /\ structures[t].items # << >>
    /\ Begin(w, [op |-> "activate", structure |-> t,
                 expectedVersion |-> structures[t].version])
    /\ UNCHANGED <<period, placements, structures, charges, ledger, runs>>

ActivateCommit(w) ==
    LET t == task[w].structure IN
    /\ task[w].op = "activate"
    /\ structures[t].version = task[w].expectedVersion
    /\ structures' = [structures EXCEPT ![t].status = "ACTIVE", ![t].version = @ + 1]
    /\ Finish(w)
    /\ UNCHANGED <<period, placements, charges, ledger, runs>>

\* changeFeeStructureStatus to ARCHIVED: every change of status takes a new
\* version, so the versioned write repeats the check.
Archive(t) ==
    /\ Free
    /\ structures[t].status \in {"DRAFT", "ACTIVE"}
    /\ structures' = [structures EXCEPT ![t].status = "ARCHIVED", ![t].version = @ + 1]
    /\ UNCHANGED <<period, placements, charges, ledger, runs, task>>

-----------------------------------------------------------------------------
(* Charge runs: charge.service.ts *)

\* structureApplies, for a structure a run loads and a student who is enrolled
Applies(t, s, only) ==
    /\ structures[t].status = "ACTIVE"
    /\ only \in {None, t}
    /\ placements[s] # None
    /\ placements[s] \in structures[t].scope

LinesFor(s, t) ==
    {[student |-> s, structure |-> t, category |-> k, amount |-> structures[t].items[k]] :
        k \in DOMAIN structures[t].items}

\* planRun
Planned(only) ==
    UNION {UNION {LinesFor(s, t) : t \in {u \in Structures : Applies(u, s, only)}} :
              s \in Students}

SameItem(l, m) ==
    l.student = m.student /\ l.structure = m.structure /\ l.category = m.category

\* Mutant of Conflict: an overlap is noticed only between equal amounts.
ConflictOfEqualAmounts(lines) ==
    \E l, m \in lines :
        /\ l.student = m.student
        /\ l.category = m.category
        /\ l.amount = m.amount
        /\ l.structure # m.structure

\* The overlaps of planRun: two structures, one category, one student.
Conflict(lines) ==
    \E l, m \in lines :
        /\ l.student = m.student
        /\ l.category = m.category
        /\ l.structure # m.structure

\* Mutant of LiveCharge: a voided charge still blocks its successor.
EverCharged(line) == \E c \in charges : SameItem(c.line, line)

\* findExistingChargeKeys; and the partial unique indexes, which leave out VOID.
LiveCharge(line) == \E c \in charges : c.status = "RAISED" /\ SameItem(c.line, line)

AcceptsCharges == period # "CLOSED"

\* applyChargeRun up to its transaction.
RunLoad(w, only) ==
    LET planned == Planned(only) IN
    /\ AcceptsCharges
    /\ ~Conflict(planned)
    /\ Begin(w, [op |-> "run", only |-> only, planned |-> planned,
                 toCreate |-> {l \in planned : ~LiveCharge(l)}])
    /\ UNCHANGED <<period, placements, structures, charges, ledger, runs>>

\* Mutant of Insertable: the unique index is not there.
PositiveAmounts(lines) == \A l \in lines : l.amount > 0

\* What the database checks of the rows inserted: no live charge for the same
\* item, the item still there, a positive entry.
Insertable(lines) ==
    \A l \in lines :
        /\ ~LiveCharge(l)
        /\ l.category \in DOMAIN structures[l.structure].items
        /\ l.amount > 0

\* Mutant of Row: what was planned is reported as created.
RowOfPlan(only, planned, toCreate) ==
    [status |-> "APPLIED", only |-> only,
     matched |-> Cardinality({l.student : l \in planned}),
     created |-> Cardinality(planned), skipped |-> 0,
     total |-> MapThenSumSet(LAMBDA l : l.amount, planned)]

\* createChargeRun
Row(only, planned, toCreate) ==
    [status |-> "APPLIED", only |-> only,
     matched |-> Cardinality({l.student : l \in planned}),
     created |-> Cardinality(toCreate),
     skipped |-> Cardinality(planned) - Cardinality(toCreate),
     total |-> MapThenSumSet(LAMBDA l : l.amount, toCreate)]

\* The transaction of applyChargeRun: the run, its charges and their entries.
RunCommit(w, n) ==
    /\ task[w].op = "run"
    /\ runs[n] = Absent
    /\ Insertable(task[w].toCreate)
    /\ runs' = [runs EXCEPT ![n] = Row(task[w].only, task[w].planned, task[w].toCreate)]
    /\ charges' = charges \cup
         {[run |-> n, line |-> l, status |-> "RAISED"] : l \in task[w].toCreate}
    /\ ledger' = ledger \cup
         {[run |-> n, line |-> l, type |-> "DEBIT"] : l \in task[w].toCreate}
    /\ Finish(w)
    /\ UNCHANGED <<period, placements, structures>>

\* Mutant of VoidCharge: the status changes and the entry is not reversed.
VoidChargeAlone(c) ==
    /\ Free
    /\ c.status = "RAISED"
    /\ charges' = (charges \ {c}) \cup {[c EXCEPT !.status = "VOID"]}
    /\ UNCHANGED <<period, placements, structures, ledger, runs, task>>

\* voidCharge of a charge no relief stands against (FeeLedger has the rest).
VoidCharge(c) ==
    /\ Free
    /\ c.status = "RAISED"
    /\ charges' = (charges \ {c}) \cup {[c EXCEPT !.status = "VOID"]}
    /\ ledger' = ledger \cup {[run |-> c.run, line |-> c.line, type |-> "CREDIT"]}
    /\ UNCHANGED <<period, placements, structures, runs, task>>

\* An error answer before the write.
Refuse(w) ==
    /\ task[w] # Idle
    /\ Finish(w)
    /\ UNCHANGED <<period, placements, structures, charges, ledger, runs>>

Next ==
    \/ \E s \in Students : Enrol(s)
    \/ \E s \in Students : MoveToClass(s)
    \/ \E s \in Students : EndEnrollment(s)
    \/ ClosePeriod
    \/ \E t \in Structures : CreateStructure(t)
    \/ \E w \in Workers, t \in Structures, op \in {"add", "update", "remove"} :
          EditLoad(w, t, op)
    \/ \E w \in Workers : EditCommit(w)
    \/ \E w \in Workers, t \in Structures : ActivateLoad(w, t)
    \/ \E w \in Workers : ActivateCommit(w)
    \/ \E t \in Structures : Archive(t)
    \/ \E w \in Workers, only \in Structures \cup {None} : RunLoad(w, only)
    \/ \E w \in Workers, n \in RunIds : RunCommit(w, n)
    \/ \E c \in charges : VoidCharge(c)
    \/ \E w \in Workers : Refuse(w)

Spec == Init /\ [][Next]_vars

-----------------------------------------------------------------------------
ChargesOf(n) == {c \in charges : c.run = n}

\* However many runs race, and whatever is voided and raised again in between,
\* a student holds at most one live charge for an item (charge.service.ts:23-25,
\* DECISIONS.md:384).
NoDuplicateCharge ==
    \A c, d \in charges :
        c.status = "RAISED" /\ d.status = "RAISED" /\ SameItem(c.line, d.line) => c = d

\* A run is whole or not there: its row tells how many charges it raised and what
\* they come to, and each of them has its DEBIT, and a CREDIT exactly when it was
\* voided since (charge.service.ts:302-304).
RunsAreWhole ==
    /\ \A n \in RunIds :
         IF runs[n] = Absent
           THEN ChargesOf(n) = {}
           ELSE /\ runs[n].created = Cardinality(ChargesOf(n))
                /\ runs[n].total = MapThenSumSet(LAMBDA c : c.line.amount, ChargesOf(n))
    /\ ledger =
         {[run |-> c.run, line |-> c.line, type |-> "DEBIT"] : c \in charges}
           \cup {[run |-> c.run, line |-> c.line, type |-> "CREDIT"] :
                   c \in {d \in charges : d.status = "VOID"}}

\* No run charges a student twice for one category, whatever structures applied
\* when it was planned (charge.service.ts:16-18).
OneCategoryPerRun ==
    \A c, d \in charges :
        /\ c.run = d.run
        /\ c.line.student = d.line.student
        /\ c.line.category = d.line.category
        => c = d

-----------------------------------------------------------------------------
(* The accounts a family is shown: StudentAccount, of charges not void, each   *)
(* known by its run and its line.                                              *)

ItemOf(c) == [run |-> c.run, line |-> c.line]

InForce == {ItemOf(c) : c \in {d \in charges : d.status = "RAISED"}}

LineOf(e) ==
    [item |-> ItemOf(e), account |-> e.line.student, type |-> e.type,
     amount |-> e.line.amount, undoes |-> (e.type = "CREDIT")]

Account ==
    INSTANCE StudentAccount
        WITH Items <- [run : RunIds, line : Line], Accounts <- Students,
             standing <- InForce, lines <- {LineOf(e) : e \in ledger}

\* Runs that race, are refused or repeated, and charges that are voided behind them, do
\* nothing to accounts but post items, those of a run at once, and withdraw them
\* (charge.service.ts:302-304, ledger.service.ts:4-21).
AccountsAreKept == Account!Spec

-----------------------------------------------------------------------------
(* What holds when requests are served one at a time. *)

\* A structure that raised charges still says what they say
\* (fee-structure.service.ts:7-11).
LockedOnceCharged ==
    \A c \in charges :
        /\ c.line.category \in DOMAIN structures[c.line.structure].items
        /\ structures[c.line.structure].items[c.line.category] = c.line.amount

\* After a run everybody it was for is charged: each enrolled student, for every
\* item of every active structure that applies, once.
RunBillsEveryone ==
    [][\A n \in RunIds :
         runs[n] = Absent /\ runs'[n] # Absent =>
             \A l \in Planned(runs'[n].only) :
                 \E c \in charges' : c.status = "RAISED" /\ SameItem(c.line, l)]_vars

-----------------------------------------------------------------------------
(* Statements of the repository that the code does not meet. *)

\* No student stands charged for one category by two structures
\* (DECISIONS.md:357-369).
CategoryBilledOnce ==
    \A c, d \in charges :
        /\ c.status = "RAISED" /\ d.status = "RAISED"
        /\ c.line.student = d.line.student
        /\ c.line.category = d.line.category
        => c.line.structure = d.line.structure

\* A run that found no overlap can be applied: a fee line of zero is legitimate
\* (fee.schema.ts:56).
PlannedRunApplies ==
    \A w \in Workers : task[w].op = "run" => Insertable(task[w].toCreate)

=============================================================================
