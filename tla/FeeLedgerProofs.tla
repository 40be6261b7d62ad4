-------------------------- MODULE FeeLedgerProofs --------------------------
(***************************************************************************)
(* What FeeLedger promises for any number of students, staff, requests in   *)
(* flight, charges and relief records.  First the ledger and the records,   *)
(* without any sum: an amount asked for is known only to be positive.  Then *)
(* the balances: what a student owes is explained by the records in force,  *)
(* and no charge is relieved of more than it is worth by requests that do   *)
(* not overlap.                                                             *)
(***************************************************************************)
EXTENDS FeeLedger, SumTheorems

\* An entry added for x joins the entries of x and of nothing else.
LEMMA EntriesAfterPost ==
    ASSUME NEW e, NEW x, e.ref = x, ledger' = ledger \cup {e}
    PROVE  /\ EntriesOf(x)' = EntriesOf(x) \cup {e}
           /\ \A y : y # x => EntriesOf(y)' = EntriesOf(y)
  BY DEF EntriesOf

FiniteLedger == IsFiniteSet(ledger)

\* A fresh entry id is one.
LEMMA NewEntryIdType ==
    ASSUME FiniteLedger, NEW x \in Sources
    PROVE  NewEntryId(x) \in EntryId
<1>1. IsFiniteSet(EntriesOf(x))
  BY FS_Subset DEF FiniteLedger, EntriesOf
<1>2. Cardinality(EntriesOf(x)) \in Nat
  BY <1>1, FS_CardinalityType
<1>. QED
  BY <1>2 DEF NewEntryId, EntryId

\* Posting and reversing keep the ledger a finite set of entries.
LEMMA PostEntryType ==
    ASSUME ledger \in SUBSET Entry, FiniteLedger,
           NEW x \in Sources, NEW source \in {"CHARGE"} \cup Kinds, NEW type \in Directions,
           NEW charge \in ChargeIds \cup {None}, NEW about,
           about.amount \in Nat, about.student \in Students, about.period \in Periods,
           PostEntry(x, source, type, charge, about)
    PROVE  (ledger \in SUBSET Entry)' /\ FiniteLedger'
<1>1. NewEntryId(x) \in EntryId
  BY NewEntryIdType
<1>2. about.amount \in Positive
  BY DEF PostEntry, Positive
<1>. DEFINE e == [id |-> NewEntryId(x), ref |-> x, source |-> source, type |-> type,
                  amount |-> about.amount, student |-> about.student,
                  period |-> about.period, charge |-> charge, reversalOf |-> None]
<1>3. e \in Entry
  BY <1>1, <1>2 DEF Entry
<1>4. ledger' = ledger \cup {e}
  BY DEF PostEntry
<1>. QED
  BY <1>3, <1>4, FS_AddElement DEF FiniteLedger

LEMMA ReverseEntryForType ==
    ASSUME ledger \in SUBSET Entry, FiniteLedger, NEW x \in Sources, ReverseEntryFor(x)
    PROVE  (ledger \in SUBSET Entry)' /\ FiniteLedger'
<1>1. CASE UNCHANGED ledger
  BY <1>1 DEF FiniteLedger
<1>2. ASSUME NEW e \in LiveOpenings(x), ledger' = ledger \cup {ReversalOf(e)}
      PROVE  (ledger \in SUBSET Entry)' /\ FiniteLedger'
  <2>1. e \in Entry /\ e.ref \in Sources
    BY DEF LiveOpenings, EntriesOf, Entry
  <2>2. NewEntryId(e.ref) \in EntryId
    BY <2>1, NewEntryIdType
  <2>3. ReversalOf(e) \in Entry
    BY <2>1, <2>2 DEF ReversalOf, Entry, Opposite, Directions
  <2>. QED
    BY <1>2, <2>3, FS_AddElement DEF FiniteLedger
<1>. QED
  BY <1>1, <1>2 DEF ReverseEntryFor

-----------------------------------------------------------------------------
\* Records with a live status are records, not Absent.
LEMMA Present ==
    ASSUME TypeOK
    PROVE  /\ \A c \in ChargeIds : charges[c].status # "ABSENT" => charges[c] \in Charge
           /\ \A c \in ChargeIds : charges[c].status = "ABSENT" <=> charges[c] = Absent
           /\ \A r \in ReliefIds : reliefs[r].status # "ABSENT" => reliefs[r] \in Relief
           /\ \A r \in ReliefIds : reliefs[r].status = "ABSENT" <=> reliefs[r] = Absent
  BY DEF TypeOK, Charge, Relief, Absent

Typed == TypeOK /\ FiniteLedger

LEMMA TypedInit == Init => Typed
  BY FS_EmptySet DEF Init, Typed, TypeOK, FiniteLedger, Task

LEMMA RaiseChargeTyped ==
    ASSUME Typed, NEW c \in ChargeIds, RaiseCharge(c)
    PROVE  Typed'
<1>1. PICK s \in Students, p \in Periods, a \in Amounts :
        LET charge == [status |-> "RAISED", student |-> s, period |-> p,
                       amount |-> a, version |-> 0]
        IN  /\ charges' = [charges EXCEPT ![c] = charge]
            /\ PostEntry(c, "CHARGE", "DEBIT", c, charge)
  BY DEF RaiseCharge
<1>. DEFINE charge == [status |-> "RAISED", student |-> s, period |-> p,
                       amount |-> a, version |-> 0]
<1>2. PostEntry(c, "CHARGE", "DEBIT", c, charge)
  BY <1>1
<1>3. charge.amount \in Nat /\ charge.student \in Students /\ charge.period \in Periods
  BY LedgerAssumption
<1>4. charge \in Charge
  BY <1>2, <1>3 DEF PostEntry, Charge, Positive
<1>5. (charges \in [ChargeIds -> Charge \cup {Absent}])'
  BY <1>1, <1>4 DEF Typed, TypeOK
<1>6. (ledger \in SUBSET Entry)' /\ FiniteLedger'
  <2>. HIDE DEF charge
  <2>. QED
    BY <1>2, <1>3, PostEntryType DEF Typed, TypeOK, Sources, Directions
<1>. QED
  BY <1>5, <1>6 DEF Typed, TypeOK, RaiseCharge

LEMMA VoidLoadTyped ==
    ASSUME Typed, NEW w \in Workers, NEW c \in ChargeIds, VoidLoad(w, c)
    PROVE  Typed'
<1>1. charges[c] \in Charge
  BY Present DEF Typed, VoidLoad
<1>. QED
  BY <1>1 DEF Typed, TypeOK, VoidLoad, Task, Charge, FiniteLedger

LEMMA VoidCommitTyped ==
    ASSUME Typed, NEW w \in Workers, VoidCommit(w)
    PROVE  Typed'
<1>. DEFINE c == task[w].charge
<1>1. c \in ChargeIds
  BY DEF Typed, TypeOK, VoidCommit, Task, Idle
<1>2. charges[c] \in Charge
  BY <1>1, Present DEF Typed, VoidCommit, Matches
<1>3. (charges \in [ChargeIds -> Charge \cup {Absent}])'
  BY <1>1, <1>2 DEF Typed, TypeOK, VoidCommit, Charge
<1>4. (ledger \in SUBSET Entry)' /\ FiniteLedger'
  BY <1>1, ReverseEntryForType DEF Typed, TypeOK, VoidCommit, Sources
<1>. QED
  BY <1>3, <1>4 DEF Typed, TypeOK, VoidCommit, Task

LEMMA RequestReliefTyped ==
    ASSUME Typed, NEW u \in Users, NEW r \in ReliefIds, RequestRelief(u, r)
    PROVE  Typed'
<1>1. PICK s \in Students, p \in Periods, c \in ChargeIds \cup {None},
           k \in Kinds, d \in Directions :
        /\ k # "ADJUSTMENT" => d = "CREDIT"
        /\ c # None => /\ charges[c].status = "RAISED"
                       /\ charges[c].student = s
                       /\ charges[c].period = p
        /\ \E a \in RequestableAmounts(c) :
             /\ a \in Positive
             /\ FitsCharge(d, a, c)
             /\ reliefs' = [reliefs EXCEPT ![r] =
                  [status |-> "PENDING_APPROVAL", kind |-> k, direction |-> d,
                   student |-> s, period |-> p, charge |-> c, amount |-> a,
                   requestedBy |-> u, decidedBy |-> None, version |-> 0]]
  BY Zenon DEF RequestRelief
<1>. QED
  BY <1>1 DEF Typed, TypeOK, RequestRelief, Relief, FiniteLedger

LEMMA DecideLoadTyped ==
    ASSUME Typed, NEW w \in Workers, NEW u \in Users, NEW r \in ReliefIds,
           NEW approve \in BOOLEAN, DecideLoad(w, u, r, approve)
    PROVE  Typed'
<1>1. reliefs[r] \in Relief
  BY Present DEF Typed, DecideLoad
<1>2. reliefs[r].version \in Nat
  BY <1>1 DEF Relief
<1>. QED
  BY <1>2 DEF Typed, TypeOK, DecideLoad, Task, FiniteLedger

LEMMA DecideFitsTyped ==
    ASSUME Typed, NEW w \in Workers, DecideFits(w)
    PROVE  Typed'
  BY DEF Typed, TypeOK, DecideFits, Task, Idle, FiniteLedger

\* What a decision in flight names.
LEMMA DecideTask ==
    ASSUME Typed, NEW w \in Workers, task[w].op = "decide"
    PROVE  /\ task[w].relief \in ReliefIds
           /\ task[w].by \in Users
           /\ task[w].approve \in BOOLEAN
  BY DEF Typed, TypeOK, Task, Idle

LEMMA DecideCommitTyped ==
    ASSUME Typed, NEW w \in Workers, DecideCommit(w)
    PROVE  Typed'
<1>. DEFINE r == task[w].relief
<1>1. r \in ReliefIds /\ task[w].by \in Users
  BY DecideTask DEF DecideCommit
<1>2. reliefs[r] \in Relief
  BY <1>1, Present DEF Typed, DecideCommit, Matches
<1>3. (reliefs \in [ReliefIds -> Relief \cup {Absent}])'
  <2>0. PICK s \in {"APPROVED", "REJECTED"} :
            s = IF task[w].approve THEN "APPROVED" ELSE "REJECTED"
    OBVIOUS
  <2>a. PICK before \in Relief, by \in Users : before = reliefs[r] /\ by = task[w].by
    BY <1>1, <1>2
  <2>1. PICK decided : decided =
           [before EXCEPT !.status = s, !.decidedBy = by, !.version = @ + 1]
    OBVIOUS
  <2>2. decided \in Relief
    <3>1. PICK version \in Nat : version = before.version + 1
      BY DEF Relief
    <3>2. decided = [before EXCEPT !.status = s, !.decidedBy = by, !.version = version]
      BY <2>1, <3>1
    <3>. QED
      BY <3>2 DEF Relief
  <2>3. reliefs \in [ReliefIds -> Relief \cup {Absent}]
    BY DEF Typed, TypeOK
  <2>4. reliefs' = [reliefs EXCEPT ![r] = decided]
    BY <1>1, <2>0, <2>a, <2>1, <2>3 DEF DecideCommit
  <2>. QED
    BY <1>1, <2>2, <2>3, <2>4
<1>4. (ledger \in SUBSET Entry)' /\ FiniteLedger'
  <2>1. CASE task[w].approve
    <3>1. /\ reliefs[r].kind \in {"CHARGE"} \cup Kinds
          /\ reliefs[r].direction \in Directions
          /\ reliefs[r].charge \in ChargeIds \cup {None}
          /\ reliefs[r].amount \in Nat
          /\ reliefs[r].student \in Students
          /\ reliefs[r].period \in Periods
      BY <1>2 DEF Relief, Positive
    <3>2. PostEntry(r, reliefs[r].kind, reliefs[r].direction, reliefs[r].charge, reliefs[r])
      BY <2>1 DEF DecideCommit
    <3>. QED
      BY <1>1, <3>1, <3>2, PostEntryType DEF Typed, TypeOK, Sources
  <2>2. CASE ~task[w].approve
    BY <2>2 DEF DecideCommit, Typed, TypeOK, FiniteLedger
  <2>. QED
    BY <2>1, <2>2
<1>. QED
  BY <1>3, <1>4 DEF Typed, TypeOK, DecideCommit, Task

LEMMA CancelReliefTyped ==
    ASSUME Typed, NEW u \in Users, NEW r \in ReliefIds, CancelRelief(u, r)
    PROVE  Typed'
<1>1. reliefs[r] \in Relief
  BY Present DEF Typed, CancelRelief
<1>. QED
  BY <1>1 DEF Typed, TypeOK, CancelRelief, Relief, FiniteLedger

LEMMA ReverseReliefTyped ==
    ASSUME Typed, NEW r \in ReliefIds, ReverseRelief(r)
    PROVE  Typed'
<1>1. reliefs[r] \in Relief
  BY Present DEF Typed, ReverseRelief
<1>2. (ledger \in SUBSET Entry)' /\ FiniteLedger'
  BY ReverseEntryForType DEF Typed, TypeOK, ReverseRelief, Sources
<1>. QED
  BY <1>1, <1>2 DEF Typed, TypeOK, ReverseRelief, Relief

LEMMA TypedStep == Typed /\ [Next]_vars => Typed'
<1>. SUFFICES ASSUME Typed, [Next]_vars
              PROVE  Typed'
  OBVIOUS
<1>1. CASE UNCHANGED vars
  BY <1>1 DEF Typed, TypeOK, FiniteLedger, vars
<1>2. ASSUME NEW w \in Workers, Refuse(w)
      PROVE  Typed'
  BY <1>2 DEF Refuse, Typed, TypeOK, Task, FiniteLedger
<1>. QED
  BY <1>1, <1>2, RaiseChargeTyped, VoidLoadTyped, VoidCommitTyped, RequestReliefTyped,
     DecideLoadTyped, DecideFitsTyped, DecideCommitTyped, CancelReliefTyped,
     ReverseReliefTyped DEF Next

\* Every reachable state is well typed: in particular every entry has a positive
\* amount, a direction, a known record behind it and an id of its own record.
THEOREM TypeCorrect == Spec => []TypeOK
<1>1. Typed => TypeOK
  BY DEF Typed
<1>. QED
  BY <1>1, TypedInit, TypedStep, PTL DEF Spec

-----------------------------------------------------------------------------
(* The inductive invariant.  LedgerMatchesRecords is inductive over typed      *)
(* states; MoneyTakesTwo needs to know, besides, that no decision in flight is *)
(* the requester's own.                                                        *)

DecidedByAnother ==
    \A r \in ReliefIds :
        reliefs[r].status \in Decided =>
            reliefs[r].decidedBy \notin {None, reliefs[r].requestedBy}

DecisionsInFlight ==
    \A w \in Workers :
        task[w].op = "decide" =>
            LET relief == reliefs[task[w].relief]
            IN  relief.status # "ABSENT" /\ relief.requestedBy # task[w].by

IInv ==
    /\ Typed
    /\ LedgerMatchesRecords
    /\ DecidedByAnother
    /\ DecisionsInFlight

\* A record with no entry that posts one stands, and every other record keeps
\* its entries.
LEMMA PostBooks ==
    ASSUME NEW x, NEW source, NEW type, NEW charge, NEW about,
           EntriesOf(x) = {}, PostEntry(x, source, type, charge, about)
    PROVE  /\ \E e \in ledger' : /\ IsOpening(e, x, source, type, charge, about)
                                 /\ EntriesOf(x)' = {e}
           /\ \A y : y # x => EntriesOf(y)' = EntriesOf(y)
           /\ ledger \subseteq ledger'
<1>. DEFINE e == [id |-> NewEntryId(x), ref |-> x, source |-> source, type |-> type,
                  amount |-> about.amount, student |-> about.student,
                  period |-> about.period, charge |-> charge, reversalOf |-> None]
<1>1. ledger' = ledger \cup {e}
  BY DEF PostEntry
<1>2. NewEntryId(x) = <<x, 1>>
  BY FS_EmptySet DEF NewEntryId
<1>3. IsOpening(e, x, source, type, charge, about)
  BY <1>2 DEF IsOpening
<1>4. e.ref = x
  OBVIOUS
<1>5. EntriesOf(x)' = {e} /\ \A y : y # x => EntriesOf(y)' = EntriesOf(y)
  <2>. HIDE DEF e
  <2>. QED
    BY <1>1, <1>4, EntriesAfterPost
<1>. QED
  BY <1>1, <1>3, <1>5

\* A reversal undoes the first entry of the record it is about.
LEMMA ReversalStaysHome ==
    ASSUME NEW x, NEW source, NEW type, NEW charge, NEW record, NEW f \in EntriesOf(x),
           \/ Standing(x, source, type, charge, record)
           \/ Withdrawn(x, source, type, charge, record)
    PROVE  f.reversalOf \in {None, <<f.ref, 1>>}
<1>1. f.ref = x
  BY DEF EntriesOf
<1>2. CASE Standing(x, source, type, charge, record)
  BY <1>2 DEF Standing, IsOpening
<1>3. CASE Withdrawn(x, source, type, charge, record)
  <2>1. PICK e \in ledger, g \in ledger :
          /\ IsOpening(e, x, source, type, charge, record)
          /\ IsReversal(g, e)
          /\ EntriesOf(x) = {e, g}
    BY <1>3 DEF Withdrawn
  <2>2. e.id = <<x, 1>> /\ e.reversalOf = None /\ g.reversalOf = e.id
    BY <2>1 DEF IsOpening, IsReversal
  <2>3. f = e \/ f = g
    BY <2>1
  <2>. QED
    BY <1>1, <2>2, <2>3
<1>. QED
  BY <1>2, <1>3

LEMMA ReversalsStayHome ==
    ASSUME Typed, LedgerMatchesRecords
    PROVE  \A f \in ledger : f.reversalOf \in {None, <<f.ref, 1>>}
<1>. SUFFICES ASSUME NEW f \in ledger
              PROVE  f.reversalOf \in {None, <<f.ref, 1>>}
  OBVIOUS
<1>1. f \in EntriesOf(f.ref) /\ f.ref \in Sources
  BY DEF EntriesOf, Typed, TypeOK, Entry
<1>2. CASE f.ref \in ChargeIds
  <2>1. ChargeBooked(f.ref) /\ charges[f.ref] \in Charge \cup {Absent}
    BY <1>2 DEF LedgerMatchesRecords, Typed, TypeOK
  <2>2. charges[f.ref].status \in {"ABSENT", "RAISED", "VOID"}
    BY <2>1 DEF Charge, Absent
  <2>. QED
    BY <1>1, <2>1, <2>2, ReversalStaysHome DEF ChargeBooked
<1>3. CASE f.ref \in ReliefIds
  <2>1. ReliefBooked(f.ref)
    BY <1>3 DEF LedgerMatchesRecords
  <2>. QED
    BY <1>1, <2>1, ReversalStaysHome DEF ReliefBooked
<1>. QED
  BY <1>1, <1>2, <1>3 DEF Sources

\* Reversing the one entry of a standing record withdraws it.
LEMMA ReverseBooks ==
    ASSUME Typed, LedgerMatchesRecords, NEW x \in Sources,
           NEW source, NEW type, NEW charge, NEW record,
           Standing(x, source, type, charge, record), ReverseEntryFor(x)
    PROVE  /\ \E e, f \in ledger' : /\ IsOpening(e, x, source, type, charge, record)
                                    /\ IsReversal(f, e)
                                    /\ EntriesOf(x)' = {e, f}
           /\ \A y : y # x => EntriesOf(y)' = EntriesOf(y)
           /\ ledger \subseteq ledger'
<1>1. PICK e \in ledger : /\ IsOpening(e, x, source, type, charge, record)
                          /\ EntriesOf(x) = {e}
  BY DEF Standing
<1>2. e.ref = x /\ e.id = <<x, 1>> /\ e.reversalOf = None
  BY <1>1 DEF EntriesOf, IsOpening
<1>. \A y \in Sources : <<y, 1>> # None
  <2>1. \A y \in Sources : <<y, 1>> \in (ChargeIds \cup ReliefIds) \X Nat
    BY DEF Sources
  <2>. QED
    BY <2>1, LedgerAssumption
<1>3. \A f \in ledger : f.reversalOf # e.id
  <2>. SUFFICES ASSUME NEW f \in ledger, f.reversalOf = e.id
                PROVE  FALSE
    OBVIOUS
  <2>1. f.ref \in Sources
    BY DEF Typed, TypeOK, Entry
  <2>2. f.reversalOf = <<f.ref, 1>>
    BY <1>2, <2>1, ReversalsStayHome
  <2>3. f.ref = x
    BY <1>2, <2>2
  <2>4. f = e
    BY <1>1, <2>3 DEF EntriesOf
  <2>. QED
    BY <1>2, <2>2, <2>4
<1>4. LiveOpenings(x) = {e}
  BY <1>1, <1>2, <1>3 DEF LiveOpenings
<1>. DEFINE f == ReversalOf(e)
<1>5. ledger' = ledger \cup {f}
  BY <1>4 DEF ReverseEntryFor
<1>6. NewEntryId(x) = <<x, 2>>
  <2>1. Cardinality(EntriesOf(x)) = 1
    BY <1>1, FS_Singleton
  <2>. QED
    BY <2>1 DEF NewEntryId
<1>7. f.ref = x /\ IsReversal(f, e)
  BY <1>2, <1>6 DEF ReversalOf, IsReversal
<1>8. EntriesOf(x)' = {e, f} /\ \A y : y # x => EntriesOf(y)' = EntriesOf(y)
  <2>. HIDE DEF f
  <2>. QED
    BY <1>1, <1>5, <1>7, EntriesAfterPost
<1>. QED
  BY <1>1, <1>5, <1>7, <1>8

\* A record whose row and entries are untouched is booked as it was.
LEMMA ChargeFrame ==
    ASSUME NEW c, ChargeBooked(c), charges'[c] = charges[c],
           EntriesOf(c)' = EntriesOf(c), ledger \subseteq ledger'
    PROVE  ChargeBooked(c)'
  BY DEF ChargeBooked, Standing, Withdrawn

LEMMA ReliefFrame ==
    ASSUME NEW r, ReliefBooked(r), reliefs'[r] = reliefs[r],
           EntriesOf(r)' = EntriesOf(r), ledger \subseteq ledger'
    PROVE  ReliefBooked(r)'
  BY DEF ReliefBooked, Standing, Withdrawn

-----------------------------------------------------------------------------
(* The books after each action.  A step posts about one record at most, and    *)
(* charge and relief ids are disjoint, so every other record is framed.        *)

LEMMA RaiseChargeBooked ==
    ASSUME IInv, NEW c \in ChargeIds, RaiseCharge(c)
    PROVE  LedgerMatchesRecords'
<1>1. PICK s \in Students, p \in Periods, a \in Amounts :
        LET charge == [status |-> "RAISED", student |-> s, period |-> p,
                       amount |-> a, version |-> 0]
        IN  /\ charges' = [charges EXCEPT ![c] = charge]
            /\ PostEntry(c, "CHARGE", "DEBIT", c, charge)
  BY DEF RaiseCharge
<1>. DEFINE charge == [status |-> "RAISED", student |-> s, period |-> p,
                       amount |-> a, version |-> 0]
<1>2. charges'[c] = charge /\ \A d \in ChargeIds \ {c} : charges'[d] = charges[d]
  BY <1>1 DEF IInv, Typed, TypeOK
<1>3. EntriesOf(c) = {}
  BY DEF RaiseCharge, IInv, LedgerMatchesRecords, ChargeBooked, Absent
<1>4. /\ \E e \in ledger' : /\ IsOpening(e, c, "CHARGE", "DEBIT", c, charge)
                            /\ EntriesOf(c)' = {e}
      /\ \A y : y # c => EntriesOf(y)' = EntriesOf(y)
      /\ ledger \subseteq ledger'
  <2>1. PostEntry(c, "CHARGE", "DEBIT", c, charge)
    BY <1>1
  <2>. HIDE DEF charge
  <2>. QED
    BY <1>3, <2>1, PostBooks
<1>5. ChargeBooked(c)'
  <2>1. charge.status = "RAISED"
    OBVIOUS
  <2>. HIDE DEF charge
  <2>. QED
    BY <1>2, <1>4, <2>1 DEF ChargeBooked, Standing
<1>6. \A d \in ChargeIds \ {c} : ChargeBooked(d)'
  BY <1>2, <1>4, ChargeFrame DEF IInv, LedgerMatchesRecords
<1>7. \A r \in ReliefIds : ReliefBooked(r)'
  <2>. HIDE DEF charge
  <2>. SUFFICES ASSUME NEW r \in ReliefIds
                PROVE  ReliefBooked(r)'
    OBVIOUS
  <2>1. EntriesOf(r)' = EntriesOf(r)
    BY <1>4, LedgerAssumption
  <2>2. reliefs'[r] = reliefs[r]
    BY DEF RaiseCharge
  <2>3. ReliefBooked(r)
    BY DEF IInv, LedgerMatchesRecords
  <2>. QED
    BY <1>4, <2>1, <2>2, <2>3, ReliefFrame
<1>. QED
  BY <1>5, <1>6, <1>7 DEF LedgerMatchesRecords

LEMMA VoidCommitBooked ==
    ASSUME IInv, NEW w \in Workers, VoidCommit(w)
    PROVE  LedgerMatchesRecords'
<1>1. PICK c \in ChargeIds : c = task[w].charge
  BY DEF IInv, Typed, TypeOK, VoidCommit, Task, Idle
<1>2. c \in Sources /\ charges[c] \in Charge /\ charges[c].status = "RAISED"
  BY <1>1, Present DEF IInv, Typed, VoidCommit, Matches, Sources
<1>3. Standing(c, "CHARGE", "DEBIT", c, charges[c])
  BY <1>1, <1>2 DEF IInv, LedgerMatchesRecords, ChargeBooked
<1>4. /\ \E e, f \in ledger' : /\ IsOpening(e, c, "CHARGE", "DEBIT", c, charges[c])
                               /\ IsReversal(f, e)
                               /\ EntriesOf(c)' = {e, f}
      /\ \A y : y # c => EntriesOf(y)' = EntriesOf(y)
      /\ ledger \subseteq ledger'
  BY <1>1, <1>2, <1>3, ReverseBooks DEF VoidCommit, IInv
<1>5. /\ charges'[c].status = "VOID"
      /\ charges'[c].amount = charges[c].amount
      /\ charges'[c].student = charges[c].student
      /\ charges'[c].period = charges[c].period
      /\ \A d \in ChargeIds \ {c} : charges'[d] = charges[d]
  BY <1>1, <1>2 DEF VoidCommit, IInv, Typed, TypeOK, Charge
<1>6. ChargeBooked(c)'
  BY <1>4, <1>5 DEF ChargeBooked, Withdrawn, IsOpening
<1>7. \A d \in ChargeIds \ {c} : ChargeBooked(d)'
  BY <1>4, <1>5, ChargeFrame DEF IInv, LedgerMatchesRecords
<1>8. \A r \in ReliefIds : ReliefBooked(r)'
  <2>. SUFFICES ASSUME NEW r \in ReliefIds
                PROVE  ReliefBooked(r)'
    OBVIOUS
  <2>1. r # c
    BY <1>1, LedgerAssumption
  <2>2. EntriesOf(r)' = EntriesOf(r)
    BY <1>4, <2>1
  <2>3. reliefs'[r] = reliefs[r]
    BY DEF VoidCommit
  <2>4. ReliefBooked(r)
    BY DEF IInv, LedgerMatchesRecords
  <2>. QED
    BY <1>4, <2>2, <2>3, <2>4, ReliefFrame
<1>. QED
  BY <1>6, <1>7, <1>8 DEF LedgerMatchesRecords

\* A step that changes one relief record, from and to statuses with no entry.
LEMMA UnpostedReliefBooked ==
    ASSUME IInv, NEW r \in ReliefIds, UNCHANGED <<charges, ledger>>,
           \A q \in ReliefIds \ {r} : reliefs'[q] = reliefs[q],
           reliefs[r].status \notin {"APPROVED", "REVERSED"},
           reliefs'[r].status \notin {"APPROVED", "REVERSED"}
    PROVE  LedgerMatchesRecords'
<1>1. \A x : EntriesOf(x)' = EntriesOf(x)
  BY DEF EntriesOf
<1>2. ReliefBooked(r)'
  BY <1>1 DEF IInv, LedgerMatchesRecords, ReliefBooked
<1>3. \A q \in ReliefIds \ {r} : ReliefBooked(q)'
  BY <1>1, ReliefFrame DEF IInv, LedgerMatchesRecords
<1>4. \A c \in ChargeIds : ChargeBooked(c)'
  BY <1>1, ChargeFrame DEF IInv, LedgerMatchesRecords
<1>. QED
  BY <1>2, <1>3, <1>4 DEF LedgerMatchesRecords

\* A request writes one record, pending approval, in a slot that had none.
LEMMA RequestedRecord ==
    ASSUME NEW u, NEW r, RequestRelief(u, r)
    PROVE  \E record : /\ record.status = "PENDING_APPROVAL"
                       /\ reliefs' = [reliefs EXCEPT ![r] = record]
<1>1. PICK s \in Students, p \in Periods, c \in ChargeIds \cup {None},
           k \in Kinds, d \in Directions :
         /\ k # "ADJUSTMENT" => d = "CREDIT"
         /\ c # None => /\ charges[c].status = "RAISED"
                        /\ charges[c].student = s
                        /\ charges[c].period = p
         /\ \E a \in RequestableAmounts(c) :
              /\ a \in Positive
              /\ FitsCharge(d, a, c)
              /\ reliefs' = [reliefs EXCEPT ![r] =
                   [status |-> "PENDING_APPROVAL", kind |-> k, direction |-> d,
                    student |-> s, period |-> p, charge |-> c, amount |-> a,
                    requestedBy |-> u, decidedBy |-> None, version |-> 0]]
  BY DEF RequestRelief
<1>a. PICK a \in RequestableAmounts(c) : reliefs' = [reliefs EXCEPT ![r] =
         [status |-> "PENDING_APPROVAL", kind |-> k, direction |-> d,
          student |-> s, period |-> p, charge |-> c, amount |-> a,
          requestedBy |-> u, decidedBy |-> None, version |-> 0]]
  BY <1>1, Zenon
<1>2. PICK record : record =
         [status |-> "PENDING_APPROVAL", kind |-> k, direction |-> d,
          student |-> s, period |-> p, charge |-> c, amount |-> a,
          requestedBy |-> u, decidedBy |-> None, version |-> 0]
  OBVIOUS
<1>3. record.status = "PENDING_APPROVAL"
  BY <1>2
<1>4. reliefs' = [reliefs EXCEPT ![r] = record]
  BY <1>a, <1>2, Zenon
<1>. QED
  BY <1>3, <1>4, Zenon

LEMMA RequestReliefBooked ==
    ASSUME IInv, NEW u \in Users, NEW r \in ReliefIds, RequestRelief(u, r)
    PROVE  LedgerMatchesRecords'
<1>1. \E record : /\ record.status = "PENDING_APPROVAL"
                  /\ reliefs' = [reliefs EXCEPT ![r] = record]
  BY RequestedRecord
<1>2. /\ reliefs'[r].status = "PENDING_APPROVAL"
      /\ \A q \in ReliefIds \ {r} : reliefs'[q] = reliefs[q]
  BY <1>1 DEF IInv, Typed, TypeOK
<1>3. reliefs[r].status = "ABSENT" /\ UNCHANGED <<charges, ledger>>
  BY DEF RequestRelief, Absent
<1>. QED
  BY <1>2, <1>3, UnpostedReliefBooked

LEMMA CancelReliefBooked ==
    ASSUME IInv, NEW u \in Users, NEW r \in ReliefIds, CancelRelief(u, r)
    PROVE  LedgerMatchesRecords'
<1>1. reliefs[r] \in Relief
  BY Present DEF IInv, Typed, CancelRelief
<1>2. /\ reliefs'[r].status = "CANCELLED"
      /\ \A q \in ReliefIds \ {r} : reliefs'[q] = reliefs[q]
  BY <1>1 DEF CancelRelief, IInv, Typed, TypeOK, Relief
<1>. QED
  BY <1>2, UnpostedReliefBooked DEF CancelRelief

LEMMA DecideCommitBooked ==
    ASSUME IInv, NEW w \in Workers, DecideCommit(w)
    PROVE  LedgerMatchesRecords'
<1>1. PICK r \in ReliefIds : r = task[w].relief
  BY DecideTask DEF DecideCommit, IInv
<1>2. reliefs[r] \in Relief /\ reliefs[r].status = "PENDING_APPROVAL"
  BY <1>1, Present DEF DecideCommit, Matches, IInv, Typed
<1>3. \A q \in ReliefIds \ {r} : reliefs'[q] = reliefs[q]
  BY <1>1 DEF DecideCommit, IInv, Typed, TypeOK
<1>4. CASE ~task[w].approve
  <2>1. reliefs'[r].status = "REJECTED"
    BY <1>1, <1>2, <1>4 DEF DecideCommit, IInv, Typed, TypeOK, Relief
  <2>2. UNCHANGED <<charges, ledger>>
    BY <1>4 DEF DecideCommit
  <2>. QED
    BY <1>2, <1>3, <2>1, <2>2, UnpostedReliefBooked
<1>5. CASE task[w].approve
  <2>1. EntriesOf(r) = {}
    BY <1>2 DEF IInv, LedgerMatchesRecords, ReliefBooked
  <2>2. PostEntry(r, reliefs[r].kind, reliefs[r].direction, reliefs[r].charge, reliefs[r])
    BY <1>1, <1>5 DEF DecideCommit
  <2>3. /\ \E e \in ledger' :
             /\ IsOpening(e, r, reliefs[r].kind, reliefs[r].direction,
                          reliefs[r].charge, reliefs[r])
             /\ EntriesOf(r)' = {e}
        /\ \A y : y # r => EntriesOf(y)' = EntriesOf(y)
        /\ ledger \subseteq ledger'
    BY <2>1, <2>2, PostBooks
  <2>4. /\ reliefs'[r].status = "APPROVED"
        /\ reliefs'[r].kind = reliefs[r].kind
        /\ reliefs'[r].direction = reliefs[r].direction
        /\ reliefs'[r].charge = reliefs[r].charge
        /\ reliefs'[r].amount = reliefs[r].amount
        /\ reliefs'[r].student = reliefs[r].student
        /\ reliefs'[r].period = reliefs[r].period
    BY <1>1, <1>2, <1>5 DEF DecideCommit, IInv, Typed, TypeOK, Relief
  <2>5. ReliefBooked(r)'
    BY <2>3, <2>4 DEF ReliefBooked, Standing, IsOpening
  <2>6. \A q \in ReliefIds \ {r} : ReliefBooked(q)'
    BY <1>3, <2>3, ReliefFrame DEF IInv, LedgerMatchesRecords
  <2>7. \A c \in ChargeIds : ChargeBooked(c)'
    <3>1. \A c \in ChargeIds : c # r /\ charges'[c] = charges[c]
      <4>1. UNCHANGED charges
        BY DEF DecideCommit
      <4>. QED
        BY <4>1, LedgerAssumption
    <3>. QED
      BY <2>3, <3>1, ChargeFrame DEF IInv, LedgerMatchesRecords
  <2>. QED
    BY <2>5, <2>6, <2>7 DEF LedgerMatchesRecords
<1>. QED
  BY <1>4, <1>5

LEMMA ReverseReliefBooked ==
    ASSUME IInv, NEW r \in ReliefIds, ReverseRelief(r)
    PROVE  LedgerMatchesRecords'
<1>1. reliefs[r] \in Relief /\ r \in Sources
  BY Present DEF IInv, Typed, ReverseRelief, Sources
<1>2. Standing(r, reliefs[r].kind, reliefs[r].direction, reliefs[r].charge, reliefs[r])
  BY DEF ReverseRelief, IInv, LedgerMatchesRecords, ReliefBooked
<1>3. /\ \E e, f \in ledger' :
           /\ IsOpening(e, r, reliefs[r].kind, reliefs[r].direction,
                        reliefs[r].charge, reliefs[r])
           /\ IsReversal(f, e)
           /\ EntriesOf(r)' = {e, f}
      /\ \A y : y # r => EntriesOf(y)' = EntriesOf(y)
      /\ ledger \subseteq ledger'
  BY <1>1, <1>2, ReverseBooks DEF ReverseRelief, IInv
<1>4. /\ reliefs'[r].status = "REVERSED"
      /\ reliefs'[r].kind = reliefs[r].kind
      /\ reliefs'[r].direction = reliefs[r].direction
      /\ reliefs'[r].charge = reliefs[r].charge
      /\ reliefs'[r].amount = reliefs[r].amount
      /\ reliefs'[r].student = reliefs[r].student
      /\ reliefs'[r].period = reliefs[r].period
      /\ \A q \in ReliefIds \ {r} : reliefs'[q] = reliefs[q]
  BY <1>1 DEF ReverseRelief, IInv, Typed, TypeOK, Relief
<1>5. ReliefBooked(r)'
  BY <1>3, <1>4 DEF ReliefBooked, Withdrawn, IsOpening
<1>6. \A q \in ReliefIds \ {r} : ReliefBooked(q)'
  BY <1>3, <1>4, ReliefFrame DEF IInv, LedgerMatchesRecords
<1>7. \A c \in ChargeIds : ChargeBooked(c)'
  <2>. SUFFICES ASSUME NEW c \in ChargeIds
                PROVE  ChargeBooked(c)'
    OBVIOUS
  <2>1. EntriesOf(c)' = EntriesOf(c)
    BY <1>3, LedgerAssumption
  <2>2. charges'[c] = charges[c]
    BY DEF ReverseRelief
  <2>3. ChargeBooked(c)
    BY DEF IInv, LedgerMatchesRecords
  <2>. QED
    BY <1>3, <2>1, <2>2, <2>3, ChargeFrame
<1>. QED
  BY <1>5, <1>6, <1>7 DEF LedgerMatchesRecords

LEMMA BooksUntouched ==
    ASSUME IInv, UNCHANGED <<charges, reliefs, ledger>>
    PROVE  LedgerMatchesRecords'
  BY DEF IInv, LedgerMatchesRecords, ChargeBooked, ReliefBooked, Standing, Withdrawn, EntriesOf

LEMMA BooksInit == Init => LedgerMatchesRecords
  BY DEF Init, LedgerMatchesRecords, ChargeBooked, ReliefBooked, EntriesOf, Absent

LEMMA BooksStep == IInv /\ [Next]_vars => LedgerMatchesRecords'
<1>. SUFFICES ASSUME IInv, [Next]_vars
              PROVE  LedgerMatchesRecords'
  OBVIOUS
<1>1. CASE UNCHANGED vars
  BY <1>1, BooksUntouched DEF vars
<1>2. ASSUME NEW w \in Workers, NEW c \in ChargeIds, VoidLoad(w, c)
      PROVE  LedgerMatchesRecords'
  BY <1>2, BooksUntouched DEF VoidLoad
<1>3. ASSUME NEW w \in Workers, NEW u \in Users, NEW r \in ReliefIds,
             NEW approve \in BOOLEAN, DecideLoad(w, u, r, approve)
      PROVE  LedgerMatchesRecords'
  BY <1>3, BooksUntouched DEF DecideLoad
<1>4. ASSUME NEW w \in Workers, DecideFits(w) \/ Refuse(w)
      PROVE  LedgerMatchesRecords'
  BY <1>4, BooksUntouched DEF DecideFits, Refuse
<1>. QED
  BY <1>1, <1>2, <1>3, <1>4, RaiseChargeBooked, VoidCommitBooked, RequestReliefBooked,
     DecideCommitBooked, CancelReliefBooked, ReverseReliefBooked DEF Next

-----------------------------------------------------------------------------
(* Two people: who asks is never who decides. *)

LEMMA PeopleInit == Init => DecidedByAnother /\ DecisionsInFlight
  BY DEF Init, DecidedByAnother, DecisionsInFlight, Absent, Idle, Decided

\* A step that leaves every relief record alone, but for the tasks, changes
\* nothing about who decided.
LEMMA ReliefsKept ==
    ASSUME DecidedByAnother, UNCHANGED reliefs
    PROVE  DecidedByAnother'
  BY DEF DecidedByAnother

\* A relief record that exists stays, and keeps who asked for it.
RequestersKept ==
    \A r \in ReliefIds :
        reliefs[r].status # "ABSENT" =>
            reliefs'[r].status # "ABSENT" /\ reliefs'[r].requestedBy = reliefs[r].requestedBy

\* Decisions in flight stay somebody else's while no new one is taken up.
LEMMA InFlightKept ==
    ASSUME IInv, RequestersKept,
           \A w \in Workers :
               task'[w].op = "decide" =>
                   /\ task[w].op = "decide"
                   /\ task'[w].relief = task[w].relief
                   /\ task'[w].by = task[w].by
    PROVE  DecisionsInFlight'
<1>. SUFFICES ASSUME NEW w \in Workers, task'[w].op = "decide"
              PROVE  /\ reliefs'[task'[w].relief].status # "ABSENT"
                     /\ reliefs'[task'[w].relief].requestedBy # task'[w].by
  BY DEF DecisionsInFlight
<1>1. /\ reliefs[task[w].relief].status # "ABSENT"
      /\ reliefs[task[w].relief].requestedBy # task[w].by
      /\ task[w].relief \in ReliefIds
  BY DecideTask DEF IInv, DecisionsInFlight
<1>. QED
  BY <1>1 DEF RequestersKept

\* Serving a request to its end, or dropping it, takes up no decision.
LEMMA TaskDone ==
    ASSUME Typed, NEW w \in Workers, task' = [task EXCEPT ![w] = Idle]
    PROVE  \A v \in Workers :
               task'[v].op = "decide" =>
                   /\ task[v].op = "decide"
                   /\ task'[v].relief = task[v].relief
                   /\ task'[v].by = task[v].by
  BY DEF Typed, TypeOK, Idle

People == DecidedByAnother /\ DecisionsInFlight

LEMMA RaiseChargePeople ==
    ASSUME IInv, NEW c \in ChargeIds, RaiseCharge(c)
    PROVE  People'
  BY ReliefsKept DEF RaiseCharge, IInv, People, DecisionsInFlight

LEMMA VoidLoadPeople ==
    ASSUME IInv, NEW w \in Workers, NEW c \in ChargeIds, VoidLoad(w, c)
    PROVE  People'
<1>1. RequestersKept /\ DecidedByAnother'
  BY ReliefsKept DEF VoidLoad, IInv, RequestersKept
<1>2. \A v \in Workers :
        task'[v].op = "decide" => /\ task[v].op = "decide"
                                  /\ task'[v].relief = task[v].relief
                                  /\ task'[v].by = task[v].by
  BY DEF VoidLoad, IInv, Typed, TypeOK
<1>. QED
  BY <1>1, <1>2, InFlightKept DEF People

LEMMA VoidCommitPeople ==
    ASSUME IInv, NEW w \in Workers, VoidCommit(w)
    PROVE  People'
<1>1. RequestersKept /\ DecidedByAnother'
  BY ReliefsKept DEF VoidCommit, IInv, RequestersKept
<1>. QED
  BY <1>1, TaskDone, InFlightKept DEF VoidCommit, IInv, People

LEMMA RequestReliefPeople ==
    ASSUME IInv, NEW u \in Users, NEW r \in ReliefIds, RequestRelief(u, r)
    PROVE  People'
<1>1. \E record : /\ record.status = "PENDING_APPROVAL"
                  /\ reliefs' = [reliefs EXCEPT ![r] = record]
  BY RequestedRecord
<1>2. /\ reliefs'[r].status = "PENDING_APPROVAL"
      /\ \A q \in ReliefIds \ {r} : reliefs'[q] = reliefs[q]
  BY <1>1 DEF IInv, Typed, TypeOK
<1>3. reliefs[r].status = "ABSENT" /\ UNCHANGED task
  BY DEF RequestRelief, Absent
<1>4. RequestersKept
  BY <1>2, <1>3 DEF RequestersKept
<1>5. DecidedByAnother'
  BY <1>2 DEF IInv, DecidedByAnother, Decided
<1>. QED
  BY <1>3, <1>4, <1>5, InFlightKept DEF People

LEMMA DecideLoadPeople ==
    ASSUME IInv, NEW w \in Workers, NEW u \in Users, NEW r \in ReliefIds,
           NEW approve \in BOOLEAN, DecideLoad(w, u, r, approve)
    PROVE  People'
<1>1. DecidedByAnother' /\ UNCHANGED reliefs
  BY ReliefsKept DEF DecideLoad, IInv
<1>2. /\ task'[w].relief = r
      /\ task'[w].by = u
      /\ \A v \in Workers \ {w} : task'[v] = task[v]
  BY DEF DecideLoad, IInv, Typed, TypeOK
<1>3. reliefs[r].status = "PENDING_APPROVAL" /\ reliefs[r].requestedBy # u
  BY DEF DecideLoad, MayDecide
<1>. QED
  BY <1>1, <1>2, <1>3 DEF IInv, People, DecisionsInFlight

LEMMA DecideFitsPeople ==
    ASSUME IInv, NEW w \in Workers, DecideFits(w)
    PROVE  People'
<1>1. RequestersKept /\ DecidedByAnother'
  BY ReliefsKept DEF DecideFits, IInv, RequestersKept
<1>2. /\ task[w].op = "decide"
      /\ task' = [task EXCEPT ![w].step = "commit"]
  BY DEF DecideFits
<1>3. task'[w].relief = task[w].relief /\ task'[w].by = task[w].by
  BY <1>2 DEF IInv, Typed, TypeOK, Task, Idle
<1>4. \A v \in Workers \ {w} : task'[v] = task[v]
  BY <1>2 DEF IInv, Typed, TypeOK
<1>. QED
  BY <1>1, <1>2, <1>3, <1>4, InFlightKept DEF People

LEMMA DecideCommitPeople ==
    ASSUME IInv, NEW w \in Workers, DecideCommit(w)
    PROVE  People'
<1>1. PICK r \in ReliefIds : r = task[w].relief
  BY DecideTask DEF DecideCommit, IInv
<1>2. /\ reliefs[r] \in Relief
      /\ reliefs[r].status = "PENDING_APPROVAL"
      /\ task[w].by \in Users
  BY <1>1, Present, DecideTask DEF DecideCommit, Matches, IInv, Typed
<1>3. reliefs[r].requestedBy # task[w].by
  BY <1>1 DEF DecideCommit, IInv, DecisionsInFlight
<1>4. /\ reliefs'[r].status \in {"APPROVED", "REJECTED"}
      /\ reliefs'[r].decidedBy = task[w].by
      /\ reliefs'[r].requestedBy = reliefs[r].requestedBy
      /\ \A q \in ReliefIds \ {r} : reliefs'[q] = reliefs[q]
  BY <1>1, <1>2 DEF DecideCommit, IInv, Typed, TypeOK, Relief
<1>5. RequestersKept
  BY <1>4 DEF RequestersKept
<1>6. DecidedByAnother'
  <2>1. task[w].by # None
    BY <1>2, LedgerAssumption
  <2>. QED
    BY <1>3, <1>4, <2>1 DEF IInv, DecidedByAnother
<1>. QED
  BY <1>5, <1>6, TaskDone, InFlightKept DEF DecideCommit, IInv, People

LEMMA CancelReliefPeople ==
    ASSUME IInv, NEW u \in Users, NEW r \in ReliefIds, CancelRelief(u, r)
    PROVE  People'
<1>1. reliefs[r] \in Relief
  BY Present DEF IInv, Typed, CancelRelief
<1>2. /\ reliefs'[r].status = "CANCELLED"
      /\ reliefs'[r].requestedBy = reliefs[r].requestedBy
      /\ \A q \in ReliefIds \ {r} : reliefs'[q] = reliefs[q]
  BY <1>1 DEF CancelRelief, IInv, Typed, TypeOK, Relief
<1>3. RequestersKept
  BY <1>2 DEF RequestersKept
<1>4. DecidedByAnother'
  BY <1>2 DEF IInv, DecidedByAnother, Decided
<1>. QED
  BY <1>3, <1>4, InFlightKept DEF CancelRelief, People

LEMMA ReverseReliefPeople ==
    ASSUME IInv, NEW r \in ReliefIds, ReverseRelief(r)
    PROVE  People'
<1>1. reliefs[r] \in Relief /\ reliefs[r].status \in Decided
  BY Present DEF IInv, Typed, ReverseRelief, Decided
<1>2. /\ reliefs'[r].status = "REVERSED"
      /\ reliefs'[r].requestedBy = reliefs[r].requestedBy
      /\ reliefs'[r].decidedBy = reliefs[r].decidedBy
      /\ \A q \in ReliefIds \ {r} : reliefs'[q] = reliefs[q]
  BY <1>1 DEF ReverseRelief, IInv, Typed, TypeOK, Relief
<1>3. RequestersKept
  BY <1>2 DEF RequestersKept
<1>4. DecidedByAnother'
  BY <1>1, <1>2 DEF IInv, DecidedByAnother
<1>. QED
  BY <1>3, <1>4, InFlightKept DEF ReverseRelief, People

LEMMA PeopleStep == IInv /\ [Next]_vars => People'
<1>. SUFFICES ASSUME IInv, [Next]_vars
              PROVE  People'
  OBVIOUS
<1>1. CASE UNCHANGED vars
  BY <1>1 DEF IInv, People, DecidedByAnother, DecisionsInFlight, vars
<1>2. ASSUME NEW w \in Workers, Refuse(w)
      PROVE  People'
  <2>1. RequestersKept /\ DecidedByAnother'
    BY <1>2, ReliefsKept DEF Refuse, IInv, RequestersKept
  <2>. QED
    BY <1>2, <2>1, TaskDone, InFlightKept DEF Refuse, IInv, People
<1>. QED
  BY <1>1, <1>2, RaiseChargePeople, VoidLoadPeople, VoidCommitPeople, RequestReliefPeople,
     DecideLoadPeople, DecideFitsPeople, DecideCommitPeople, CancelReliefPeople,
     ReverseReliefPeople DEF Next

-----------------------------------------------------------------------------
LEMMA InvariantHolds == Spec => []IInv
<1>1. Init => IInv
  BY TypedInit, BooksInit, PeopleInit DEF IInv
<1>2. IInv /\ [Next]_vars => IInv'
  BY TypedStep, BooksStep, PeopleStep DEF IInv, People
<1>. QED
  BY <1>1, <1>2, PTL DEF Spec

\* However requests interleave, are refused or die halfway, the ledger agrees
\* with the records: standing charges and relief have exactly their entry,
\* withdrawn ones that and its opposite, everything else none.
THEOREM LedgerAgrees == Spec => []LedgerMatchesRecords
<1>1. IInv => LedgerMatchesRecords
  BY DEF IInv
<1>. QED
  BY <1>1, InvariantHolds, PTL

\* Relief with an entry in the ledger was decided by somebody other than who
\* requested it, whatever decisions were in flight.
THEOREM SecondPerson == Spec => []MoneyTakesTwo
<1>1. ASSUME IInv, NEW r \in ReliefIds, EntriesOf(r) # {}
      PROVE  reliefs[r].decidedBy \notin {None, reliefs[r].requestedBy}
  <2>1. reliefs[r].status \in Decided
    BY <1>1 DEF IInv, LedgerMatchesRecords, ReliefBooked, Decided
  <2>. QED
    BY <1>1, <2>1 DEF IInv, DecidedByAnother
<1>2. IInv => MoneyTakesTwo
  BY <1>1 DEF MoneyTakesTwo
<1>. QED
  BY <1>2, InvariantHolds, PTL

-----------------------------------------------------------------------------
(* What no step rewrites. *)

History == ledger \subseteq ledger' /\ ChargesOnlyVoided /\ RequestsKept /\ DecisionsKept

LEMMA RaiseChargeHistory ==
    ASSUME IInv, NEW c \in ChargeIds, RaiseCharge(c)
    PROVE  History
<1>1. \E charge : charges' = [charges EXCEPT ![c] = charge]
  BY DEF RaiseCharge
<1>2. ledger \subseteq ledger'
  BY DEF RaiseCharge, PostEntry
<1>3. ChargesOnlyVoided
  BY <1>1 DEF RaiseCharge, ChargesOnlyVoided, IInv, Typed, TypeOK
<1>. QED
  BY <1>2, <1>3 DEF History, RaiseCharge, RequestsKept, DecisionsKept

LEMMA VoidCommitHistory ==
    ASSUME IInv, NEW w \in Workers, VoidCommit(w)
    PROVE  History
<1>1. ledger \subseteq ledger'
  BY DEF VoidCommit, ReverseEntryFor
<1>2. ChargesOnlyVoided
  BY DEF VoidCommit, ChargesOnlyVoided, IInv, Typed, TypeOK
<1>. QED
  BY <1>1, <1>2 DEF History, VoidCommit, RequestsKept, DecisionsKept

LEMMA RequestReliefHistory ==
    ASSUME IInv, NEW u \in Users, NEW r \in ReliefIds, RequestRelief(u, r)
    PROVE  History
<1>1. \E record : reliefs' = [reliefs EXCEPT ![r] = record]
  BY RequestedRecord
<1>2. \A q \in ReliefIds : reliefs[q] # Absent => reliefs'[q] = reliefs[q]
  BY <1>1 DEF RequestRelief, IInv, Typed, TypeOK
<1>3. \A q \in ReliefIds : reliefs[q].status \in Decided => reliefs[q] # Absent
  BY DEF Decided, Absent
<1>4. UNCHANGED <<charges, ledger>>
  BY DEF RequestRelief
<1>. QED
  BY <1>2, <1>3, <1>4 DEF History, ChargesOnlyVoided, RequestsKept, DecisionsKept

\* A relief record only ever moves on: the columns of the request stay.
LEMMA ReliefMovesOn ==
    ASSUME IInv, NEW r \in ReliefIds, reliefs[r] \in Relief, NEW record,
           reliefs' = [reliefs EXCEPT ![r] = record],
           \A field \in {"kind", "direction", "student", "period", "charge", "amount",
                         "requestedBy"} : record[field] = reliefs[r][field],
           reliefs[r].status \in Decided =>
               record.status \in Decided /\ record.decidedBy = reliefs[r].decidedBy
    PROVE  RequestsKept /\ DecisionsKept
<1>1. reliefs'[r] = record /\ \A q \in ReliefIds \ {r} : reliefs'[q] = reliefs[q]
  BY DEF IInv, Typed, TypeOK
<1>. QED
  BY <1>1 DEF RequestsKept, DecisionsKept

LEMMA DecideCommitHistory ==
    ASSUME IInv, NEW w \in Workers, DecideCommit(w)
    PROVE  History
<1>1. PICK r \in ReliefIds : r = task[w].relief
  BY DecideTask DEF DecideCommit, IInv
<1>2. reliefs[r] \in Relief /\ reliefs[r].status = "PENDING_APPROVAL"
  BY <1>1, Present DEF DecideCommit, Matches, IInv, Typed
<1>3. ledger \subseteq ledger' /\ UNCHANGED charges
  BY DEF DecideCommit, PostEntry
<1>4. RequestsKept /\ DecisionsKept
  <2>. DEFINE record == [reliefs[r] EXCEPT
                !.status = IF task[w].approve THEN "APPROVED" ELSE "REJECTED",
                !.decidedBy = task[w].by, !.version = @ + 1]
  <2>1. reliefs' = [reliefs EXCEPT ![r] = record]
    BY <1>1, <1>2 DEF DecideCommit, IInv, Typed, TypeOK, Relief
  <2>2. \A field \in {"kind", "direction", "student", "period", "charge", "amount",
                       "requestedBy"} : record[field] = reliefs[r][field]
    BY <1>2 DEF Relief
  <2>3. reliefs[r].status \notin Decided
    BY <1>2 DEF Decided
  <2>. HIDE DEF record
  <2>. QED
    BY <1>2, <2>1, <2>2, <2>3, ReliefMovesOn
<1>. QED
  BY <1>3, <1>4 DEF History, ChargesOnlyVoided

LEMMA CancelReliefHistory ==
    ASSUME IInv, NEW u \in Users, NEW r \in ReliefIds, CancelRelief(u, r)
    PROVE  History
<1>1. reliefs[r] \in Relief /\ reliefs[r].status \notin Decided
  BY Present DEF IInv, Typed, CancelRelief, Decided
<1>2. RequestsKept /\ DecisionsKept
  <2>. DEFINE record == [reliefs[r] EXCEPT !.status = "CANCELLED", !.version = @ + 1]
  <2>1. reliefs' = [reliefs EXCEPT ![r] = record]
    BY <1>1 DEF CancelRelief, IInv, Typed, TypeOK, Relief
  <2>2. \A field \in {"kind", "direction", "student", "period", "charge", "amount",
                       "requestedBy"} : record[field] = reliefs[r][field]
    BY <1>1 DEF Relief
  <2>. HIDE DEF record
  <2>. QED
    BY <1>1, <2>1, <2>2, ReliefMovesOn
<1>. QED
  BY <1>2 DEF History, CancelRelief, ChargesOnlyVoided

LEMMA ReverseReliefHistory ==
    ASSUME IInv, NEW r \in ReliefIds, ReverseRelief(r)
    PROVE  History
<1>1. reliefs[r] \in Relief
  BY Present DEF IInv, Typed, ReverseRelief
<1>2. ledger \subseteq ledger' /\ UNCHANGED charges
  BY DEF ReverseRelief, ReverseEntryFor
<1>3. RequestsKept /\ DecisionsKept
  <2>. DEFINE record == [reliefs[r] EXCEPT !.status = "REVERSED", !.version = @ + 1]
  <2>1. reliefs' = [reliefs EXCEPT ![r] = record]
    BY <1>1 DEF ReverseRelief, IInv, Typed, TypeOK, Relief
  <2>2. \A field \in {"kind", "direction", "student", "period", "charge", "amount",
                       "requestedBy"} : record[field] = reliefs[r][field]
    BY <1>1 DEF Relief
  <2>3. record.status \in Decided /\ record.decidedBy = reliefs[r].decidedBy
    BY <1>1 DEF Relief, Decided
  <2>. HIDE DEF record
  <2>. QED
    BY <1>1, <2>1, <2>2, <2>3, ReliefMovesOn
<1>. QED
  BY <1>2, <1>3 DEF History, ChargesOnlyVoided

LEMMA UntouchedHistory ==
    ASSUME UNCHANGED <<charges, reliefs, ledger>>
    PROVE  History
  BY DEF History, ChargesOnlyVoided, RequestsKept, DecisionsKept

LEMMA HistoryStep == IInv /\ [Next]_vars => [History]_vars
<1>. SUFFICES ASSUME IInv, Next
              PROVE  History
  OBVIOUS
<1>1. ASSUME NEW w \in Workers, NEW c \in ChargeIds, VoidLoad(w, c)
      PROVE  History
  BY <1>1, UntouchedHistory DEF VoidLoad
<1>2. ASSUME NEW w \in Workers, NEW u \in Users, NEW r \in ReliefIds,
             NEW approve \in BOOLEAN, DecideLoad(w, u, r, approve)
      PROVE  History
  BY <1>2, UntouchedHistory DEF DecideLoad
<1>3. ASSUME NEW w \in Workers, DecideFits(w) \/ Refuse(w)
      PROVE  History
  BY <1>3, UntouchedHistory DEF DecideFits, Refuse
<1>. QED
  BY <1>1, <1>2, <1>3, RaiseChargeHistory, VoidCommitHistory, RequestReliefHistory,
     DecideCommitHistory, CancelReliefHistory, ReverseReliefHistory DEF Next

\* The ledger is append-only, and a record keeps what was asked and who decided.
THEOREM HistoryHolds == Spec => HistoryIsKept
<1>1. History <=> /\ ledger \subseteq ledger'
                  /\ ChargesOnlyVoided /\ RequestsKept /\ DecisionsKept
  BY DEF History
<1>. QED
  BY <1>1, HistoryStep, InvariantHolds, PTL DEF Spec, HistoryIsKept, History

(***************************************************************************)
(* FeeLedger implements StudentAccount.  A step that writes an entry is a   *)
(* posting or a withdrawal; every other step leaves the accounts and what   *)
(* is in force alone.                                                      *)
(***************************************************************************)

Lines == {LineOf(e) : e \in ledger}

\* The line of a new entry for what was not posted yet.
LEMMA EntryPosts ==
    ASSUME Typed', NEW x \in Sources, NEW e, e.ref = x, e.reversalOf = None,
           ledger' = ledger \cup {e}, EntriesOf(x) = {},
           x \notin InForce, InForce' = InForce \cup {x}
    PROVE  Account!Post(Lines' \ Lines)
<1>1. e \in Entry
  BY DEF Typed, TypeOK
<1>2. LineOf(e) \in Account!Line
  BY <1>1 DEF LineOf, Account!Line, Entry, Positive, Directions
<1>3. Lines' = Lines \cup {LineOf(e)}
  BY DEF Lines
<1>4. Account!LinesOf(x) = {}
  BY DEF Account!LinesOf, LineOf, EntriesOf
<1>5. LineOf(e).item = x /\ ~LineOf(e).undoes
  BY DEF LineOf
<1>6. LineOf(e) \notin Lines
  BY <1>4, <1>5 DEF Account!LinesOf, Lines
<1>7. Lines' \ Lines = {LineOf(e)}
  BY <1>3, <1>6
<1>. QED
  BY <1>2, <1>3, <1>4, <1>5, <1>7 DEF Account!Post, Lines

\* The line of the reversal of what is in force.
LEMMA ReversalWithdraws ==
    ASSUME Typed, NEW x \in Sources, NEW e \in ledger, e.ref = x, e.reversalOf = None,
           ledger' = ledger \cup {ReversalOf(e)},
           x \in InForce, InForce' = InForce \ {x}
    PROVE  Account!Withdraw(x)
<1>1. e.id # None
  BY LedgerAssumption DEF Typed, TypeOK, Entry, EntryId, Sources
<1>2. LineOf(ReversalOf(e)) = Account!Undoing(LineOf(e))
  BY <1>1 DEF LineOf, ReversalOf, Account!Undoing, Opposite
<1>3. {LineOf(f) : f \in ledger'} = {LineOf(f) : f \in ledger} \cup {LineOf(ReversalOf(e))}
  OBVIOUS
<1>4. LineOf(e) \in Account!LinesOf(x) /\ ~LineOf(e).undoes
  BY DEF Account!LinesOf, LineOf
<1>. QED
  BY <1>2, <1>3, <1>4 DEF Account!Withdraw

\* What stands is there to be reversed, and is all there is to reverse.
LEMMA StandingIsLive ==
    ASSUME Typed, LedgerMatchesRecords, NEW x \in Sources,
           NEW source, NEW type, NEW charge, NEW record,
           Standing(x, source, type, charge, record), ReverseEntryFor(x)
    PROVE  \E e \in ledger : /\ e.ref = x
                             /\ e.reversalOf = None
                             /\ ledger' = ledger \cup {ReversalOf(e)}
<1>1. PICK e \in ledger : /\ IsOpening(e, x, source, type, charge, record)
                          /\ EntriesOf(x) = {e}
  BY DEF Standing
<1>2. e.ref = x /\ e.reversalOf = None /\ e.id = <<x, 1>>
  BY <1>1 DEF EntriesOf, IsOpening
<1>3. \A f \in ledger : f.reversalOf # e.id
  <2>. SUFFICES ASSUME NEW f \in ledger, f.reversalOf = e.id
                PROVE  FALSE
    OBVIOUS
  <2>1. e.id # None
    BY <1>2, LedgerAssumption DEF Sources
  <2>2. f.reversalOf = <<f.ref, 1>>
    BY <2>1, ReversalsStayHome
  <2>3. f \in EntriesOf(x)
    BY <1>2, <2>2 DEF EntriesOf
  <2>. QED
    BY <1>1, <1>2, <2>1, <2>3
<1>4. e \in LiveOpenings(x)
  BY <1>1, <1>2, <1>3 DEF LiveOpenings
<1>5. PICK f \in LiveOpenings(x) : ledger' = ledger \cup {ReversalOf(f)}
  BY <1>4 DEF ReverseEntryFor
<1>6. f \in ledger /\ f.ref = x /\ f.reversalOf = None
  BY <1>5 DEF LiveOpenings, EntriesOf
<1>. QED
  BY <1>5, <1>6

-----------------------------------------------------------------------------
LEMMA RaiseChargeAccount ==
    ASSUME IInv, IInv', NEW c \in ChargeIds, RaiseCharge(c)
    PROVE  Account!Post(Lines' \ Lines)
<1>1. PICK charge : /\ charges' = [charges EXCEPT ![c] = charge]
                    /\ charge.status = "RAISED"
                    /\ PostEntry(c, "CHARGE", "DEBIT", c, charge)
  BY DEF RaiseCharge
<1>2. PICK e : e.ref = c /\ e.reversalOf = None /\ ledger' = ledger \cup {e}
  BY <1>1 DEF PostEntry
<1>3. charges[c].status = "ABSENT" /\ UNCHANGED reliefs
  BY DEF RaiseCharge, Absent
<1>4. EntriesOf(c) = {}
  BY <1>3 DEF IInv, LedgerMatchesRecords, ChargeBooked
<1>5. c \notin ReliefIds
  BY LedgerAssumption
<1>6. c \notin InForce /\ InForce' = InForce \cup {c}
  BY <1>1, <1>3, <1>5 DEF InForce, IInv, Typed, TypeOK
<1>. QED
  BY <1>2, <1>4, <1>6, EntryPosts DEF IInv, Sources

LEMMA VoidCommitAccount ==
    ASSUME IInv, NEW w \in Workers, VoidCommit(w)
    PROVE  \E c \in Sources : Account!Withdraw(c)
<1>1. PICK c \in ChargeIds : c = task[w].charge
  BY DEF VoidCommit, IInv, Typed, TypeOK, Task, Idle
<1>2. /\ charges[c].status = "RAISED"
      /\ charges' = [charges EXCEPT ![c].status = "VOID", ![c].version = @ + 1]
      /\ ReverseEntryFor(c)
      /\ UNCHANGED reliefs
  BY <1>1 DEF VoidCommit, Matches
<1>3. Standing(c, "CHARGE", "DEBIT", c, charges[c]) /\ c \in Sources
  BY <1>2 DEF IInv, LedgerMatchesRecords, ChargeBooked, Sources
<1>4. PICK e \in ledger : /\ e.ref = c
                          /\ e.reversalOf = None
                          /\ ledger' = ledger \cup {ReversalOf(e)}
  BY <1>2, <1>3, StandingIsLive DEF IInv
<1>5. charges'[c].status = "VOID" /\ \A d \in ChargeIds \ {c} : charges'[d] = charges[d]
  <2>1. charges[c] \in Charge
    BY <1>2, Present DEF IInv, Typed
  <2>. QED
    BY <1>2, <2>1 DEF IInv, Typed, TypeOK, Charge
<1>6. c \notin ReliefIds
  BY LedgerAssumption
<1>7. c \in InForce /\ InForce' = InForce \ {c}
  BY <1>2, <1>5, <1>6 DEF InForce
<1>. QED
  BY <1>3, <1>4, <1>7, ReversalWithdraws DEF IInv

LEMMA DecideCommitAccount ==
    ASSUME IInv, IInv', NEW w \in Workers, DecideCommit(w)
    PROVE  Account!Post(Lines' \ Lines) \/ UNCHANGED <<InForce, ledger>>
<1>1. PICK r \in ReliefIds : r = task[w].relief
  BY DecideTask DEF DecideCommit, IInv
<1>2. reliefs[r] \in Relief /\ reliefs[r].status = "PENDING_APPROVAL" /\ UNCHANGED charges
  BY <1>1, Present DEF DecideCommit, Matches, IInv, Typed
<1>3. /\ reliefs'[r].status = IF task[w].approve THEN "APPROVED" ELSE "REJECTED"
      /\ \A q \in ReliefIds \ {r} : reliefs'[q] = reliefs[q]
  BY <1>1, <1>2 DEF DecideCommit, IInv, Typed, TypeOK, Relief
<1>4. r \notin ChargeIds /\ r \in Sources
  BY LedgerAssumption DEF Sources
<1>5. CASE ~task[w].approve
  <2>1. UNCHANGED ledger
    BY <1>5 DEF DecideCommit
  <2>2. InForce' = InForce
    BY <1>2, <1>3, <1>5 DEF InForce
  <2>. QED
    BY <2>1, <2>2
<1>6. CASE task[w].approve
  <2>1. PICK e : e.ref = r /\ e.reversalOf = None /\ ledger' = ledger \cup {e}
    BY <1>1, <1>6 DEF DecideCommit, PostEntry
  <2>2. EntriesOf(r) = {}
    BY <1>2 DEF IInv, LedgerMatchesRecords, ReliefBooked
  <2>3. r \notin InForce /\ InForce' = InForce \cup {r}
    BY <1>2, <1>3, <1>4, <1>6 DEF InForce
  <2>. QED
    BY <1>4, <2>1, <2>2, <2>3, EntryPosts DEF IInv
<1>. QED
  BY <1>5, <1>6

LEMMA ReverseReliefAccount ==
    ASSUME IInv, NEW r \in ReliefIds, ReverseRelief(r)
    PROVE  Account!Withdraw(r)
<1>1. /\ reliefs[r].status = "APPROVED"
      /\ reliefs' = [reliefs EXCEPT ![r].status = "REVERSED", ![r].version = @ + 1]
      /\ ReverseEntryFor(r)
      /\ UNCHANGED charges
  BY DEF ReverseRelief
<1>2. /\ Standing(r, reliefs[r].kind, reliefs[r].direction, reliefs[r].charge, reliefs[r])
      /\ r \in Sources
  BY <1>1 DEF IInv, LedgerMatchesRecords, ReliefBooked, Sources
<1>3. PICK e \in ledger : /\ e.ref = r
                          /\ e.reversalOf = None
                          /\ ledger' = ledger \cup {ReversalOf(e)}
  BY <1>1, <1>2, StandingIsLive DEF IInv
<1>4. reliefs'[r].status = "REVERSED" /\ \A q \in ReliefIds \ {r} : reliefs'[q] = reliefs[q]
  <2>1. reliefs[r] \in Relief
    BY <1>1, Present DEF IInv, Typed
  <2>. QED
    BY <1>1, <2>1 DEF IInv, Typed, TypeOK, Relief
<1>5. r \notin ChargeIds
  BY LedgerAssumption
<1>6. r \in InForce /\ InForce' = InForce \ {r}
  BY <1>1, <1>4, <1>5 DEF InForce
<1>. QED
  BY <1>2, <1>3, <1>6, ReversalWithdraws DEF IInv

\* A request for relief, and its cancellation, put nothing in force.
LEMMA UnpostedReliefAccount ==
    ASSUME IInv, NEW r \in ReliefIds,
           (\E u \in Users : RequestRelief(u, r)) \/ (\E u \in Users : CancelRelief(u, r))
    PROVE  UNCHANGED <<InForce, ledger>>
<1>1. /\ reliefs[r].status # "APPROVED"
      /\ reliefs'[r].status # "APPROVED"
      /\ \A q \in ReliefIds \ {r} : reliefs'[q] = reliefs[q]
  <2>1. CASE \E u \in Users : RequestRelief(u, r)
    <3>1. \E record : /\ record.status = "PENDING_APPROVAL"
                      /\ reliefs' = [reliefs EXCEPT ![r] = record]
      BY <2>1, RequestedRecord
    <3>2. reliefs[r].status = "ABSENT"
      BY <2>1 DEF RequestRelief, Absent
    <3>. QED
      BY <3>1, <3>2 DEF IInv, Typed, TypeOK
  <2>2. CASE \E u \in Users : CancelRelief(u, r)
    <3>1. reliefs[r] \in Relief
      BY <2>2, Present DEF IInv, Typed, CancelRelief
    <3>. QED
      BY <2>2, <3>1 DEF CancelRelief, IInv, Typed, TypeOK, Relief
  <2>. QED
    BY <2>1, <2>2
<1>2. UNCHANGED <<charges, ledger>>
  BY DEF RequestRelief, CancelRelief
<1>. QED
  BY <1>1, <1>2 DEF InForce

-----------------------------------------------------------------------------
LEMMA AccountInit == Init => Account!Init
  BY DEF Init, Account!Init, InForce, Absent

LEMMA AccountStep == IInv /\ IInv' /\ [Next]_vars => [Account!Next]_(Account!account)
<1>. SUFFICES ASSUME IInv, IInv', [Next]_vars
              PROVE  Account!Next \/ UNCHANGED Account!account
  OBVIOUS
<1>1. ASSUME UNCHANGED <<InForce, ledger>>
      PROVE  UNCHANGED Account!account
  BY <1>1 DEF Account!account
<1>2. CASE UNCHANGED <<charges, reliefs, ledger>>
  BY <1>1, <1>2 DEF InForce
<1>3. ASSUME NEW c \in ChargeIds, RaiseCharge(c)
      PROVE  Account!Next
  BY <1>3, RaiseChargeAccount DEF Account!Next, Lines
<1>4. ASSUME NEW w \in Workers, VoidCommit(w)
      PROVE  Account!Next
  BY <1>4, VoidCommitAccount DEF Account!Next
<1>5. ASSUME NEW w \in Workers, DecideCommit(w)
      PROVE  Account!Next \/ UNCHANGED Account!account
  BY <1>1, <1>5, DecideCommitAccount DEF Account!Next, Lines
<1>6. ASSUME NEW r \in ReliefIds, ReverseRelief(r)
      PROVE  Account!Next
  BY <1>6, ReverseReliefAccount DEF Account!Next, Sources
<1>7. ASSUME NEW u \in Users, NEW r \in ReliefIds, RequestRelief(u, r) \/ CancelRelief(u, r)
      PROVE  UNCHANGED Account!account
  BY <1>1, <1>7, UnpostedReliefAccount
<1>8. ASSUME NEW w \in Workers, DecideFits(w) \/ Refuse(w)
      PROVE  UNCHANGED <<charges, reliefs, ledger>>
  BY <1>8 DEF DecideFits, Refuse
<1>9. ASSUME NEW w \in Workers, NEW c \in ChargeIds, VoidLoad(w, c)
      PROVE  UNCHANGED <<charges, reliefs, ledger>>
  BY <1>9 DEF VoidLoad
<1>10. ASSUME NEW w \in Workers, NEW u \in Users, NEW r \in ReliefIds,
              NEW approve \in BOOLEAN, DecideLoad(w, u, r, approve)
       PROVE  UNCHANGED <<charges, reliefs, ledger>>
  BY <1>10 DEF DecideLoad
<1>. QED
  BY <1>2, <1>3, <1>4, <1>5, <1>6, <1>7, <1>8, <1>9, <1>10 DEF Next, vars

\* However requests interleave, are refused or die halfway, all that happens to the
\* accounts is that items are posted once and withdrawn once.
THEOREM LedgerKeepsAccounts == Spec => AccountsAreKept
<1>. QED
  BY AccountInit, AccountStep, InvariantHolds, PTL DEF Spec, AccountsAreKept, Account!Spec

-----------------------------------------------------------------------------
(* What follows for the accounts from StudentAccount alone. *)

\* What its steps keep: only items come into force, only lines are shown.
AccountsKept ==
    /\ Lines \subseteq Account!Line
    /\ InForce \subseteq Sources
    /\ Account!AccountsAddUp

LEMMA AccountsKeptInit == Account!Init => AccountsKept
  BY DEF Account!Init, AccountsKept, Account!AccountsAddUp, Account!LinesOf, Lines

\* Lines that are added join the lines of their items and of no others.
LEMMA LinesAfter ==
    ASSUME NEW new, Lines' = Lines \cup new, NEW i
    PROVE  Account!LinesOf(i)' = Account!LinesOf(i) \cup {l \in new : l.item = i}
<1>1. /\ Account!LinesOf(i) = {k \in Lines : k.item = i}
      /\ Account!LinesOf(i)' = {k \in Lines' : k.item = i}
  BY DEF Account!LinesOf, Lines
<1>. QED
  BY <1>1

\* An item in force has one line, one that is not has none, or two that cancel out.
AddsUp(i) ==
    IF i \in InForce
      THEN \E l \in Lines : ~l.undoes /\ Account!LinesOf(i) = {l}
      ELSE \/ Account!LinesOf(i) = {}
           \/ \E l \in Lines : ~l.undoes /\ Account!LinesOf(i) = {l, Account!Undoing(l)}

LEMMA EachAddsUp ==
    /\ Account!AccountsAddUp <=> \A i \in Sources : AddsUp(i)
    /\ Account!AccountsAddUp' <=> \A i \in Sources : AddsUp(i)'
  BY DEF Account!AccountsAddUp, AddsUp, Lines

LEMMA PostAddsUp ==
    ASSUME AccountsKept, NEW new, Account!Post(new)
    PROVE  AccountsKept'
<1>1. /\ new \subseteq Account!Line
      /\ \A l \in new : /\ ~l.undoes /\ l.item \notin InForce
                        /\ Account!LinesOf(l.item) = {}
                        /\ \A k \in new : k.item = l.item => k = l
      /\ InForce' = InForce \cup {l.item : l \in new}
      /\ Lines' = Lines \cup new
  BY DEF Account!Post, Lines
<1>2. ASSUME NEW i \in Sources
      PROVE  AddsUp(i)'
  <2>1. Account!LinesOf(i)' = Account!LinesOf(i) \cup {l \in new : l.item = i}
    BY <1>1, LinesAfter
  <2>2. CASE \E l \in new : l.item = i
    <3>1. PICK l \in new : l.item = i
      BY <2>2
    <3>2. Account!LinesOf(i)' = {l}
      BY <1>1, <2>1, <3>1
    <3>3. i \in InForce' /\ l \in Lines' /\ ~l.undoes
      BY <1>1, <3>1
    <3>. QED
      BY <3>2, <3>3 DEF AddsUp
  <2>3. CASE ~\E l \in new : l.item = i
    <3>1. Account!LinesOf(i)' = Account!LinesOf(i) /\ (i \in InForce' <=> i \in InForce)
      BY <1>1, <2>1, <2>3
    <3>2. AddsUp(i)
      BY EachAddsUp DEF AccountsKept
    <3>. QED
      BY <1>1, <3>1, <3>2 DEF AddsUp, Account!Undoing
  <2>. QED
    BY <2>2, <2>3
<1>3. Account!AccountsAddUp'
  BY <1>2, EachAddsUp
<1>4. InForce' \subseteq Sources
  BY <1>1 DEF AccountsKept, Account!Line
<1>. QED
  BY <1>1, <1>3, <1>4 DEF AccountsKept, Account!Line

LEMMA WithdrawAddsUp ==
    ASSUME AccountsKept, NEW i \in Sources, Account!Withdraw(i)
    PROVE  AccountsKept'
<1>1. PICK l \in Account!LinesOf(i) : ~l.undoes /\ Lines' = Lines \cup {Account!Undoing(l)}
  BY DEF Account!Withdraw, Lines
<1>2. l \in Lines /\ l \in Account!Line /\ l.item = i
  BY <1>1 DEF Account!LinesOf, AccountsKept, Lines
<1>3. Account!Undoing(l) \in Account!Line /\ Account!Undoing(l).item = i
  BY <1>2 DEF Account!Undoing, Account!Line
<1>4. i \in InForce /\ InForce' = InForce \ {i}
  BY DEF Account!Withdraw
<1>5. Account!LinesOf(i) = {l}
  <2>1. AddsUp(i)
    BY EachAddsUp DEF AccountsKept
  <2>. QED
    BY <1>1, <1>4, <2>1 DEF AddsUp
<1>6. /\ Account!LinesOf(i)' = {l, Account!Undoing(l)}
      /\ \A j : j # i => Account!LinesOf(j)' = Account!LinesOf(j)
  <2>1. \A j : Account!LinesOf(j)' =
                   Account!LinesOf(j) \cup {k \in {Account!Undoing(l)} : k.item = j}
    BY <1>1, LinesAfter
  <2>. QED
    BY <1>3, <1>5, <2>1
<1>7. ASSUME NEW j \in Sources
      PROVE  AddsUp(j)'
  <2>1. CASE j = i
    BY <1>1, <1>2, <1>4, <1>6, <2>1 DEF AddsUp, Account!Undoing
  <2>2. CASE j # i
    <3>1. AddsUp(j)
      BY EachAddsUp DEF AccountsKept
    <3>. QED
      BY <1>1, <1>4, <1>6, <2>2, <3>1 DEF AddsUp, Account!Undoing
  <2>. QED
    BY <2>1, <2>2
<1>8. Account!AccountsAddUp'
  BY <1>7, EachAddsUp
<1>. QED
  BY <1>1, <1>3, <1>4, <1>8 DEF AccountsKept, Account!Line

LEMMA AccountsStayKept == AccountsKept /\ [Account!Next]_(Account!account) => AccountsKept'
<1>. SUFFICES ASSUME AccountsKept, [Account!Next]_(Account!account)
              PROVE  AccountsKept'
  OBVIOUS
<1>1. CASE UNCHANGED Account!account
  <2>1. InForce' = InForce /\ Lines' = Lines
    BY <1>1 DEF Account!account, Lines
  <2>2. \A i : Account!LinesOf(i)' = Account!LinesOf(i)
    BY <1>1 DEF Account!LinesOf, Account!account
  <2>3. \A i \in Sources : AddsUp(i)'
    BY <2>1, <2>2, EachAddsUp DEF AddsUp, AccountsKept, Account!Undoing
  <2>4. Account!AccountsAddUp'
    BY <2>3, EachAddsUp
  <2>. QED
    BY <2>1, <2>4 DEF AccountsKept, Account!Line
<1>. QED
  BY <1>1, PostAddsUp, WithdrawAddsUp DEF Account!Next

\* Whatever was charged or relieved and is in force has one line on its account, and what
\* was voided or reversed has two that cancel out: so much follows from what StudentAccount
\* promises, and the ledger keeps that (ledger.service.ts:4-21).
THEOREM AccountsAlwaysAddUp ==
    /\ Account!Spec => []Account!AccountsAddUp
    /\ Spec => []Account!AccountsAddUp
<1>1. AccountsKept => Account!AccountsAddUp
  BY DEF AccountsKept
<1>2. Account!Spec => []Account!AccountsAddUp
  BY <1>1, AccountsKeptInit, AccountsStayKept, PTL DEF Account!Spec
<1>3. Spec => Account!Spec
  BY LedgerKeepsAccounts DEF AccountsAreKept
<1>. QED
  BY <1>2, <1>3, PTL

-----------------------------------------------------------------------------
(* Balances *)

\* Total adds up the column of amounts.
LEMMA TotalIsSum ==
    ASSUME NEW E, IsFiniteSet(E)
    PROVE  Total(E) = Sum([e \in E |-> e.amount], E)
<1>. DEFINE f == [e \in E |-> e.amount]
            Eq(g) == g = [s \in SUBSET E |->
                            IF s = {} THEN 0 ELSE Pick(s).amount + g[s \ {Pick(s)}]]
<1>1. ASSUME NEW g
      PROVE  Eq(g) <=> Adds(g, f, E)
  <2>1. \A s \in SUBSET E : s # {} => f[Pick(s)] = Pick(s).amount
    BY PickIsIn
  <2>. HIDE DEF f
  <2>2. [s \in SUBSET E |-> IF s = {} THEN 0 ELSE Pick(s).amount + g[s \ {Pick(s)}]]
          = [s \in SUBSET E |-> IF s = {} THEN 0 ELSE f[Pick(s)] + g[s \ {Pick(s)}]]
    BY <2>1
  <2>. QED
    BY <2>2 DEF Adds
<1>. HIDE DEF f, Eq
<1>2. Adds(CHOOSE g : Eq(g), f, E)
  <2>1. \E g : Eq(g)
    BY <1>1, SolutionExists
  <2>. QED
    BY <1>1, <2>1
<1>3. (CHOOSE g : Eq(g))[E] = Sum(f, E)
  BY <1>2, SolutionSums
<1>. QED
  BY <1>3 DEF f, Eq, Total, MapThenSumSet, MapThenFoldSet, Pick

\* What a set of charges is worth.
LEMMA ChargeTotalIsSum ==
    ASSUME NEW C, IsFiniteSet(C)
    PROVE  ChargeTotal(C) = Sum([c \in C |-> charges[c].amount], C)
<1>. DEFINE f == [c \in C |-> charges[c].amount]
            Eq(g) == g = [s \in SUBSET C |->
                            IF s = {} THEN 0 ELSE charges[Pick(s)].amount + g[s \ {Pick(s)}]]
<1>1. ASSUME NEW g
      PROVE  Eq(g) <=> Adds(g, f, C)
  <2>1. \A s \in SUBSET C : s # {} => f[Pick(s)] = charges[Pick(s)].amount
    BY PickIsIn
  <2>. HIDE DEF f
  <2>2. [s \in SUBSET C |-> IF s = {} THEN 0 ELSE charges[Pick(s)].amount + g[s \ {Pick(s)}]]
          = [s \in SUBSET C |-> IF s = {} THEN 0 ELSE f[Pick(s)] + g[s \ {Pick(s)}]]
    BY <2>1
  <2>. QED
    BY <2>2 DEF Adds
<1>. HIDE DEF f, Eq
<1>2. Adds(CHOOSE g : Eq(g), f, C)
  <2>1. \E g : Eq(g)
    BY <1>1, SolutionExists
  <2>. QED
    BY <1>1, <2>1
<1>3. (CHOOSE g : Eq(g))[C] = Sum(f, C)
  BY <1>2, SolutionSums
<1>. QED
  BY <1>3 DEF f, Eq, ChargeTotal, MapThenSumSet, MapThenFoldSet, Pick

\* What a set of relief records takes off or adds.
LEMMA ReliefTotalIsSum ==
    ASSUME NEW R, IsFiniteSet(R)
    PROVE  ReliefTotal(R) = Sum([r \in R |-> reliefs[r].amount], R)
<1>. DEFINE f == [r \in R |-> reliefs[r].amount]
            Eq(g) == g = [s \in SUBSET R |->
                            IF s = {} THEN 0 ELSE reliefs[Pick(s)].amount + g[s \ {Pick(s)}]]
<1>1. ASSUME NEW g
      PROVE  Eq(g) <=> Adds(g, f, R)
  <2>1. \A s \in SUBSET R : s # {} => f[Pick(s)] = reliefs[Pick(s)].amount
    BY PickIsIn
  <2>. HIDE DEF f
  <2>2. [s \in SUBSET R |-> IF s = {} THEN 0 ELSE reliefs[Pick(s)].amount + g[s \ {Pick(s)}]]
          = [s \in SUBSET R |-> IF s = {} THEN 0 ELSE f[Pick(s)] + g[s \ {Pick(s)}]]
    BY <2>1
  <2>. QED
    BY <2>2 DEF Adds
<1>. HIDE DEF f, Eq
<1>2. Adds(CHOOSE g : Eq(g), f, R)
  <2>1. \E g : Eq(g)
    BY <1>1, SolutionExists
  <2>. QED
    BY <1>1, <2>1
<1>3. (CHOOSE g : Eq(g))[R] = Sum(f, R)
  BY <1>2, SolutionSums
<1>. QED
  BY <1>3 DEF f, Eq, ReliefTotal, MapThenSumSet, MapThenFoldSet, Pick

-----------------------------------------------------------------------------
\* What is known of the entries of a charge.
LEMMA EntryOfCharge ==
    ASSUME IInv, NEW e \in ledger, e.ref \in ChargeIds
    PROVE  LET charge == charges[e.ref] IN
           /\ charge \in Charge
           /\ e.source = "CHARGE"
           /\ e.amount = charge.amount /\ e.student = charge.student /\ e.period = charge.period
           /\ e.type = "CREDIT" => charge.status = "VOID"
           /\ \A f \in ledger : f.ref = e.ref /\ f.type = e.type => f = e
<1>. DEFINE charge == charges[e.ref]
<1>1. TypeOK /\ ChargeBooked(e.ref) /\ e \in EntriesOf(e.ref)
  BY DEF IInv, Typed, LedgerMatchesRecords, EntriesOf
<1>2. charge.status \in {"RAISED", "VOID"} /\ charge \in Charge
  BY <1>1, Present DEF ChargeBooked, TypeOK, Charge, Absent
<1>3. CASE charge.status = "RAISED"
  <2>1. Standing(e.ref, "CHARGE", "DEBIT", e.ref, charge)
    BY <1>1, <1>3 DEF ChargeBooked
  <2>. QED
    BY <1>1, <1>2, <1>3, <2>1 DEF Standing, IsOpening, EntriesOf
<1>4. CASE charge.status = "VOID"
  <2>1. Withdrawn(e.ref, "CHARGE", "DEBIT", e.ref, charge)
    BY <1>1, <1>4 DEF ChargeBooked
  <2>. QED
    BY <1>1, <1>2, <1>4, <2>1 DEF Withdrawn, IsOpening, IsReversal, EntriesOf, Opposite
<1>. QED
  BY <1>2, <1>3, <1>4

\* What the entries of a charge come to.
LEMMA ChargeHasEntries ==
    ASSUME IInv, NEW c \in ChargeIds, charges[c].status \in {"RAISED", "VOID"}
    PROVE  /\ \E e \in ledger : e.ref = c /\ e.type = "DEBIT"
           /\ charges[c].status = "VOID" => \E e \in ledger : e.ref = c /\ e.type = "CREDIT"
<1>. DEFINE charge == charges[c]
<1>1. ChargeBooked(c)
  BY DEF IInv, LedgerMatchesRecords
<1>2. CASE charge.status = "RAISED"
  <2>1. Standing(c, "CHARGE", "DEBIT", c, charge)
    BY <1>1, <1>2 DEF ChargeBooked
  <2>. QED
    BY <1>2, <2>1 DEF Standing, IsOpening, EntriesOf
<1>3. CASE charge.status = "VOID"
  <2>1. Withdrawn(c, "CHARGE", "DEBIT", c, charge)
    BY <1>1, <1>3 DEF ChargeBooked
  <2>. QED
    BY <1>3, <2>1 DEF Withdrawn, IsOpening, IsReversal, EntriesOf, Opposite
<1>. QED
  BY <1>2, <1>3

\* What is known of the entries of relief: one in its direction, one against it when it
\* was reversed.
LEMMA EntryOfRelief ==
    ASSUME IInv, NEW e \in ledger, e.ref \in ReliefIds
    PROVE  LET relief == reliefs[e.ref] IN
           /\ relief \in Relief
           /\ e.source = relief.kind
           /\ e.amount = relief.amount /\ e.student = relief.student /\ e.period = relief.period
           /\ relief.status \in {"APPROVED", "REVERSED"}
           /\ e.type # relief.direction => relief.status = "REVERSED"
           /\ \A f \in ledger : f.ref = e.ref /\ f.type = e.type => f = e
<1>. DEFINE relief == reliefs[e.ref]
<1>1. TypeOK /\ ReliefBooked(e.ref) /\ e \in EntriesOf(e.ref)
  BY DEF IInv, Typed, LedgerMatchesRecords, EntriesOf
<1>2. relief.status \in {"APPROVED", "REVERSED"}
  BY <1>1 DEF ReliefBooked
<1>3. relief \in Relief
  BY <1>1, <1>2, Present
<1>4. CASE relief.status = "APPROVED"
  <2>1. Standing(e.ref, relief.kind, relief.direction, relief.charge, relief)
    BY <1>1, <1>4 DEF ReliefBooked
  <2>. QED
    BY <1>1, <1>2, <1>3, <1>4, <2>1 DEF Standing, IsOpening, EntriesOf
<1>5. CASE relief.status = "REVERSED"
  <2>1. Withdrawn(e.ref, relief.kind, relief.direction, relief.charge, relief)
    BY <1>1, <1>5 DEF ReliefBooked
  <2>2. relief.direction # Opposite(relief.direction)
    BY <1>3 DEF Opposite, Relief, Directions
  <2>. QED
    BY <1>1, <1>2, <1>3, <1>5, <2>1, <2>2 DEF Withdrawn, IsOpening, IsReversal, EntriesOf
<1>. QED
  BY <1>2, <1>4, <1>5

\* What the entries of a relief record come to.
LEMMA ReliefHasEntries ==
    ASSUME IInv, NEW r \in ReliefIds, reliefs[r].status \in {"APPROVED", "REVERSED"}
    PROVE  /\ \E e \in ledger : e.ref = r /\ e.type = reliefs[r].direction
           /\ reliefs[r].status = "REVERSED" =>
                \E e \in ledger : e.ref = r /\ e.type = Opposite(reliefs[r].direction)
<1>. DEFINE relief == reliefs[r]
<1>1. ReliefBooked(r)
  BY DEF IInv, LedgerMatchesRecords
<1>2. CASE relief.status = "APPROVED"
  <2>1. Standing(r, relief.kind, relief.direction, relief.charge, relief)
    BY <1>1, <1>2 DEF ReliefBooked
  <2>. QED
    BY <1>2, <2>1 DEF Standing, IsOpening, EntriesOf
<1>3. CASE relief.status = "REVERSED"
  <2>1. Withdrawn(r, relief.kind, relief.direction, relief.charge, relief)
    BY <1>1, <1>3 DEF ReliefBooked
  <2>. QED
    BY <1>3, <2>1 DEF Withdrawn, IsOpening, IsReversal, EntriesOf
<1>. QED
  BY <1>2, <1>3


-----------------------------------------------------------------------------
\* Sums over the ledger, over charges and over relief, each as a sum of one function.
AmountOfEntry == [e \in ledger |-> e.amount]

AmountOfCharge == [c \in ChargeIds |-> charges[c].amount]

AmountOfRelief == [r \in ReliefIds |-> reliefs[r].amount]

\* The total of some of the entries is a sum of the ledger's column, an integer.
LEMMA TotalOfEntries ==
    ASSUME Typed, NEW E \in SUBSET ledger
    PROVE  IsFiniteSet(E) /\ Total(E) = Sum(AmountOfEntry, E) /\ Total(E) \in Int
<1>. DEFINE f == [e \in E |-> e.amount]
<1>1. IsFiniteSet(E)
  BY FS_Subset DEF Typed, FiniteLedger
<1>2. Total(E) = Sum(f, E)
  BY <1>1, TotalIsSum
<1>3. \A e \in E : f[e] \in Int /\ AmountOfEntry[e] = f[e]
  BY DEF Typed, TypeOK, Entry, Positive, AmountOfEntry
<1>. HIDE DEF f
<1>4. Sum(f, E) = Sum(AmountOfEntry, E) /\ Sum(f, E) \in Int
  BY <1>1, <1>3, SumSame, SumIsInteger
<1>. QED
  BY <1>1, <1>2, <1>4

\* Entries that pair off with records of the same amounts add up to what those do.
LEMMA EntriesPairOff ==
    ASSUME Typed, NEW E \in SUBSET ledger, NEW f, NEW R,
           \A e \in E : e.ref \in R /\ f[e.ref] = e.amount,
           \A d, e \in E : d.ref = e.ref => d = e,
           \A x \in R : \E e \in E : e.ref = x
    PROVE  /\ Total(E) = Sum(f, R)
           /\ IsFiniteSet(R)
           /\ \A x \in R : f[x] \in Int
<1>. DEFINE m == [e \in E |-> e.ref]
<1>1. IsFiniteSet(E) /\ Total(E) = Sum(AmountOfEntry, E)
  BY TotalOfEntries
<1>2. \A e \in E : AmountOfEntry[e] \in Int /\ AmountOfEntry[e] = e.amount
  BY DEF Typed, TypeOK, Entry, Positive, AmountOfEntry
<1>3. /\ m \in [E -> R]
      /\ \A d, e \in E : m[d] = m[e] => d = e
      /\ \A x \in R : \E e \in E : m[e] = x
      /\ \A e \in E : AmountOfEntry[e] \in Int /\ f[m[e]] = AmountOfEntry[e]
  BY <1>2
<1>4. m \in Surjection(E, R)
  BY <1>3 DEF Surjection
<1>5. IsFiniteSet(R)
  <2>. HIDE DEF m
  <2>. QED
    BY <1>1, <1>4, FS_Surjection
<1>6. \A x \in R : f[x] \in Int
  BY <1>2
<1>. HIDE DEF m
<1>7. Sum(AmountOfEntry, E) = Sum(f, R)
  BY <1>1, <1>3, SumReindexed
<1>. QED
  BY <1>1, <1>5, <1>6, <1>7

\* A set of entries in two parts totals what the parts do.
LEMMA TotalOfParts ==
    ASSUME Typed, NEW E \in SUBSET ledger, NEW A \in SUBSET E
    PROVE  Total(E) = Total(A) + Total(E \ A)
<1>. DEFINE B == E \ A
<1>1. /\ IsFiniteSet(A) /\ Total(A) = Sum(AmountOfEntry, A)
      /\ IsFiniteSet(B) /\ Total(B) = Sum(AmountOfEntry, B)
      /\ Total(E) = Sum(AmountOfEntry, E)
  BY TotalOfEntries
<1>2. A \cap B = {} /\ A \cup B = E
  OBVIOUS
<1>3. \A e \in A \cup B : AmountOfEntry[e] \in Int
  BY DEF Typed, TypeOK, Entry, Positive, AmountOfEntry
<1>. HIDE DEF B
<1>4. Sum(AmountOfEntry, A \cup B) = Sum(AmountOfEntry, A) + Sum(AmountOfEntry, B)
  BY <1>1, <1>2, <1>3, SumOfTwo
<1>5. Sum(AmountOfEntry, A \cup B) = Sum(AmountOfEntry, E)
  BY <1>2
<1>6. Total(E) = Total(A) + Total(B)
  BY <1>1, <1>4, <1>5
<1>. QED
  BY <1>6 DEF B

-----------------------------------------------------------------------------
EntriesIn(s, p) == {e \in ledger : e.student = s /\ e.period = p}

Among(E, type) == {e \in E : e.type = type}

OwnOfCharges(E) == {e \in E : e.ref \in ChargeIds}

\* Every entry is of a charge or of relief, and its source says which.
LEMMA SourceTells ==
    ASSUME IInv, NEW e \in ledger
    PROVE  /\ e.ref \in ChargeIds <=> e.source = "CHARGE"
           /\ e.ref \in ChargeIds \cup ReliefIds
<1>1. e \in Entry /\ TypeOK
  BY DEF IInv, Typed, TypeOK
<1>2. e.ref \in ChargeIds \cup ReliefIds
  BY <1>1 DEF Entry, Sources
<1>3. CASE e.ref \in ChargeIds
  BY <1>3, EntryOfCharge
<1>4. CASE e.ref \in ReliefIds /\ e.ref \notin ChargeIds
  <2>1. e.source \in Kinds
    BY <1>4, EntryOfRelief DEF Relief
  <2>. QED
    BY <1>4, <2>1, LedgerAssumption DEF ReliefKinds
<1>. QED
  BY <1>2, <1>3, <1>4

VoidedCharges(s, p) ==
    {c \in ChargeIds : /\ charges[c].status = "VOID"
                       /\ charges[c].student = s
                       /\ charges[c].period = p}

\* What was charged, less what was taken back, is the charges that stand.
LEMMA ChargesNetOut ==
    ASSUME IInv, NEW s \in Students, NEW p \in Periods
    PROVE  LET E == OwnOfCharges(EntriesIn(s, p)) IN
           Total(Among(E, "DEBIT")) - Total(Among(E, "CREDIT"))
               = ChargeTotal(StandingCharges(s, p))
<1>. DEFINE E == OwnOfCharges(EntriesIn(s, p))
            Dr == Among(E, "DEBIT")
            Cr == Among(E, "CREDIT")
            S == StandingCharges(s, p)
            V == VoidedCharges(s, p)
            f == AmountOfCharge
            g == [c \in S |-> charges[c].amount]
<1>1. Typed
  BY DEF IInv
<1>2. /\ Dr \in SUBSET ledger /\ Cr \in SUBSET ledger
      /\ \A e \in Dr \cup Cr : /\ e.ref \in ChargeIds /\ e \in ledger
                               /\ e.student = s /\ e.period = p
  BY DEF Among, OwnOfCharges, EntriesIn
<1>3. \A e \in Dr : e.ref \in S \cup V /\ f[e.ref] = e.amount
  BY <1>2, EntryOfCharge DEF AmountOfCharge, StandingCharges, VoidedCharges, Charge
<1>4. \A e \in Cr : e.ref \in V /\ f[e.ref] = e.amount
  BY <1>2, EntryOfCharge DEF AmountOfCharge, VoidedCharges, Among
<1>5. /\ \A d, e \in Dr : d.ref = e.ref => d = e
      /\ \A d, e \in Cr : d.ref = e.ref => d = e
  BY <1>2, EntryOfCharge DEF Among
<1>6. \A c \in S \cup V : \E e \in Dr : e.ref = c
  <2>1. SUFFICES ASSUME NEW c \in S \cup V
                 PROVE  \E e \in Dr : e.ref = c
    OBVIOUS
  <2>2. c \in ChargeIds /\ charges[c].student = s /\ charges[c].period = p
    BY DEF StandingCharges, VoidedCharges
  <2>3. PICK e \in ledger : e.ref = c /\ e.type = "DEBIT"
    BY <2>2, ChargeHasEntries DEF StandingCharges, VoidedCharges
  <2>4. e.student = s /\ e.period = p
    BY <2>2, <2>3, EntryOfCharge
  <2>. QED
    BY <2>2, <2>3, <2>4 DEF Among, OwnOfCharges, EntriesIn
<1>7. \A c \in V : \E e \in Cr : e.ref = c
  <2>1. SUFFICES ASSUME NEW c \in V
                 PROVE  \E e \in Cr : e.ref = c
    OBVIOUS
  <2>2. c \in ChargeIds /\ charges[c].student = s /\ charges[c].period = p
    BY DEF VoidedCharges
  <2>3. PICK e \in ledger : e.ref = c /\ e.type = "CREDIT"
    BY <2>2, ChargeHasEntries DEF VoidedCharges
  <2>4. e.student = s /\ e.period = p
    BY <2>2, <2>3, EntryOfCharge
  <2>. QED
    BY <2>2, <2>3, <2>4 DEF Among, OwnOfCharges, EntriesIn
<1>8. S \cap V = {} /\ \A c \in S : f[c] = g[c]
  BY DEF StandingCharges, VoidedCharges, AmountOfCharge
<1>9. ChargeTotal(S) = Sum(g, S) \/ ~IsFiniteSet(S)
  BY ChargeTotalIsSum
<1>. HIDE DEF E, Dr, Cr, S, V, f, g
<1>10. Total(Dr) = Sum(f, S \cup V) /\ IsFiniteSet(S \cup V) /\ \A c \in S \cup V : f[c] \in Int
  <2>. DEFINE R == S \cup V
  <2>1. /\ Dr \in SUBSET ledger
        /\ \A e \in Dr : e.ref \in R /\ f[e.ref] = e.amount
        /\ \A d, e \in Dr : d.ref = e.ref => d = e
        /\ \A x \in R : \E e \in Dr : e.ref = x
    BY <1>2, <1>3, <1>5, <1>6
  <2>. HIDE DEF R
  <2>2. Total(Dr) = Sum(f, R) /\ IsFiniteSet(R) /\ \A x \in R : f[x] \in Int
    BY <1>1, <2>1, EntriesPairOff
  <2>. QED
    BY <2>2 DEF R
<1>11. Total(Cr) = Sum(f, V)
  BY <1>1, <1>2, <1>4, <1>5, <1>7, EntriesPairOff
<1>12. IsFiniteSet(S) /\ IsFiniteSet(V)
  BY <1>10, FS_Subset
<1>13. Sum(f, S \cup V) = Sum(f, S) + Sum(f, V)
  BY <1>8, <1>10, <1>12, SumOfTwo
<1>14. Sum(f, S) \in Int /\ Sum(f, V) \in Int
  BY <1>10, <1>12, SumIsInteger
<1>15. Sum(f, S) = Sum(g, S)
  BY <1>8, <1>10, <1>12, SumSame
<1>16. Total(Dr) - Total(Cr) = ChargeTotal(S)
  BY <1>9, <1>10, <1>11, <1>12, <1>13, <1>14, <1>15
<1>. QED
  BY <1>16 DEF E, Dr, Cr, S

-----------------------------------------------------------------------------
OwnOfRelief(E) == {e \in E : e.ref \in ReliefIds}

ReversedRelief(s, p, d) ==
    {r \in ReliefIds : /\ reliefs[r].status = "REVERSED"
                       /\ reliefs[r].student = s
                       /\ reliefs[r].period = p
                       /\ reliefs[r].direction = d}

ReversedTotal(s, p, d) == Sum(AmountOfRelief, ReversedRelief(s, p, d))

\* The entries of relief in its own direction: of relief that stands, and of relief
\* that stood.
LEMMA OpeningsTotal ==
    ASSUME IInv, NEW s \in Students, NEW p \in Periods, NEW d \in Directions
    PROVE  LET E == Among(OwnOfRelief(EntriesIn(s, p)), d) IN
           /\ Total({e \in E : reliefs[e.ref].direction = d})
                = ReliefTotal(StandingRelief(s, p, d)) + ReversedTotal(s, p, d)
           /\ ReliefTotal(StandingRelief(s, p, d)) \in Int
           /\ ReversedTotal(s, p, d) \in Int
<1>. DEFINE E == Among(OwnOfRelief(EntriesIn(s, p)), d)
            O == {e \in E : reliefs[e.ref].direction = d}
            S == StandingRelief(s, p, d)
            V == ReversedRelief(s, p, d)
            R == S \cup V
            f == AmountOfRelief
            g == [r \in S |-> reliefs[r].amount]
<1>1. Typed
  BY DEF IInv
<1>2. /\ O \in SUBSET ledger
      /\ \A e \in O : /\ e.ref \in ReliefIds /\ e \in ledger /\ e.type = d
                      /\ e.student = s /\ e.period = p
                      /\ reliefs[e.ref].direction = d
  BY DEF Among, OwnOfRelief, EntriesIn
<1>3. \A e \in O : e.ref \in R /\ f[e.ref] = e.amount
  BY <1>2, EntryOfRelief DEF AmountOfRelief, StandingRelief, ReversedRelief
<1>4. \A a, e \in O : a.ref = e.ref => a = e
  BY <1>2, EntryOfRelief
<1>5. \A r \in R : \E e \in O : e.ref = r
  <2>1. SUFFICES ASSUME NEW r \in R
                 PROVE  \E e \in O : e.ref = r
    OBVIOUS
  <2>2. /\ r \in ReliefIds /\ reliefs[r].student = s /\ reliefs[r].period = p
        /\ reliefs[r].direction = d /\ reliefs[r].status \in {"APPROVED", "REVERSED"}
    BY DEF StandingRelief, ReversedRelief
  <2>3. PICK e \in ledger : e.ref = r /\ e.type = d
    BY <2>2, ReliefHasEntries
  <2>4. e.student = s /\ e.period = p
    BY <2>2, <2>3, EntryOfRelief
  <2>. QED
    BY <2>2, <2>3, <2>4 DEF Among, OwnOfRelief, EntriesIn
<1>6. S \cap V = {} /\ \A r \in S : f[r] = g[r]
  BY DEF StandingRelief, ReversedRelief, AmountOfRelief
<1>7. ReliefTotal(S) = Sum(g, S) \/ ~IsFiniteSet(S)
  BY ReliefTotalIsSum
<1>. HIDE DEF E, O, S, V, R, f, g
<1>8. Total(O) = Sum(f, R) /\ IsFiniteSet(R) /\ \A r \in R : f[r] \in Int
  <2>1. /\ O \in SUBSET ledger
        /\ \A e \in O : e.ref \in R /\ f[e.ref] = e.amount
        /\ \A a, e \in O : a.ref = e.ref => a = e
        /\ \A r \in R : \E e \in O : e.ref = r
    BY <1>2, <1>3, <1>4, <1>5
  <2>2. Total(O) = Sum(f, R)
    BY <1>1, <2>1, EntriesPairOff
  <2>3. IsFiniteSet(R)
    BY <1>1, <2>1, EntriesPairOff
  <2>4. \A r \in R : f[r] \in Int
    BY <1>1, <2>1, EntriesPairOff
  <2>. QED
    BY <2>2, <2>3, <2>4
<1>9. IsFiniteSet(S) /\ IsFiniteSet(V) /\ \A r \in S \cup V : f[r] \in Int
  BY <1>8, FS_Subset DEF R
<1>10. Sum(f, S \cup V) = Sum(f, S) + Sum(f, V)
  BY <1>6, <1>9, SumOfTwo
<1>11. Sum(f, S) \in Int /\ Sum(f, V) \in Int
  BY <1>9, SumIsInteger
<1>12. Sum(f, S) = Sum(g, S)
  BY <1>6, <1>9, SumSame
<1>13. /\ Total(O) = ReliefTotal(S) + Sum(f, V)
       /\ ReliefTotal(S) \in Int /\ Sum(f, V) \in Int
  BY <1>7, <1>8, <1>9, <1>10, <1>11, <1>12 DEF R
<1>. QED
  BY <1>13 DEF E, O, S, V, f, ReversedTotal

\* The entries of relief against its own direction: of relief that was reversed.
LEMMA ReversalsTotal ==
    ASSUME IInv, NEW s \in Students, NEW p \in Periods, NEW d \in Directions
    PROVE  LET E == Among(OwnOfRelief(EntriesIn(s, p)), d) IN
           Total({e \in E : reliefs[e.ref].direction # d}) = ReversedTotal(s, p, Opposite(d))
<1>. DEFINE E == Among(OwnOfRelief(EntriesIn(s, p)), d)
            O == {e \in E : reliefs[e.ref].direction # d}
            V == ReversedRelief(s, p, Opposite(d))
            f == AmountOfRelief
<1>1. Typed
  BY DEF IInv
<1>2. /\ O \in SUBSET ledger
      /\ \A e \in O : /\ e.ref \in ReliefIds /\ e \in ledger /\ e.type = d
                      /\ e.student = s /\ e.period = p
                      /\ reliefs[e.ref].direction # d
  BY DEF Among, OwnOfRelief, EntriesIn
<1>3. \A e \in O : e.ref \in V /\ f[e.ref] = e.amount
  <2>1. SUFFICES ASSUME NEW e \in O
                 PROVE  e.ref \in V /\ f[e.ref] = e.amount
    OBVIOUS
  <2>2. /\ reliefs[e.ref] \in Relief /\ reliefs[e.ref].status = "REVERSED"
        /\ e.amount = reliefs[e.ref].amount
        /\ reliefs[e.ref].student = s /\ reliefs[e.ref].period = p
    BY <1>2, EntryOfRelief
  <2>3. reliefs[e.ref].direction = Opposite(d)
    BY <1>2, <2>2 DEF Relief, Directions, Opposite
  <2>. QED
    BY <1>2, <2>2, <2>3 DEF AmountOfRelief, ReversedRelief
<1>4. \A a, e \in O : a.ref = e.ref => a = e
  BY <1>2, EntryOfRelief
<1>5. \A r \in V : \E e \in O : e.ref = r
  <2>1. SUFFICES ASSUME NEW r \in V
                 PROVE  \E e \in O : e.ref = r
    OBVIOUS
  <2>2. /\ r \in ReliefIds /\ reliefs[r].student = s /\ reliefs[r].period = p
        /\ reliefs[r].direction = Opposite(d) /\ reliefs[r].status = "REVERSED"
    BY DEF ReversedRelief
  <2>3. Opposite(Opposite(d)) = d /\ Opposite(d) # d
    BY DEF Opposite, Directions
  <2>4. PICK e \in ledger : e.ref = r /\ e.type = d
    BY <2>2, <2>3, ReliefHasEntries
  <2>5. e.student = s /\ e.period = p
    BY <2>2, <2>4, EntryOfRelief
  <2>. QED
    BY <2>2, <2>3, <2>4, <2>5 DEF Among, OwnOfRelief, EntriesIn
<1>. HIDE DEF E, O, V, f
<1>6. Total(O) = Sum(f, V)
  <2>1. O \in SUBSET ledger
    BY <1>2
  <2>. QED
    BY <1>1, <1>3, <1>4, <1>5, <2>1, EntriesPairOff
<1>. QED
  BY <1>6 DEF E, O, V, f, ReversedTotal

\* Of the entries of relief in one direction: what stands, and what was undone in
\* either direction.
LEMMA ReliefTotals ==
    ASSUME IInv, NEW s \in Students, NEW p \in Periods, NEW d \in Directions
    PROVE  /\ Total(Among(OwnOfRelief(EntriesIn(s, p)), d))
                = ReliefTotal(StandingRelief(s, p, d))
                    + ReversedTotal(s, p, d) + ReversedTotal(s, p, Opposite(d))
           /\ ReliefTotal(StandingRelief(s, p, d)) \in Int
           /\ ReversedTotal(s, p, d) \in Int
<1>. DEFINE E == Among(OwnOfRelief(EntriesIn(s, p)), d)
            A == {e \in E : reliefs[e.ref].direction = d}
            B == {e \in E : reliefs[e.ref].direction # d}
<1>1. E \in SUBSET ledger /\ A \in SUBSET E /\ E \ A = B /\ B \in SUBSET ledger
  BY DEF Among, OwnOfRelief, EntriesIn
<1>2. /\ Total(A) = ReliefTotal(StandingRelief(s, p, d)) + ReversedTotal(s, p, d)
      /\ ReliefTotal(StandingRelief(s, p, d)) \in Int
      /\ ReversedTotal(s, p, d) \in Int
  BY OpeningsTotal
<1>3. Total(B) = ReversedTotal(s, p, Opposite(d))
  BY ReversalsTotal
<1>. HIDE DEF E, A, B
<1>4. Total(E) = Total(A) + Total(E \ A)
  BY <1>1, TotalOfParts DEF IInv
<1>5. Total(E \ A) = Total(B) /\ Total(B) \in Int
  BY <1>1, TotalOfEntries DEF IInv
<1>6. Total(E) = ReliefTotal(StandingRelief(s, p, d))
                   + ReversedTotal(s, p, d) + ReversedTotal(s, p, Opposite(d))
  BY <1>2, <1>3, <1>4, <1>5
<1>. QED
  BY <1>2, <1>6 DEF E

-----------------------------------------------------------------------------
\* The entries of one direction are those of charges and those of relief.
LEMMA EntriesOfTwo ==
    ASSUME IInv, NEW s \in Students, NEW p \in Periods, NEW d \in Directions
    PROVE  TotalOf(EntriesIn(s, p), d)
             = Total(Among(OwnOfCharges(EntriesIn(s, p)), d))
                 + Total(Among(OwnOfRelief(EntriesIn(s, p)), d))
<1>. DEFINE E == {e \in EntriesIn(s, p) : e.type = d}
            A == Among(OwnOfCharges(EntriesIn(s, p)), d)
            B == Among(OwnOfRelief(EntriesIn(s, p)), d)
<1>1. E \in SUBSET ledger /\ A \in SUBSET E
  BY DEF EntriesIn, Among, OwnOfCharges
<1>2. E \ A = B
  <2>1. \A e \in E : e.ref \in ReliefIds <=> e.ref \notin ChargeIds
    BY <1>1, SourceTells, LedgerAssumption
  <2>. QED
    BY <2>1 DEF EntriesIn, Among, OwnOfCharges, OwnOfRelief
<1>3. TotalOf(EntriesIn(s, p), d) = Total(E)
  BY DEF TotalOf
<1>. HIDE DEF E, A, B
<1>4. Total(E) = Total(A) + Total(E \ A)
  BY <1>1, TotalOfParts DEF IInv
<1>5. Total(E \ A) = Total(B)
  BY <1>2
<1>6. TotalOf(EntriesIn(s, p), d) = Total(A) + Total(B)
  BY <1>3, <1>4, <1>5
<1>. QED
  BY <1>6 DEF A, B

\* One balance: what was charged is what stands, and what is owed is that, with the
\* surcharges that stand and without the credits that do.
LEMMA BalanceOf ==
    ASSUME IInv, NEW s \in Students, NEW p \in Periods
    PROVE  LET position == PositionOf(s, p) IN
           /\ position.totalCharged = ChargeTotal(StandingCharges(s, p))
           /\ position.outstanding - position.creditBalance =
                  ChargeTotal(StandingCharges(s, p))
                + ReliefTotal(StandingRelief(s, p, "DEBIT"))
                - ReliefTotal(StandingRelief(s, p, "CREDIT"))
           /\ position.outstanding = 0 \/ position.creditBalance = 0
<1>. DEFINE E == EntriesIn(s, p)
            net == TotalOf(E, "DEBIT") - TotalOf(E, "CREDIT")
            C == OwnOfCharges(E)
            X == OwnOfRelief(E)
            owed == ChargeTotal(StandingCharges(s, p))
            debit == ReliefTotal(StandingRelief(s, p, "DEBIT"))
            credit == ReliefTotal(StandingRelief(s, p, "CREDIT"))
            v == ReversedTotal(s, p, "DEBIT")
            w == ReversedTotal(s, p, "CREDIT")
<1>1. /\ PositionOf(s, p).totalCharged
           = Total({e \in E : e.type = "DEBIT" /\ e.source \in {"CHARGE"}})
               - Total({e \in E : e.type = "CREDIT" /\ e.source \in {"CHARGE"}})
      /\ PositionOf(s, p).outstanding = ClampToZero(net)
      /\ PositionOf(s, p).creditBalance = ClampToZero(-net)
  BY DEF PositionOf, NetPosition, EntriesIn
<1>2. ASSUME NEW d \in Directions
      PROVE  Total({e \in E : e.type = d /\ e.source \in {"CHARGE"}}) = Total(Among(C, d))
  <2>1. \A e \in E : e.source \in {"CHARGE"} <=> e.ref \in ChargeIds
    BY SourceTells DEF EntriesIn
  <2>2. {e \in E : e.type = d /\ e.source \in {"CHARGE"}} = Among(C, d)
    BY <2>1 DEF Among, OwnOfCharges
  <2>. QED
    BY <2>2
<1>3. "DEBIT" \in Directions /\ "CREDIT" \in Directions
      /\ Opposite("DEBIT") = "CREDIT" /\ Opposite("CREDIT") = "DEBIT"
  BY DEF Directions, Opposite
<1>4. Total(Among(C, "DEBIT")) - Total(Among(C, "CREDIT")) = owed
  BY ChargesNetOut
<1>5. /\ Total(Among(C, "DEBIT")) \in Int /\ Total(Among(C, "CREDIT")) \in Int
  BY TotalOfEntries DEF Among, OwnOfCharges, EntriesIn, IInv
<1>. HIDE DEF E, C, X, owed, debit, credit, v, w
<1>6. PositionOf(s, p).totalCharged = owed
  BY <1>1, <1>2, <1>3, <1>4
<1>7. /\ Total(Among(X, "DEBIT")) = debit + v + w
      /\ Total(Among(X, "CREDIT")) = credit + w + v
      /\ debit \in Int /\ credit \in Int /\ v \in Int /\ w \in Int
  BY <1>3, ReliefTotals DEF X, E, debit, credit, v, w
<1>8. /\ TotalOf(E, "DEBIT") = Total(Among(C, "DEBIT")) + Total(Among(X, "DEBIT"))
      /\ TotalOf(E, "CREDIT") = Total(Among(C, "CREDIT")) + Total(Among(X, "CREDIT"))
  BY <1>3, EntriesOfTwo DEF E, C, X
<1>9. net = owed + debit - credit /\ net \in Int
  BY <1>4, <1>5, <1>7, <1>8
<1>. HIDE DEF net
<1>10. /\ ClampToZero(net) - ClampToZero(-net) = net
       /\ ClampToZero(net) = 0 \/ ClampToZero(-net) = 0
  BY <1>9 DEF ClampToZero
<1>. QED
  BY <1>1, <1>6, <1>9, <1>10 DEF owed, debit, credit

\* In every history the balance shown of every student and period is explained by the
\* records that stand, whatever was voided and reversed on the way
\* (balance.service.ts:50-66).
THEOREM BalanceExplained == Spec => []BalanceIsExplained
<1>1. IInv => BalanceIsExplained
  BY BalanceOf DEF BalanceIsExplained
<1>. QED
  BY <1>1, InvariantHolds, PTL

-----------------------------------------------------------------------------
(* Requests served one at a time: what a charge bears.                         *)

\* What has been taken off a charge, on balance.
AppliedNet(c) ==
    TotalOf(AppliedTo(ledger, c), "CREDIT") - TotalOf(AppliedTo(ledger, c), "DEBIT")

\* Nothing points at a charge that was never raised.
PointsAtRaised ==
    /\ \A r \in ReliefIds :
         reliefs[r].status # "ABSENT" /\ reliefs[r].charge # None =>
             charges[reliefs[r].charge].status # "ABSENT"
    /\ \A e \in ledger : e.charge # None => charges[e.charge].status # "ABSENT"

WithinWorth ==
    /\ \A c \in ChargeIds :
         charges[c].status # "ABSENT" => AppliedNet(c) <= charges[c].amount
    /\ \A c \in ChargeIds : charges[c].status = "VOID" => AppliedNet(c) <= 0

\* What the request in hand has read still holds when it writes.
ReadsHold ==
    \A w \in Workers :
        /\ task[w].op = "void" => AppliedNet(task[w].charge) <= 0
        /\ task[w].op = "decide" /\ task[w].approve =>
             LET relief == reliefs[task[w].relief] IN
             /\ relief.charge # None => charges[relief.charge].status # "VOID"
             /\ task[w].step = "commit" =>
                  FitsCharge(relief.direction, relief.amount, relief.charge)

OneAtATime == \A v, w \in Workers : v = w

Borne == PointsAtRaised /\ WithinWorth /\ ReadsHold

\* The sums over the entries of a charge are numbers.
LEMMA AppliedNetIsInt ==
    ASSUME Typed, NEW c
    PROVE  AppliedNet(c) \in Int
<1>1. \A d : {e \in AppliedTo(ledger, c) : e.type = d} \in SUBSET ledger
  BY DEF AppliedTo
<1>2. \A d : TotalOf(AppliedTo(ledger, c), d) \in Int
  BY <1>1, TotalOfEntries DEF TotalOf
<1>. QED
  BY <1>2 DEF AppliedNet

\* An entry of another charge, of none, or of the charge itself takes nothing off it.
LEMMA AppliedUntouched ==
    ASSUME NEW c, NEW e, ledger' = ledger \cup {e}, e.charge # c \/ e.source = "CHARGE"
    PROVE  AppliedTo(ledger, c)' = AppliedTo(ledger, c)
  BY DEF AppliedTo

\* Reversing takes nothing off a charge: the reversal of relief points at none.
LEMMA AppliedAfterReversal ==
    ASSUME NEW x, ReverseEntryFor(x), NEW c \in ChargeIds
    PROVE  AppliedTo(ledger, c)' = AppliedTo(ledger, c)
<1>1. CASE UNCHANGED ledger
  BY <1>1
<1>2. ASSUME NEW e \in LiveOpenings(x), ledger' = ledger \cup {ReversalOf(e)}
      PROVE  AppliedTo(ledger, c)' = AppliedTo(ledger, c)
  <2>1. ReversalOf(e).charge # c \/ ReversalOf(e).source = "CHARGE"
    BY LedgerAssumption DEF ReversalOf
  <2>. QED
    BY <1>2, <2>1, AppliedUntouched
<1>. QED
  BY <1>1, <1>2 DEF ReverseEntryFor

\* One more entry adds its amount.
LEMMA TotalAdd ==
    ASSUME NEW A \in SUBSET Entry, IsFiniteSet(A), NEW e \in Entry, e \notin A
    PROVE  Total(A \cup {e}) = Total(A) + e.amount
<1>. DEFINE f == [x \in A \cup {e} |-> x.amount]
            g == [x \in A |-> x.amount]
<1>1. /\ IsFiniteSet(A \cup {e})
      /\ \A x \in A : g[x] \in Int /\ f[x] = g[x] /\ f[x] \in Int
      /\ f[e] \in Int /\ f[e] = e.amount
  BY FS_AddElement DEF Entry, Positive
<1>2. Total(A \cup {e}) = Sum(f, A \cup {e}) /\ Total(A) = Sum(g, A)
  BY <1>1, TotalIsSum
<1>. HIDE DEF f, g
<1>3. Sum(f, A \cup {e}) = Sum(f, A) + f[e]
  BY <1>1, SumAdd
<1>4. Sum(g, A) = Sum(f, A)
  BY <1>1, SumSame
<1>. QED
  BY <1>1, <1>2, <1>3, <1>4

\* A new entry of relief takes off what it credits, and gives back what it debits.
LEMMA AppliedAfterPost ==
    ASSUME Typed, NEW c, NEW e \in Entry, e \notin ledger, ledger' = ledger \cup {e},
           e.charge = c, e.source # "CHARGE"
    PROVE  AppliedNet(c)' = AppliedNet(c) + (IF e.type = "CREDIT" THEN e.amount ELSE -e.amount)
<1>. DEFINE A == {x \in AppliedTo(ledger, c) : x.type = "CREDIT"}
            B == {x \in AppliedTo(ledger, c) : x.type = "DEBIT"}
            A2 == {x \in AppliedTo(ledger', c) : x.type = "CREDIT"}
            B2 == {x \in AppliedTo(ledger', c) : x.type = "DEBIT"}
<1>1. /\ A \in SUBSET Entry /\ IsFiniteSet(A) /\ e \notin A
      /\ B \in SUBSET Entry /\ IsFiniteSet(B) /\ e \notin B
  BY FS_Subset DEF Typed, TypeOK, FiniteLedger, AppliedTo
<1>2. Total(A) \in Int /\ Total(B) \in Int /\ e.amount \in Int
  BY TotalOfEntries DEF AppliedTo, Entry, Positive
<1>3. AppliedNet(c) = Total(A) - Total(B) /\ AppliedNet(c)' = Total(A2) - Total(B2)
  BY DEF AppliedNet, TotalOf
<1>4. CASE e.type = "CREDIT"
  <2>1. A2 = A \cup {e} /\ B2 = B
    BY <1>4 DEF AppliedTo
  <2>. HIDE DEF A, B, A2, B2
  <2>2. Total(A \cup {e}) = Total(A) + e.amount
    BY <1>1, TotalAdd
  <2>3. Total(A2) = Total(A \cup {e}) /\ Total(B2) = Total(B)
    BY <2>1
  <2>. QED
    BY <1>2, <1>3, <1>4, <2>2, <2>3
<1>5. CASE e.type = "DEBIT"
  <2>1. A2 = A /\ B2 = B \cup {e}
    BY <1>5 DEF AppliedTo
  <2>. HIDE DEF A, B, A2, B2
  <2>2. Total(B \cup {e}) = Total(B) + e.amount
    BY <1>1, TotalAdd
  <2>3. Total(B2) = Total(B \cup {e}) /\ Total(A2) = Total(A)
    BY <2>1
  <2>. QED
    BY <1>2, <1>3, <1>5, <2>2, <2>3
<1>. QED
  BY <1>4, <1>5 DEF Entry, Directions

\* Relief that fits takes a charge at most to nothing.
LEMMA FittingRelief ==
    ASSUME Typed, NEW c \in ChargeIds, charges[c] \in Charge, NEW amount \in Positive,
           FitsCharge("CREDIT", amount, c)
    PROVE  AppliedNet(c) + amount <= charges[c].amount
<1>1. AppliedNet(c) \in Int /\ charges[c].amount \in Int /\ amount \in Int /\ amount > 0
  BY AppliedNetIsInt DEF Charge, Positive
<1>2. amount <= ClampToZero(charges[c].amount - ClampToZero(AppliedNet(c)))
  BY LedgerAssumption DEF FitsCharge, RemainingValue, Adjusted, AppliedNet
<1>. QED
  BY <1>1, <1>2 DEF ClampToZero

\* A step that leaves the entries of every charge alone leaves what is taken off alone.
LEMMA NetKept ==
    ASSUME NEW c, AppliedTo(ledger, c)' = AppliedTo(ledger, c)
    PROVE  AppliedNet(c)' = AppliedNet(c) /\ Adjusted(ledger, c)' = Adjusted(ledger, c)
  BY DEF AppliedNet, Adjusted, TotalOf

\* With one request in hand, the end of it leaves none.
LEMMA NobodyLeft ==
    ASSUME Typed, OneAtATime, NEW w \in Workers, task' = [task EXCEPT ![w] = Idle]
    PROVE  ReadsHold'
<1>1. \A v \in Workers : task'[v] = Idle
  BY DEF OneAtATime, Typed, TypeOK
<1>. QED
  BY <1>1 DEF ReadsHold, Idle

\* Nothing is relieved at first; then one lemma for each action.
LEMMA BorneInit == Init => Borne
<1>. SUFFICES ASSUME Init
              PROVE  Borne
  OBVIOUS
<1>1. PointsAtRaised
  BY DEF Init, PointsAtRaised, Absent
<1>2. WithinWorth
  BY DEF Init, WithinWorth, Absent
<1>3. ReadsHold
  BY DEF Init, ReadsHold, Idle
<1>. QED
  BY <1>1, <1>2, <1>3 DEF Borne

\* Between the records and the ledger, nothing happened.
LEMMA BorneUntouched ==
    ASSUME Borne, UNCHANGED <<charges, reliefs, ledger>>, ReadsHold'
    PROVE  Borne'
  BY DEF Borne, PointsAtRaised, WithinWorth, AppliedNet

LEMMA RaiseChargeBorne ==
    ASSUME IInv, Borne, NEW c \in ChargeIds, RaiseCharge(c)
    PROVE  Borne'
<1>1. PICK s \in Students, p \in Periods, a \in Amounts :
        LET charge == [status |-> "RAISED", student |-> s, period |-> p,
                       amount |-> a, version |-> 0]
        IN  /\ charges' = [charges EXCEPT ![c] = charge]
            /\ PostEntry(c, "CHARGE", "DEBIT", c, charge)
  BY DEF RaiseCharge
<1>. DEFINE charge == [status |-> "RAISED", student |-> s, period |-> p,
                       amount |-> a, version |-> 0]
            e == [id |-> NewEntryId(c), ref |-> c, source |-> "CHARGE", type |-> "DEBIT",
                  amount |-> a, student |-> s, period |-> p, charge |-> c,
                  reversalOf |-> None]
<1>2. /\ charges[c] = Absent /\ UNCHANGED <<reliefs, task>>
      /\ charges'[c] = charge /\ \A b \in ChargeIds \ {c} : charges'[b] = charges[b]
      /\ charge.status = "RAISED" /\ charge.amount = a
  BY <1>1 DEF RaiseCharge, IInv, Typed, TypeOK
<1>3. ledger' = ledger \cup {e} /\ e.source = "CHARGE" /\ e.charge = c
  BY <1>1 DEF PostEntry
<1>4. a \in Nat
  BY LedgerAssumption
<1>. HIDE DEF charge, e
<1>5. \A b \in ChargeIds : /\ AppliedNet(b)' = AppliedNet(b)
                           /\ Adjusted(ledger, b)' = Adjusted(ledger, b)
  BY <1>3, AppliedUntouched, NetKept
<1>6. PointsAtRaised'
  <2>1. \A r \in ReliefIds : reliefs[r].status # "ABSENT" => reliefs[r].charge \in ChargeIds \cup {None}
    BY Present DEF IInv, Typed, Relief
  <2>2. \A x \in ledger : x.charge \in ChargeIds \cup {None}
    BY DEF IInv, Typed, TypeOK, Entry
  <2>. QED
    BY <1>2, <1>3, <2>1, <2>2 DEF Borne, PointsAtRaised
<1>7. AppliedNet(c) <= 0
  <2>1. AppliedTo(ledger, c) = {}
    BY <1>2, LedgerAssumption DEF Borne, PointsAtRaised, AppliedTo, Absent
  <2>2. TotalOf(AppliedTo(ledger, c), "CREDIT") = Total({}) /\ TotalOf(AppliedTo(ledger, c), "DEBIT") = Total({})
    <3>1. \A d : {x \in AppliedTo(ledger, c) : x.type = d} = {}
      BY <2>1
    <3>. QED
      BY <3>1 DEF TotalOf
  <2>3. Total({}) \in Int
    BY TotalOfEntries DEF IInv
  <2>. QED
    BY <2>2, <2>3 DEF AppliedNet
<1>8. WithinWorth'
  <2>1. AppliedNet(c) \in Int
    BY AppliedNetIsInt DEF IInv
  <2>. QED
    BY <1>2, <1>4, <1>5, <1>7, <2>1 DEF Borne, WithinWorth
<1>9. ReadsHold'
  <2>1. \A w \in Workers : task[w].op = "void" => task[w].charge \in ChargeIds
    BY DEF IInv, Typed, TypeOK, Task, Idle
  <2>2. ASSUME NEW w \in Workers, task[w].op = "decide", task[w].approve,
               reliefs[task[w].relief].charge # None
        PROVE  LET b == reliefs[task[w].relief].charge IN
               /\ b \in ChargeIds /\ b # c
               /\ charges'[b] = charges[b]
               /\ Adjusted(ledger, b)' = Adjusted(ledger, b)
    <3>1. task[w].relief \in ReliefIds
      BY <2>2, DecideTask DEF IInv, Typed
    <3>2. reliefs[task[w].relief].status # "ABSENT"
      BY <2>2 DEF IInv, DecisionsInFlight
    <3>3. reliefs[task[w].relief].charge \in ChargeIds
      BY <2>2, <3>1, <3>2, Present DEF IInv, Typed, Relief
    <3>4. reliefs[task[w].relief].charge # c
      BY <1>2, <2>2, <3>1, <3>2 DEF Borne, PointsAtRaised, Absent
    <3>. QED
      BY <1>2, <1>5, <3>3, <3>4
  <2>. QED
    BY <1>2, <1>5, <2>1, <2>2 DEF Borne, ReadsHold, FitsCharge, RemainingValue
<1>. QED
  BY <1>6, <1>8, <1>9 DEF Borne

LEMMA VoidLoadBorne ==
    ASSUME IInv, Borne, OneAtATime, NEW w \in Workers, NEW c \in ChargeIds, VoidLoad(w, c)
    PROVE  Borne'
<1>1. AppliedNet(c) \in Int
  BY AppliedNetIsInt DEF IInv
<1>2. AppliedNet(c) <= 0
  BY <1>1 DEF VoidLoad, CarriesNoRelief, Adjusted, AppliedNet, ClampToZero
<1>3. \A v \in Workers : task'[v].op = "void" /\ task'[v].charge = c
  BY DEF VoidLoad, OneAtATime, IInv, Typed, TypeOK
<1>4. AppliedNet(c)' = AppliedNet(c)
  BY NetKept DEF VoidLoad
<1>5. ReadsHold'
  BY <1>2, <1>3, <1>4 DEF ReadsHold
<1>. QED
  BY <1>5, BorneUntouched DEF VoidLoad

LEMMA VoidCommitBorne ==
    ASSUME IInv, Borne, OneAtATime, NEW w \in Workers, VoidCommit(w)
    PROVE  Borne'
<1>. DEFINE c == task[w].charge
<1>1. c \in ChargeIds /\ charges[c].status = "RAISED" /\ UNCHANGED reliefs
  BY DEF IInv, Typed, TypeOK, VoidCommit, Task, Idle, Matches
<1>2. charges[c] \in Charge
  BY <1>1, Present DEF IInv, Typed
<1>3. /\ charges'[c].status = "VOID" /\ charges'[c].amount = charges[c].amount
      /\ \A b \in ChargeIds \ {c} : charges'[b] = charges[b]
  BY <1>1, <1>2 DEF VoidCommit, IInv, Typed, TypeOK, Charge
<1>4. \A b \in ChargeIds : AppliedNet(b)' = AppliedNet(b)
  BY AppliedAfterReversal, NetKept DEF VoidCommit
<1>5. AppliedNet(c) <= 0
  BY DEF Borne, ReadsHold, VoidCommit
<1>6. WithinWorth'
  BY <1>1, <1>3, <1>4, <1>5 DEF Borne, WithinWorth
<1>7. PointsAtRaised'
  <2>1. \A b : b \in ChargeIds /\ charges[b].status # "ABSENT" => charges'[b].status # "ABSENT"
    BY <1>3
  <2>2. \A e \in ledger' : e.charge # None => charges[e.charge].status # "ABSENT"
    BY DEF VoidCommit, ReverseEntryFor, LiveOpenings, EntriesOf, ReversalOf, Borne, PointsAtRaised
  <2>3. \A e \in ledger' : e.charge \in ChargeIds \cup {None}
    BY VoidCommitTyped DEF IInv, Typed, TypeOK, Entry
  <2>4. \A r \in ReliefIds : reliefs[r].status # "ABSENT" => reliefs[r].charge \in ChargeIds \cup {None}
    BY Present DEF IInv, Typed, Relief
  <2>. QED
    BY <1>1, <2>1, <2>2, <2>3, <2>4 DEF Borne, PointsAtRaised
<1>8. ReadsHold'
  BY NobodyLeft DEF VoidCommit, IInv
<1>. QED
  BY <1>6, <1>7, <1>8 DEF Borne

LEMMA DecideLoadBorne ==
    ASSUME IInv, Borne, OneAtATime, NEW w \in Workers, NEW u \in Users, NEW r \in ReliefIds,
           NEW approve \in BOOLEAN, DecideLoad(w, u, r, approve)
    PROVE  Borne'
<1>1. \A v \in Workers :
        /\ task'[v].op = "decide" /\ task'[v].relief = r /\ task'[v].approve = approve
        /\ task'[v].step = IF approve /\ reliefs[r].charge # None THEN "fits" ELSE "commit"
  BY DEF DecideLoad, OneAtATime, IInv, Typed, TypeOK
<1>2. /\ UNCHANGED <<charges, reliefs, ledger>>
      /\ approve /\ reliefs[r].charge # None => charges[reliefs[r].charge].status # "VOID"
  BY DEF DecideLoad
<1>3. ReadsHold'
  BY <1>1, <1>2 DEF ReadsHold, FitsCharge
<1>. QED
  BY <1>2, <1>3, BorneUntouched

LEMMA DecideFitsBorne ==
    ASSUME IInv, Borne, OneAtATime, NEW w \in Workers, DecideFits(w)
    PROVE  Borne'
<1>. DEFINE r == task[w].relief
<1>1. \A v \in Workers :
        v = w /\ task'[v].op = "decide" /\ task'[v].relief = r
              /\ task'[v].approve = task[w].approve
  BY DEF DecideFits, OneAtATime, IInv, Typed, TypeOK, Task, Idle
<1>2. /\ UNCHANGED <<charges, reliefs, ledger>>
      /\ FitsCharge(reliefs[r].direction, reliefs[r].amount, reliefs[r].charge)
      /\ task[w].op = "decide"
  BY DEF DecideFits
<1>3. task[w].approve /\ reliefs[r].charge # None => charges[reliefs[r].charge].status # "VOID"
  BY <1>2 DEF Borne, ReadsHold
<1>4. FitsCharge(reliefs[r].direction, reliefs[r].amount, reliefs[r].charge)'
  BY <1>1, <1>2 DEF FitsCharge, RemainingValue, Adjusted
<1>. HIDE DEF r
<1>5. ReadsHold'
  BY <1>1, <1>2, <1>3, <1>4 DEF ReadsHold, FitsCharge, r
<1>. QED
  BY <1>2, <1>5, BorneUntouched

\* A decision posts what still fits: the one step that takes anything off a charge.
LEMMA DecideCommitBorne ==
    ASSUME IInv, IInv', Borne, OneAtATime, NEW w \in Workers, DecideCommit(w)
    PROVE  Borne'
<1>0. PICK r \in ReliefIds : r = task[w].relief
  BY DecideTask DEF DecideCommit, IInv
<1>. DEFINE relief == reliefs[r]
<1>c. PICK c : c = relief.charge
  OBVIOUS
<1>. DEFINE e == [id |-> NewEntryId(r), ref |-> r, source |-> relief.kind,
                  type |-> relief.direction, amount |-> relief.amount,
                  student |-> relief.student, period |-> relief.period,
                  charge |-> c, reversalOf |-> None]
<1>1. relief \in Relief /\ relief.status = "PENDING_APPROVAL"
  BY <1>0, Present DEF DecideCommit, Matches, IInv, Typed
<1>2. /\ UNCHANGED charges
      /\ \A q \in ReliefIds \ {r} : reliefs'[q] = reliefs[q]
      /\ reliefs'[r].charge = c
  BY <1>0, <1>c, <1>1 DEF DecideCommit, IInv, Typed, TypeOK, Relief
<1>3. ReadsHold'
  BY NobodyLeft DEF DecideCommit, IInv
<1>4. c # None => c \in ChargeIds /\ charges[c] \in Charge
  BY <1>c, <1>1, Present DEF Relief, Borne, PointsAtRaised, IInv, Typed
<1>5. CASE ~task[w].approve
  <2>1. UNCHANGED ledger
    BY <1>5 DEF DecideCommit
  <2>2. \A b : AppliedNet(b)' = AppliedNet(b)
    BY <2>1, NetKept
  <2>3. WithinWorth'
    BY <1>2, <2>2 DEF Borne, WithinWorth
  <2>4. PointsAtRaised'
    BY <1>c, <1>1, <1>2, <2>1 DEF Borne, PointsAtRaised
  <2>. QED
    BY <1>3, <2>3, <2>4 DEF Borne
<1>6. CASE task[w].approve
  <2>1. ledger' = ledger \cup {e} /\ e.charge = c /\ e.source # "CHARGE" /\ e.ref = r
    <3>1. PostEntry(r, relief.kind, relief.direction, relief.charge, relief)
      BY <1>0, <1>6 DEF DecideCommit
    <3>2. ledger' = ledger \cup {e}
      BY <3>1, <1>c DEF PostEntry
    <3>3. relief.kind # "CHARGE"
      <4>1. relief.kind \in Kinds
        BY <1>1 DEF Relief
      <4>. HIDE DEF relief
      <4>. QED
        BY <4>1, LedgerAssumption DEF ReliefKinds
    <3>4. e.charge = c /\ e.source = relief.kind /\ e.ref = r
      OBVIOUS
    <3>. HIDE DEF e, relief
    <3>. QED
      BY <3>2, <3>3, <3>4
  <2>2. e \in Entry
    <3>. HIDE DEF e
    <3>. QED
      BY <2>1 DEF IInv, Typed, TypeOK
  <2>3. e \notin ledger
    <3>. HIDE DEF e
    <3>. QED
      BY <1>1, <2>1 DEF IInv, LedgerMatchesRecords, ReliefBooked, EntriesOf
  <2>4. PointsAtRaised'
    <3>1. c # None => charges[c].status # "ABSENT"
      BY <1>4 DEF Charge
    <3>. HIDE DEF e
    <3>. QED
      BY <1>1, <1>2, <2>1, <3>1 DEF Borne, PointsAtRaised
  <2>5. \A b \in ChargeIds : b # c => AppliedNet(b)' = AppliedNet(b)
    <3>. HIDE DEF e
    <3>. QED
      BY <2>1, AppliedUntouched, NetKept
  <2>6. CASE c = None
    <3>1. \A b \in ChargeIds : AppliedNet(b)' = AppliedNet(b)
      BY <2>5, <2>6, LedgerAssumption
    <3>. QED
      BY <1>2, <1>3, <2>4, <3>1 DEF Borne, WithinWorth
  <2>7. CASE c # None
    <3>1. c \in ChargeIds /\ charges[c] \in Charge /\ charges[c].status = "RAISED"
      BY <1>0, <1>c, <1>4, <1>6, <2>7 DEF Borne, ReadsHold, DecideCommit, Charge
    <3>2. FitsCharge(relief.direction, relief.amount, c)
      BY <1>0, <1>c, <1>6 DEF Borne, ReadsHold, DecideCommit
    <3>3. /\ e.amount = relief.amount /\ e.type = relief.direction
          /\ relief.amount \in Positive /\ relief.direction \in Directions
      BY <1>1 DEF Relief
    <3>. HIDE DEF e
    <3>4. AppliedNet(c)' = AppliedNet(c) + (IF e.type = "CREDIT" THEN e.amount ELSE -e.amount)
      BY <2>1, <2>2, <2>3, AppliedAfterPost DEF IInv
    <3>5. AppliedNet(c) \in Int /\ charges[c].amount \in Int
      BY <3>1, AppliedNetIsInt DEF IInv, Charge, Positive
    <3>6. AppliedNet(c) <= charges[c].amount
      BY <3>1 DEF Borne, WithinWorth
    <3>7. AppliedNet(c)' <= charges[c].amount
      <4>1. CASE relief.direction = "CREDIT"
        <5>1. AppliedNet(c) + relief.amount <= charges[c].amount
          BY <3>1, <3>2, <3>3, <4>1, FittingRelief DEF IInv
        <5>. QED
          BY <3>3, <3>4, <4>1, <5>1
      <4>2. CASE relief.direction # "CREDIT"
        BY <3>3, <3>4, <3>5, <3>6, <4>2 DEF Positive
      <4>. QED
        BY <4>1, <4>2
    <3>8. WithinWorth'
      BY <1>2, <2>5, <3>1, <3>7 DEF Borne, WithinWorth
    <3>. QED
      BY <1>3, <2>4, <3>8 DEF Borne
  <2>. QED
    BY <2>6, <2>7
<1>. QED
  BY <1>5, <1>6

\* Asking, withdrawing and reversing relief take nothing off any charge.
LEMMA ReliefMovesBorne ==
    ASSUME IInv, Borne, RequestsKept, UNCHANGED <<charges, task>>,
           \A b \in ChargeIds : AppliedTo(ledger, b)' = AppliedTo(ledger, b),
           PointsAtRaised'
    PROVE  Borne'
<1>1. \A b \in ChargeIds : AppliedNet(b)' = AppliedNet(b) /\ Adjusted(ledger, b)' = Adjusted(ledger, b)
  BY NetKept
<1>2. WithinWorth'
  BY <1>1 DEF Borne, WithinWorth
<1>3. \A w \in Workers : task[w].op = "void" => task[w].charge \in ChargeIds
  BY DEF IInv, Typed, TypeOK, Task, Idle
<1>4. ASSUME NEW w \in Workers, task[w].op = "decide"
      PROVE  LET r == task[w].relief IN
             /\ reliefs[r].charge \in ChargeIds \cup {None}
             /\ reliefs'[r].charge = reliefs[r].charge
             /\ reliefs'[r].amount = reliefs[r].amount
             /\ reliefs'[r].direction = reliefs[r].direction
  <2>1. task[w].relief \in ReliefIds
    BY <1>4, DecideTask DEF IInv, Typed
  <2>2. reliefs[task[w].relief].status # "ABSENT"
    BY <1>4 DEF IInv, DecisionsInFlight
  <2>3. reliefs[task[w].relief] \in Relief /\ reliefs[task[w].relief] # Absent
    BY <2>1, <2>2, Present DEF IInv, Typed
  <2>. QED
    BY <2>1, <2>3 DEF Relief, RequestsKept
<1>5. ReadsHold'
  <2>1. ReadsHold
    BY DEF Borne
  <2>2. \A direction, amount : \A b \in ChargeIds \cup {None} :
          FitsCharge(direction, amount, b) => FitsCharge(direction, amount, b)'
    BY <1>1 DEF FitsCharge, RemainingValue
  <2>. QED
    BY <1>1, <1>3, <1>4, <2>1, <2>2 DEF ReadsHold
<1>. QED
  BY <1>2, <1>5 DEF Borne

LEMMA RequestReliefBorne ==
    ASSUME IInv, Borne, NEW u \in Users, NEW r \in ReliefIds, RequestRelief(u, r)
    PROVE  Borne'
<1>1. RequestsKept
  BY RequestReliefHistory DEF History
<1>2. UNCHANGED <<charges, ledger, task>>
  BY DEF RequestRelief
<1>3. PICK record : /\ reliefs' = [reliefs EXCEPT ![r] = record]
                    /\ record.charge # None => charges[record.charge].status = "RAISED"
  <2>1. PICK s \in Students, p \in Periods, c \in ChargeIds \cup {None},
             k \in Kinds, d \in Directions :
          /\ k # "ADJUSTMENT" => d = "CREDIT"
          /\ c # None => /\ charges[c].status = "RAISED"
                         /\ charges[c].student = s
                         /\ charges[c].period = p
          /\ \E a \in RequestableAmounts(c) :
               /\ a \in Positive
               /\ FitsCharge(d, a, c)
               /\ reliefs' = [reliefs EXCEPT ![r] =
                    [status |-> "PENDING_APPROVAL", kind |-> k, direction |-> d,
                     student |-> s, period |-> p, charge |-> c, amount |-> a,
                     requestedBy |-> u, decidedBy |-> None, version |-> 0]]
    BY Zenon DEF RequestRelief
  <2>2. PICK a : reliefs' = [reliefs EXCEPT ![r] =
                    [status |-> "PENDING_APPROVAL", kind |-> k, direction |-> d,
                     student |-> s, period |-> p, charge |-> c, amount |-> a,
                     requestedBy |-> u, decidedBy |-> None, version |-> 0]]
    BY <2>1
  <2>. DEFINE record == [status |-> "PENDING_APPROVAL", kind |-> k, direction |-> d,
                         student |-> s, period |-> p, charge |-> c, amount |-> a,
                         requestedBy |-> u, decidedBy |-> None, version |-> 0]
  <2>3. record.charge = c /\ reliefs' = [reliefs EXCEPT ![r] = record]
    BY <2>2
  <2>. HIDE DEF record
  <2>. QED
    BY <2>1, <2>3
<1>4. reliefs'[r] = record /\ \A q \in ReliefIds \ {r} : reliefs'[q] = reliefs[q]
  BY <1>3 DEF IInv, Typed, TypeOK
<1>5. PointsAtRaised'
  BY <1>2, <1>3, <1>4 DEF Borne, PointsAtRaised
<1>6. \A b \in ChargeIds : AppliedTo(ledger, b)' = AppliedTo(ledger, b)
  BY <1>2
<1>. QED
  BY <1>1, <1>2, <1>5, <1>6, ReliefMovesBorne

LEMMA CancelReliefBorne ==
    ASSUME IInv, Borne, NEW u \in Users, NEW r \in ReliefIds, CancelRelief(u, r)
    PROVE  Borne'
<1>1. RequestsKept
  BY CancelReliefHistory DEF History
<1>2. UNCHANGED <<charges, ledger, task>>
  BY DEF CancelRelief
<1>3. reliefs[r] \in Relief
  BY Present DEF CancelRelief, IInv, Typed
<1>4. \A q \in ReliefIds : reliefs'[q].status # "ABSENT" =>
        reliefs[q].status # "ABSENT" /\ reliefs'[q].charge = reliefs[q].charge
  BY <1>3 DEF CancelRelief, IInv, Typed, TypeOK, Relief
<1>5. PointsAtRaised'
  BY <1>2, <1>4 DEF Borne, PointsAtRaised
<1>6. \A b \in ChargeIds : AppliedTo(ledger, b)' = AppliedTo(ledger, b)
  BY <1>2
<1>. QED
  BY <1>1, <1>2, <1>5, <1>6, ReliefMovesBorne

LEMMA ReverseReliefBorne ==
    ASSUME IInv, Borne, NEW r \in ReliefIds, ReverseRelief(r)
    PROVE  Borne'
<1>1. RequestsKept
  BY ReverseReliefHistory DEF History
<1>2. UNCHANGED <<charges, task>> /\ ReverseEntryFor(r)
  BY DEF ReverseRelief
<1>3. reliefs[r] \in Relief
  BY Present DEF ReverseRelief, IInv, Typed
<1>4. \A q \in ReliefIds : reliefs'[q].status # "ABSENT" =>
        reliefs[q].status # "ABSENT" /\ reliefs'[q].charge = reliefs[q].charge
  BY <1>3 DEF ReverseRelief, IInv, Typed, TypeOK, Relief
<1>5. \A e \in ledger' : e.charge # None => charges[e.charge].status # "ABSENT"
  BY <1>2 DEF ReverseEntryFor, LiveOpenings, EntriesOf, ReversalOf, Borne, PointsAtRaised
<1>6. PointsAtRaised'
  BY <1>2, <1>4, <1>5 DEF Borne, PointsAtRaised
<1>7. \A b \in ChargeIds : AppliedTo(ledger, b)' = AppliedTo(ledger, b)
  BY <1>2, AppliedAfterReversal
<1>. QED
  BY <1>1, <1>2, <1>6, <1>7, ReliefMovesBorne

LEMMA BorneStep ==
    ASSUME OneAtATime, IInv, IInv', Borne, [Next]_vars
    PROVE  Borne'
<1>1. CASE UNCHANGED vars
  BY <1>1 DEF vars, Borne, PointsAtRaised, WithinWorth, ReadsHold, AppliedNet, FitsCharge,
              RemainingValue, Adjusted
<1>2. ASSUME NEW w \in Workers, Refuse(w)
      PROVE  Borne'
  BY <1>2, NobodyLeft, BorneUntouched DEF Refuse, IInv
<1>. QED
  BY <1>1, <1>2, RaiseChargeBorne, VoidLoadBorne, VoidCommitBorne, RequestReliefBorne,
     DecideLoadBorne, DecideFitsBorne, DecideCommitBorne, CancelReliefBorne,
     ReverseReliefBorne DEF Next

\* What is taken off a charge is within its worth, and nothing is once it is void.
LEMMA WorthIsBorne ==
    ASSUME IInv, Borne
    PROVE  ReliefIsBorne
<1>1. ReliefFitsCharge
  BY Present DEF Borne, WithinWorth, ReliefFitsCharge, AppliedNet, IInv, Typed
<1>2. VoidChargeCarriesNoRelief
  <2>1. \A c \in ChargeIds : AppliedNet(c) \in Int
    BY AppliedNetIsInt DEF IInv
  <2>. QED
    BY <2>1 DEF Borne, WithinWorth, VoidChargeCarriesNoRelief, Adjusted, AppliedNet, ClampToZero
<1>. QED
  BY <1>1, <1>2 DEF ReliefIsBorne

\* When requests are served one at a time, a charge bears the relief put against it
\* (relief.service.ts:444-450, charge.service.ts:621-634).
THEOREM ReliefBorne ==
    ASSUME OneAtATime
    PROVE  Spec => []ReliefIsBorne
<1>1. Init => Borne
  BY BorneInit
<1>2. IInv /\ IInv' /\ Borne /\ [Next]_vars => Borne'
  BY BorneStep
<1>3. IInv /\ Borne => ReliefIsBorne
  BY WorthIsBorne
<1>. QED
  BY <1>1, <1>2, <1>3, InvariantHolds, PTL DEF Spec

=============================================================================
