----------------------------- MODULE FeeLedger -----------------------------
(***************************************************************************)
(* One-off charges, relief against them, and the ledger that both post to: *)
(* charge.service.ts, relief.service.ts and ledger.service.ts over the     *)
(* tables student_charges, discounts / student_scholarships / fee_waivers / *)
(* financial_adjustments (one relief record here) and financial_entries.   *)
(*                                                                         *)
(* Requests are served concurrently.  A handler reads outside any          *)
(* transaction and then writes in one; each read whose answer is used      *)
(* later is a step of its own, and the transaction is one step: it starts  *)
(* with a conditional UPDATE that locks the record the rest of it is       *)
(* about, so nothing of another request falls between its statements.      *)
(* A request that is refused, whose transaction is rolled back by a stale  *)
(* version or a constraint, or whose process dies, is dropped: Refuse.     *)
(* Checks against other tables that only ever refuse (permissions, the     *)
(* period, the category, the enrolment, an inactive scholarship) are not   *)
(* repeated as guards, and who posted an entry is not kept: the users that *)
(* matter are those who request and decide relief.                         *)
(***************************************************************************)
EXTENDS Balance

CONSTANTS
    Students,
    Users,          \* staff holding every finance permission
    Workers,        \* voids and decisions that may be in flight at once
    Periods,        \* (academic year, term) pairs
    ChargeIds,
    ReliefIds,
    Kinds,          \* the kinds of relief in use
    Amounts,        \* the amounts a client may type
    Percentages,    \* in hundredths of a percent
    None            \* SQL NULL

ASSUME LedgerAssumption ==
    /\ Kinds \subseteq ReliefKinds
    /\ Amounts \subseteq Nat
    /\ Percentages \subseteq 1 .. 10000
    /\ ChargeIds \cap ReliefIds = {}
    /\ None \notin ChargeIds \cup ReliefIds \cup Users
    /\ None \notin (ChargeIds \cup ReliefIds) \X Nat

VARIABLES
    charges,    \* ChargeIds -> Charge, or Absent
    reliefs,    \* ReliefIds -> Relief, or Absent
    ledger,     \* the set of financial entries
    task        \* Workers -> the request being served, or Idle

vars == <<charges, reliefs, ledger, task>>

-----------------------------------------------------------------------------
Absent == [status |-> "ABSENT"]

Idle == [op |-> "idle"]

Sources == ChargeIds \cup ReliefIds

Positive == Nat \ {0}

Charge ==
    [status : {"RAISED", "VOID"}, student : Students, period : Periods,
     amount : Positive, version : Nat]

\* decidedBy and the two terminal-by-decision statuses keep the decision on
\* record; direction is CREDIT for every kind but ADJUSTMENT.
Relief ==
    [status : {"PENDING_APPROVAL", "APPROVED", "REJECTED", "CANCELLED", "REVERSED"},
     kind : Kinds, direction : Directions, student : Students, period : Periods,
     charge : ChargeIds \cup {None}, amount : Positive,
     requestedBy : Users, decidedBy : Users \cup {None}, version : Nat]

\* An entry's id is a fresh UUID: here the record it is about and its ordinal.
EntryId == Sources \X Nat

Entry ==
    [id : EntryId, ref : Sources, source : {"CHARGE"} \cup Kinds, type : Directions,
     amount : Positive, student : Students, period : Periods,
     charge : ChargeIds \cup {None}, reversalOf : EntryId \cup {None}]

Task ==
         {Idle}
    \cup [op : {"void"}, charge : ChargeIds, expectedVersion : Nat]
    \cup [op : {"decide"}, step : {"fits", "commit"}, by : Users, relief : ReliefIds,
          approve : BOOLEAN, expectedVersion : Nat]

TypeOK ==
    /\ charges \in [ChargeIds -> Charge \cup {Absent}]
    /\ reliefs \in [ReliefIds -> Relief \cup {Absent}]
    /\ ledger \in SUBSET Entry
    /\ task \in [Workers -> Task]

Init ==
    /\ charges = [c \in ChargeIds |-> Absent]
    /\ reliefs = [r \in ReliefIds |-> Absent]
    /\ ledger = {}
    /\ task = [w \in Workers |-> Idle]

-----------------------------------------------------------------------------
(* The ledger: ledger.service.ts *)

EntriesOf(x) == {e \in ledger : e.ref = x}

NewEntryId(x) == <<x, Cardinality(EntriesOf(x)) + 1>>

\* Mutant of PostEntry: a zero amount reaches the ledger.
PostEntryOfAnyAmount(x, source, type, charge, about) ==
    ledger' = ledger \cup
         {[id |-> NewEntryId(x), ref |-> x, source |-> source, type |-> type,
           amount |-> about.amount, student |-> about.student, period |-> about.period,
           charge |-> charge, reversalOf |-> None]}

\* postEntry for the record `about`, inside the caller's transaction: the
\* amount is positive, and the partial unique index admits one opening entry
\* per record.
PostEntry(x, source, type, charge, about) ==
    /\ about.amount > 0
    /\ \A e \in EntriesOf(x) : e.reversalOf # None
    /\ ledger' = ledger \cup
         {[id |-> NewEntryId(x), ref |-> x, source |-> source, type |-> type,
           amount |-> about.amount, student |-> about.student, period |-> about.period,
           charge |-> charge, reversalOf |-> None]}

\* findOpeningEntry
LiveOpenings(x) ==
    {e \in EntriesOf(x) :
        /\ e.reversalOf = None
        /\ \A f \in ledger : f.reversalOf # e.id}

\* Mutant of ReversalOf: the reversal repeats the direction of what it undoes.
ReversalOnTheSameSide(e) ==
    [id |-> NewEntryId(e.ref), ref |-> e.ref, source |-> e.source, type |-> e.type,
     amount |-> e.amount, student |-> e.student, period |-> e.period,
     charge |-> IF e.source = "CHARGE" THEN e.charge ELSE None, reversalOf |-> e.id]

\* The columns a reversal writes are those of refColumns: the charge id only
\* for a CHARGE entry.
ReversalOf(e) ==
    [id |-> NewEntryId(e.ref), ref |-> e.ref, source |-> e.source,
     type |-> Opposite(e.type), amount |-> e.amount, student |-> e.student,
     period |-> e.period, charge |-> IF e.source = "CHARGE" THEN e.charge ELSE None,
     reversalOf |-> e.id]

\* Mutant of ReverseEntryFor: the entry is deleted instead.
DeleteEntryFor(x) == ledger' = ledger \ EntriesOf(x)

\* Mutant of ReverseEntryFor: the record is withdrawn and the ledger left as it was.
ForgetEntryFor(x) == UNCHANGED ledger

\* reverseEntryFor: nothing live to reverse is not an error.
ReverseEntryFor(x) ==
    \/ /\ LiveOpenings(x) = {}
       /\ UNCHANGED ledger
    \/ \E e \in LiveOpenings(x) : ledger' = ledger \cup {ReversalOf(e)}

-----------------------------------------------------------------------------
(* The conditional UPDATE of optimistic-lock.ts: the row is written only at    *)
(* the version the client saw and in the status it is leaving.                 *)

\* Mutant of Matches: the row is written whatever became of it.
MatchesById(record, version, status) == record # Absent

Matches(record, version, status) ==
    /\ record.status = status
    /\ record.version = version

-----------------------------------------------------------------------------
(* Charges: charge.service.ts *)

\* createAdHocCharge: one transaction inserts the charge and posts its DEBIT.
\* What is read before it can only refuse.
RaiseCharge(c) ==
    /\ charges[c] = Absent
    /\ \E s \in Students, p \in Periods, a \in Amounts :
         LET charge == [status |-> "RAISED", student |-> s, period |-> p,
                        amount |-> a, version |-> 0]
         IN  /\ charges' = [charges EXCEPT ![c] = charge]
             /\ PostEntry(c, "CHARGE", "DEBIT", c, charge)
    /\ UNCHANGED <<reliefs, task>>

\* Mutant of CarriesNoRelief: the sums are not read.
AlwaysVoidable(c) == charges[c] # Absent

\* net.adjusted of voidCharge
CarriesNoRelief(c) == Adjusted(ledger, c) = 0

\* voidCharge, up to its transaction: no net relief stands against the charge.
\* The client holds the current version: with any other the UPDATE below
\* matches no row.
VoidLoad(w, c) ==
    /\ task[w] = Idle
    /\ charges[c].status = "RAISED"
    /\ CarriesNoRelief(c)
    /\ task' = [task EXCEPT ![w] =
                  [op |-> "void", charge |-> c, expectedVersion |-> charges[c].version]]
    /\ UNCHANGED <<charges, reliefs, ledger>>

VoidCommit(w) ==
    LET c == task[w].charge IN
    /\ task[w].op = "void"
    /\ Matches(charges[c], task[w].expectedVersion, "RAISED")
    /\ charges' = [charges EXCEPT ![c].status = "VOID", ![c].version = @ + 1]
    /\ ReverseEntryFor(c)
    /\ task' = [task EXCEPT ![w] = Idle]
    /\ UNCHANGED reliefs

-----------------------------------------------------------------------------
(* Relief: relief.service.ts *)

\* resolveAmount: a fixed sum, or a percentage of what the charge still carries.
RequestableAmounts(c) ==
    Amounts \cup
        IF c = None THEN {}
        ELSE {Prorate(RemainingValue(ledger, c, charges[c].amount), p) : p \in Percentages}

\* assertFitsCharge
FitsCharge(direction, amount, c) ==
    c # None /\ direction = "CREDIT" =>
        amount <= RemainingValue(ledger, c, charges[c].amount)

\* requestRelief.  Its reads and its insert are one step: a pending request
\* moves no money, and one made a little earlier is a request all the same.
RequestRelief(u, r) ==
    /\ reliefs[r] = Absent
    /\ \E s \in Students, p \in Periods, c \in ChargeIds \cup {None},
          k \in Kinds, d \in Directions :
         /\ k # "ADJUSTMENT" => d = "CREDIT"
         /\ c # None => /\ charges[c].status = "RAISED"
                        /\ charges[c].student = s
                        /\ charges[c].period = p
         /\ \E a \in RequestableAmounts(c) :
              /\ a \in Positive
              /\ FitsCharge(d, a, c)
              /\ reliefs' = [reliefs EXCEPT ![r] =
                   [status |-> "PENDING_APPROVAL", kind |-> k, direction |-> d,
                    student |-> s, period |-> p, charge |-> c, amount |-> a,
                    requestedBy |-> u, decidedBy |-> None, version |-> 0]]
    /\ UNCHANGED <<charges, ledger, task>>

\* Mutant of MayDecide: holding the permission is enough.
AnyoneMayDecide(relief, u) == u \in Users

MayDecide(relief, u) == relief.requestedBy # u

\* decideRelief, its first reads: still pending, asked for by somebody else,
\* and, to approve relief of a charge, that charge not void.
DecideLoad(w, u, r, approve) ==
    LET relief == reliefs[r]
        ofCharge == approve /\ relief.charge # None
    IN
    /\ task[w] = Idle
    /\ relief.status = "PENDING_APPROVAL"
    /\ MayDecide(relief, u)
    /\ ofCharge => charges[relief.charge].status # "VOID"
    /\ task' = [task EXCEPT ![w] =
                  [op |-> "decide", step |-> IF ofCharge THEN "fits" ELSE "commit",
                   by |-> u, relief |-> r, approve |-> approve,
                   expectedVersion |-> relief.version]]
    /\ UNCHANGED <<charges, reliefs, ledger>>

\* The amount is checked against the charge again, by a read of its own.
DecideFits(w) ==
    LET relief == reliefs[task[w].relief] IN
    /\ task[w].op = "decide"
    /\ task[w].step = "fits"
    /\ FitsCharge(relief.direction, relief.amount, relief.charge)
    /\ task' = [task EXCEPT ![w].step = "commit"]
    /\ UNCHANGED <<charges, reliefs, ledger>>

\* The transaction: the status leaves PENDING_APPROVAL at the version the
\* client saw, and an approval posts its entry.
DecideCommit(w) ==
    LET r == task[w].relief
        relief == reliefs[r]
    IN
    /\ task[w].op = "decide"
    /\ task[w].step = "commit"
    /\ Matches(relief, task[w].expectedVersion, "PENDING_APPROVAL")
    /\ reliefs' = [reliefs EXCEPT
                     ![r].status = IF task[w].approve THEN "APPROVED" ELSE "REJECTED",
                     ![r].decidedBy = task[w].by,
                     ![r].version = @ + 1]
    /\ IF task[w].approve
         THEN PostEntry(r, relief.kind, relief.direction, relief.charge, relief)
         ELSE UNCHANGED ledger
    /\ task' = [task EXCEPT ![w] = Idle]
    /\ UNCHANGED charges

\* cancelRelief: the conditional UPDATE repeats the status check, and the
\* requester never changes, so read and write are one step.
CancelRelief(u, r) ==
    /\ reliefs[r].status = "PENDING_APPROVAL"
    /\ reliefs[r].requestedBy = u
    /\ reliefs' = [reliefs EXCEPT ![r].status = "CANCELLED", ![r].version = @ + 1]
    /\ UNCHANGED <<charges, ledger, task>>

\* reverseRelief, one step for the same reason.
ReverseRelief(r) ==
    /\ reliefs[r].status = "APPROVED"
    /\ reliefs' = [reliefs EXCEPT ![r].status = "REVERSED", ![r].version = @ + 1]
    /\ ReverseEntryFor(r)
    /\ UNCHANGED <<charges, task>>

-----------------------------------------------------------------------------
\* An error answer at any point before the transaction commits.
Refuse(w) ==
    /\ task[w] # Idle
    /\ task' = [task EXCEPT ![w] = Idle]
    /\ UNCHANGED <<charges, reliefs, ledger>>

Next ==
    \/ \E c \in ChargeIds : RaiseCharge(c)
    \/ \E w \in Workers, c \in ChargeIds : VoidLoad(w, c)
    \/ \E w \in Workers : VoidCommit(w)
    \/ \E u \in Users, r \in ReliefIds : RequestRelief(u, r)
    \/ \E w \in Workers, u \in Users, r \in ReliefIds, approve \in BOOLEAN :
          DecideLoad(w, u, r, approve)
    \/ \E w \in Workers : DecideFits(w)
    \/ \E w \in Workers : DecideCommit(w)
    \/ \E u \in Users, r \in ReliefIds : CancelRelief(u, r)
    \/ \E r \in ReliefIds : ReverseRelief(r)
    \/ \E w \in Workers : Refuse(w)

Spec == Init /\ [][Next]_vars

-----------------------------------------------------------------------------
(* What the ledger must say about each record. *)

IsOpening(e, x, source, type, charge, record) ==
    /\ e.id = <<x, 1>>
    /\ e.source = source
    /\ e.type = type
    /\ e.charge = charge
    /\ e.amount = record.amount
    /\ e.student = record.student
    /\ e.period = record.period
    /\ e.reversalOf = None

IsReversal(f, e) ==
    /\ f.id = <<e.ref, 2>>
    /\ f.source = e.source
    /\ f.type = Opposite(e.type)
    /\ f.amount = e.amount
    /\ f.student = e.student
    /\ f.period = e.period
    /\ f.reversalOf = e.id

Standing(x, source, type, charge, record) ==
    \E e \in ledger :
        /\ IsOpening(e, x, source, type, charge, record)
        /\ EntriesOf(x) = {e}

Withdrawn(x, source, type, charge, record) ==
    \E e, f \in ledger :
        /\ IsOpening(e, x, source, type, charge, record)
        /\ IsReversal(f, e)
        /\ EntriesOf(x) = {e, f}

ChargeBooked(c) ==
    LET charge == charges[c] IN
    /\ charge.status = "ABSENT" => EntriesOf(c) = {}
    /\ charge.status = "RAISED" => Standing(c, "CHARGE", "DEBIT", c, charge)
    /\ charge.status = "VOID" => Withdrawn(c, "CHARGE", "DEBIT", c, charge)

ReliefBooked(r) ==
    LET relief == reliefs[r] IN
    /\ relief.status \notin {"APPROVED", "REVERSED"} => EntriesOf(r) = {}
    /\ relief.status = "APPROVED" =>
         Standing(r, relief.kind, relief.direction, relief.charge, relief)
    /\ relief.status = "REVERSED" =>
         Withdrawn(r, relief.kind, relief.direction, relief.charge, relief)

\* Whatever requests interleave or die halfway, the ledger agrees with the
\* records: a raised charge has exactly its DEBIT, a voided one its DEBIT and one
\* opposite entry, approved relief exactly its own entry, reversed relief that
\* and its opposite, anything else nothing (relief.service.ts:14-23).
LedgerMatchesRecords ==
    /\ \A c \in ChargeIds : ChargeBooked(c)
    /\ \A r \in ReliefIds : ReliefBooked(r)

StandingCharges(s, p) ==
    {c \in ChargeIds : /\ charges[c].status = "RAISED"
                       /\ charges[c].student = s
                       /\ charges[c].period = p}

StandingRelief(s, p, d) ==
    {r \in ReliefIds : /\ reliefs[r].status = "APPROVED"
                       /\ reliefs[r].student = s
                       /\ reliefs[r].period = p
                       /\ reliefs[r].direction = d}

ChargeTotal(C) == MapThenSumSet(LAMBDA c : charges[c].amount, C)

ReliefTotal(R) == MapThenSumSet(LAMBDA r : reliefs[r].amount, R)

PositionOf(s, p) == NetPosition({e \in ledger : e.student = s /\ e.period = p})

\* A balance is explained by the records that stand: in every period, charges
\* not void, plus approved surcharges, less approved credits, and at most one of
\* outstanding and creditBalance is not zero (balance.service.ts:50-66, 105-110).
BalanceIsExplained ==
    \A s \in Students, p \in Periods :
        LET position == PositionOf(s, p) IN
        /\ position.totalCharged = ChargeTotal(StandingCharges(s, p))
        /\ position.outstanding - position.creditBalance =
               ChargeTotal(StandingCharges(s, p))
             + ReliefTotal(StandingRelief(s, p, "DEBIT"))
             - ReliefTotal(StandingRelief(s, p, "CREDIT"))
        /\ position.outstanding = 0 \/ position.creditBalance = 0

\* Relief moves money only when a second person decides it: a relief record
\* with an entry in the ledger was decided, and not by who requested it
\* (relief.service.ts:15-21).
MoneyTakesTwo ==
    \A r \in ReliefIds :
        EntriesOf(r) # {} => reliefs[r].decidedBy \notin {None, reliefs[r].requestedBy}

Decided == {"APPROVED", "REJECTED", "REVERSED"}

ChargesOnlyVoided ==
    \A c \in ChargeIds :
        charges[c] # Absent =>
            charges'[c] \in {charges[c],
                            [charges[c] EXCEPT !.status = "VOID", !.version = @ + 1]}

RequestsKept ==
    \A r \in ReliefIds :
        reliefs[r] # Absent =>
            \A field \in {"kind", "direction", "student", "period", "charge", "amount",
                          "requestedBy"} :
                reliefs'[r][field] = reliefs[r][field]

DecisionsKept ==
    \A r \in ReliefIds :
        reliefs[r].status \in Decided =>
            /\ reliefs'[r].status \in Decided
            /\ reliefs'[r].decidedBy = reliefs[r].decidedBy

\* No step rewrites what was recorded: entries are only added, a charge changes
\* only by being voided, and a relief record keeps what was asked, by whom, and
\* who decided it, also when it is reversed (relief.service.ts:22-25).
HistoryIsKept ==
    [][ledger \subseteq ledger' /\ ChargesOnlyVoided /\ RequestsKept /\ DecisionsKept]_vars

-----------------------------------------------------------------------------
(* The accounts a family is shown: StudentAccount, of charges not void and     *)
(* relief that is approved.                                                    *)

InForce ==
    {c \in ChargeIds : charges[c].status = "RAISED"}
        \cup {r \in ReliefIds : reliefs[r].status = "APPROVED"}

LineOf(e) ==
    [item |-> e.ref, account |-> <<e.student, e.period>>, type |-> e.type,
     amount |-> e.amount, undoes |-> e.reversalOf # None]

Account ==
    INSTANCE StudentAccount
        WITH Items <- Sources, Accounts <- Students \X Periods,
             standing <- InForce, lines <- {LineOf(e) : e \in ledger}

\* What requests do to records and ledger, step by step, is nothing but posting items
\* to accounts and withdrawing them: each comes into force with its line, and goes
\* with a line that undoes it (ledger.service.ts:4-21).
AccountsAreKept == Account!Spec

-----------------------------------------------------------------------------
(* What holds when requests are served one at a time. *)

\* A charge never collects more relief than it is worth: the entries applied to
\* it take off at most its amount (balance.service.ts:244-246).
ReliefFitsCharge ==
    \A c \in ChargeIds :
        charges[c] # Absent =>
            TotalOf(AppliedTo(ledger, c), "CREDIT") - TotalOf(AppliedTo(ledger, c), "DEBIT")
                <= charges[c].amount

\* A voided charge has no relief standing against it, on balance: to void a
\* charge under approved relief is refused (charge.service.ts:602-603).
VoidChargeCarriesNoRelief ==
    \A c \in ChargeIds : charges[c].status = "VOID" => Adjusted(ledger, c) = 0

\* A charge bears the relief put against it: never more than it is worth, and none
\* once it is void, though a decision and a void each read the sums before they
\* write (relief.service.ts:444-450, charge.service.ts:621-634).
ReliefIsBorne == ReliefFitsCharge /\ VoidChargeCarriesNoRelief

-----------------------------------------------------------------------------
(* Statements of the repository that the code does not meet. *)

StandingOn(c, d) ==
    {r \in ReliefIds : /\ reliefs[r].status = "APPROVED"
                       /\ reliefs[r].charge = c
                       /\ reliefs[r].direction = d}

\* What is taken off a charge is the relief that stands against it: reversing
\* relief gives the charge its value back (balance.service.ts:117-118).
ReversedReliefRestoresCharge ==
    \A c \in ChargeIds :
        charges[c].status = "RAISED" =>
            Adjusted(ledger, c) =
                ClampToZero(ReliefTotal(StandingOn(c, "CREDIT"))
                            - ReliefTotal(StandingOn(c, "DEBIT")))

\* totalSurcharged is the surcharges that stand: a reversal lands in the same
\* bucket as what it undoes (balance.service.ts:60, 64-65).
ReversalsNetOutByBucket ==
    \A s \in Students, p \in Periods :
        PositionOf(s, p).totalSurcharged = ReliefTotal(StandingRelief(s, p, "DEBIT"))

=============================================================================
