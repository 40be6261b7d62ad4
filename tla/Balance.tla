------------------------------ MODULE Balance ------------------------------
(***************************************************************************)
(* Money arithmetic over the rows of financial_entries: what               *)
(* balance.service.ts and the two grouped reads of fee.repository.ts       *)
(* compute.  An amount is an integer number of minor units (Money stores   *)
(* two decimals), an entry a record whose fields are those of              *)
(* FeeLedger!Entry.  Nothing is stored by the code: every figure here is   *)
(* recomputed from the set of entries it is given.                         *)
(***************************************************************************)
EXTENDS Integers, FiniteSetsExt

ReliefKinds == {"DISCOUNT", "SCHOLARSHIP", "WAIVER", "ADJUSTMENT"}

Directions == {"DEBIT", "CREDIT"}

Opposite(type) == IF type = "DEBIT" THEN "CREDIT" ELSE "DEBIT"

ClampToZero(amount) == IF amount < 0 THEN 0 ELSE amount

\* Money.prorate(percentage, 100), the percentage in hundredths of a percent:
\* rounded half up to a minor unit.
Prorate(amount, percentage) == (amount * percentage + 5000) \div 10000

Total(entries) == MapThenSumSet(LAMBDA e : e.amount, entries)

TotalOf(entries, type) == Total({e \in entries : e.type = type})

-----------------------------------------------------------------------------
\* sumEntriesByCharge: the entries that point at charge c and are not its own.
AppliedTo(entries, c) == {e \in entries : e.charge = c /\ e.source # "CHARGE"}

\* computeChargeNet(...).adjusted and .net
Adjusted(entries, c) ==
    LET applied == AppliedTo(entries, c)
    IN  ClampToZero(TotalOf(applied, "CREDIT") - TotalOf(applied, "DEBIT"))

RemainingValue(entries, c, amount) == ClampToZero(amount - Adjusted(entries, c))

-----------------------------------------------------------------------------
\* computeNetPosition over one student's entries.  A PAYMENT source exists in
\* the code's type, but nothing posts one yet.
NetPosition(entries) ==
    LET Slice(type, sources) ==
            Total({e \in entries : e.type = type /\ e.source \in sources})
        net == TotalOf(entries, "DEBIT") - TotalOf(entries, "CREDIT")
    IN  [ totalCharged    |-> Slice("DEBIT", {"CHARGE"}) - Slice("CREDIT", {"CHARGE"}),
          totalSurcharged |-> Slice("DEBIT", {"ADJUSTMENT"}),
          totalCredited   |-> Slice("CREDIT", ReliefKinds)
                                - Slice("DEBIT", ReliefKinds \ {"ADJUSTMENT"}),
          totalPaid       |-> Slice("CREDIT", {"PAYMENT"}) - Slice("DEBIT", {"PAYMENT"}),
          outstanding     |-> ClampToZero(net),
          creditBalance   |-> ClampToZero(-net) ]

=============================================================================
