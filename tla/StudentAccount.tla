--------------------------- MODULE StudentAccount ---------------------------
(***************************************************************************)
(* What the ledger promises of students' accounts, whatever tables and      *)
(* requests are behind it (the header of ledger.service.ts and              *)
(* docs/DECISIONS.md): an item -- a charge, or relief -- is posted to one   *)
(* account at most once, when it comes into force, with a positive amount   *)
(* on one side; withdrawing it adds the same amount to the other side of    *)
(* the same account; nothing else appears on an account and nothing leaves  *)
(* one.  A charge run posts many items at a time.                           *)
(***************************************************************************)
EXTENDS Naturals

CONSTANTS
    Items,
    Accounts        \* of a student in a period

VARIABLES
    standing,       \* the items in force
    lines           \* what the accounts show

account == <<standing, lines>>

Line ==
    [item : Items, account : Accounts, type : {"DEBIT", "CREDIT"},
     amount : Nat \ {0}, undoes : BOOLEAN]

LinesOf(i) == {l \in lines : l.item = i}

Undoing(l) ==
    [item |-> l.item, account |-> l.account,
     type |-> IF l.type = "DEBIT" THEN "CREDIT" ELSE "DEBIT",
     amount |-> l.amount, undoes |-> TRUE]

Init ==
    /\ standing = {}
    /\ lines = {}

\* `new` has the line of each item that comes into force.
Post(new) ==
    /\ new \subseteq Line
    /\ \A l \in new :
         /\ ~l.undoes
         /\ l.item \notin standing
         /\ LinesOf(l.item) = {}
         /\ \A k \in new : k.item = l.item => k = l
    /\ standing' = standing \cup {l.item : l \in new}
    /\ lines' = lines \cup new

Withdraw(i) ==
    /\ i \in standing
    /\ standing' = standing \ {i}
    /\ \E l \in LinesOf(i) :
         /\ ~l.undoes
         /\ lines' = lines \cup {Undoing(l)}

Next == Post(lines' \ lines) \/ \E i \in Items : Withdraw(i)

Spec == Init /\ [][Next]_account

-----------------------------------------------------------------------------
\* An item in force has one line, one that is not has none, or two that cancel out.
AccountsAddUp ==
    \A i \in Items :
        IF i \in standing
          THEN \E l \in lines : ~l.undoes /\ LinesOf(i) = {l}
          ELSE \/ LinesOf(i) = {}
               \/ \E l \in lines : ~l.undoes /\ LinesOf(i) = {l, Undoing(l)}

=============================================================================
