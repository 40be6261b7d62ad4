--------------------------------- MODULE Seed ----------------------------------
(***************************************************************************)
(* The development seed, prisma/seed/index.ts: a program of upserts outside *)
(* any transaction, which may be cut short after any of them and is then    *)
(* run again, and the work of people on what it left.  They do not work     *)
(* while it runs.  SeedData has the statements, and what people do.         *)
(*                                                                         *)
(* Of a row there is its natural key and the one column that somebody may   *)
(* change, its state.                                                      *)
(***************************************************************************)
EXTENDS Sequences, Integers, FiniteSets

CONSTANTS
    Statements,     \* what the seed executes, in order
    Deeds,          \* what people do once: rows they take away, and put in their place
    FirstDatabases, \* what the database may hold before
    MaxSeedings     \* bound: how often the seed is started

VARIABLES
    rows,           \* the database: [table, key, state]
    seeding,        \* the statement the seed has come to, 0 when it does not run
    seedings,       \* how often it was started
    complete,       \* the last one came to its end (history)
    done            \* the deeds there were (history)

seed == <<rows, seeding, seedings, complete, done>>

-----------------------------------------------------------------------------
(* Statements *)

Row(table, key, state) == [table |-> table, key |-> key, state |-> state]

\* upsert, or findFirst and then create or update: `state` is written to a row that is
\* new, and to one that is there only if it is among the columns of the update.  A row
\* refers to the rows `needs`.
Upsert(table, key, state, again, needs) ==
    [op |-> "upsert", row |-> Row(table, key, state), again |-> again, needs |-> needs]

Rewrite(table, key, state, needs) == Upsert(table, key, state, TRUE, needs)

KeepState(table, key, state, needs) == Upsert(table, key, state, FALSE, needs)

\* deleteMany of what is not in the catalogue
Revoke(table, keys) == [op |-> "revoke", table |-> table, keys |-> keys]

Same(a, b) == a.table = b.table /\ a.key = b.key

Upserts == {i \in DOMAIN Statements : Statements[i].op = "upsert"}

Revokes == {i \in DOMAIN Statements : Statements[i].op = "revoke"}

\* The last of the first n statements that write a row, one for each row.
LastWords(n) ==
    {i \in Upserts :
        /\ i <= n
        /\ \A k \in Upserts :
             k > i /\ k <= n => ~Same(Statements[k].row, Statements[i].row)}

\* The last word of the statements on each row.
Fixtures == {Statements[i].row : i \in LastWords(Len(Statements))}

Removes(st, r) == r.table = st.table /\ r.key \notin st.keys

AtMostOneCurrent(table, R) ==
    \A r, q \in {p \in R : p.table = table /\ p.state = "current"} : r = q

Current == {"year", "term"}

-----------------------------------------------------------------------------
(* What the statements and the deeds are *)

\* A row whose last statement leaves its state alone is never given another one, and
\* what a statement writes no statement takes for foreign.
ASSUME StatementsAssumption ==
    /\ Statements \in Seq({Statements[i] : i \in DOMAIN Statements})
    /\ DOMAIN Statements = Upserts \cup Revokes
    /\ \A i \in LastWords(Len(Statements)), j \in Upserts :
         ~Statements[i].again /\ Same(Statements[i].row, Statements[j].row) =>
             Statements[j].row = Statements[i].row
    /\ \A i \in Revokes, j \in Upserts : ~Removes(Statements[i], Statements[j].row)

\* Before the first seeding there is nothing but what it takes for foreign.
ASSUME DatabasesAssumption ==
    \A R \in FirstDatabases :
        /\ \A r, q \in R : Same(r, q) => r = q
        /\ \A table \in Current : AtMostOneCurrent(table, R)
        /\ \A r \in R :
             /\ \E i \in Revokes : Removes(Statements[i], r)
             /\ \A i \in Upserts : ~Same(Statements[i].row, r)

\* A row of a deed replaces one, or has a key of its own; what is made current replaces
\* what was.  What a deed lets `stand` no statement rewrites or removes, and no other deed.
ASSUME DeedsAssumption ==
    \A d \in Deeds :
        /\ \A r, q \in d.new : Same(r, q) => r = q
        /\ \A r \in d.new :
             \/ \E g \in d.gone : Same(g, r)
             \/ /\ \A i \in Upserts : ~Same(Statements[i].row, r)
                /\ \A q \in UNION FirstDatabases : ~Same(q, r)
                /\ \A e \in Deeds \ {d} : \A q \in e.new : ~Same(q, r)
        /\ \A table \in Current : AtMostOneCurrent(table, d.new)
        /\ \A r \in d.new :
             r.table \in Current /\ r.state = "current" =>
                 \E g \in d.gone : g.table = r.table /\ g.state = "current"
        /\ d.stands \subseteq d.new
        /\ \A r \in d.stands :
             /\ \A i \in Upserts : Same(Statements[i].row, r) => ~Statements[i].again
             /\ \A i \in Revokes : ~Removes(Statements[i], r)
             /\ \A e \in Deeds \ {d} : r \notin e.gone

ASSUME SeedAssumption == MaxSeedings \in Nat

-----------------------------------------------------------------------------
(* Running it *)

Found(row) == {r \in rows : Same(r, row)}

AfterUpsert(st) ==
    IF Found(st.row) = {} \/ st.again
      THEN (rows \ Found(st.row)) \cup {st.row}
      ELSE rows

\* Mutant of After: what is foreign to the catalogue is never taken away.
AfterAddsOnly(st) == IF st.op = "revoke" THEN rows ELSE AfterUpsert(st)

After(st) ==
    IF st.op = "revoke" THEN {r \in rows : ~Removes(st, r)} ELSE AfterUpsert(st)

\* Foreign keys, and the indexes of one current year and one current term.
Accepts(st) ==
    /\ st.op # "revoke" => st.needs \subseteq {r.key : r \in rows}
    /\ \A table \in Current : AtMostOneCurrent(table, After(st))

Start ==
    /\ seeding = 0
    /\ seedings < MaxSeedings
    /\ seedings' = seedings + 1
    /\ seeding' = 1
    /\ complete' = FALSE
    /\ UNCHANGED <<rows, done>>

Step ==
    /\ seeding \in DOMAIN Statements
    /\ Accepts(Statements[seeding])
    /\ rows' = After(Statements[seeding])
    /\ complete' = (seeding = Len(Statements))
    /\ seeding' = IF complete' THEN 0 ELSE seeding + 1
    /\ UNCHANGED <<seedings, done>>

\* An error, which a statement the database refuses is, or a crash.
CutShort ==
    /\ seeding # 0
    /\ seeding' = 0
    /\ UNCHANGED <<rows, seedings, complete, done>>

-----------------------------------------------------------------------------
(* People *)

Work(d) ==
    /\ seeding = 0
    /\ d \notin done
    /\ d.gone \subseteq rows
    /\ rows' = (rows \ d.gone) \cup d.new
    /\ done' = done \cup {d}
    /\ UNCHANGED <<seeding, seedings, complete>>

SeedInit ==
    /\ rows \in FirstDatabases
    /\ seeding = 0
    /\ seedings = 0
    /\ complete = FALSE
    /\ done = {}

SeedNext == Start \/ Step \/ CutShort \/ \E d \in Deeds : Work(d)

-----------------------------------------------------------------------------
\* A seeding that comes to its end leaves the fixtures and nothing else, however often and
\* wherever seedings before it were cut short (seed/index.ts:6-7).  At no time has a key two
\* rows, nor a school two current years, and no seeding takes back what people did that
\* is not among its columns: a withdrawal, a registration, a new current year.
SeedingConverges ==
    /\ (complete /\ done = {}) => rows = Fixtures
    /\ \A r, q \in rows : Same(r, q) => r = q
    /\ \A table \in Current : AtMostOneCurrent(table, rows)
    /\ \A d \in done : d.stands \subseteq rows

=============================================================================
