CONSTANTS
    s1 = s1
    s2 = s2
    u1 = u1
    u2 = u2
    w1 = w1
    w2 = w2
    p1 = p1
    p2 = p2
    c1 = c1
    c2 = c2
    r1 = r1
    r2 = r2
    r3 = r3
    None = None
    Students = {s1, s2}
    Users = {u1, u2}
    Workers = {w1, w2}
    Periods = {p1}
    ChargeIds = {c1, c2}
    ReliefIds = {r1, r2}
    Kinds = {"ADJUSTMENT"}
    Amounts = {0, 2}
    Percentages = {5000}
SPECIFICATION Spec
SYMMETRY Symmetry
CHECK_DEADLOCK FALSE
INVARIANTS
    TypeOK
    LedgerMatchesRecords
    BalanceIsExplained
    MoneyTakesTwo
PROPERTIES
    HistoryIsKept
    AccountsAreKept
