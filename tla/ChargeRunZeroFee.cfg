CONSTANTS
    s1 = s1
    s2 = s2
    x1 = x1
    x2 = x2
    t1 = t1
    t2 = t2
    k1 = k1
    k2 = k2
    n1 = n1
    n2 = n2
    w1 = w1
    w2 = w2
    None = None
    Students = {s1}
    Places = {x1}
    Structures = {t1}
    Categories = {k1, k2}
    Amounts = {0, 1}
    RunIds = {n1}
    Workers = {w1}
SPECIFICATION Spec
SYMMETRY Symmetry
CHECK_DEADLOCK FALSE
INVARIANTS
    PlannedRunApplies
