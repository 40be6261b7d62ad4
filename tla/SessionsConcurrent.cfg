CONSTANTS
    u1 = u1
    u2 = u2
    s1 = s1
    s2 = s2
    r1 = r1
    w1 = w1
    w2 = w2
    None = None
    Users = {u1}
    SessionIds = {s1, s2}
    ResetIds = {r1}
    Workers = {w1, w2}
    MaxTokens = 2
    MaxVersion = 2
SPECIFICATION Spec
SYMMETRY Symmetry
CHECK_DEADLOCK FALSE
INVARIANTS
    TypeOK
    ChainsDoNotFork
    EndedSessionsAreOver
PROPERTIES
    RevokedIsNotRenewed
