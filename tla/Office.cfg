CONSTANTS
    y1 = y1
    y2 = y2
    t1 = t1
    t2 = t2
    t3 = t3
    d1 = d1
    p1 = p1
    p2 = p2
    l1 = l1
    l2 = l2
    l3 = l3
    s1 = s1
    s2 = s2
    e1 = e1
    e2 = e2
    e3 = e3
    c1 = c1
    c2 = c2
    g1 = g1
    g2 = g2
    k1 = k1
    k2 = k2
    k3 = k3
    n1 = n1
    x1 = x1
    x2 = x2
    m1 = m1
    r1 = r1
    r2 = r2
    u1 = u1
    u2 = u2
    u3 = u3
    a1 = a1
    w1 = w1
    w2 = w2
    old = old
    new = new
    None = None
    Nobody = Nobody
    Parts = {"years", "terms", "curriculum", "seats", "arrivals", "year-end", "students", "guardians", "sign-in", "passwords", "roles", "system", "statuses", "access", "pages", "setup"}
    Serial = {"curriculum", "seats", "year-end", "guardians", "system", "statuses", "pages"}
    Workers = {w1, w2}
    Years = {y1, y2}
    Terms = {t1, t2}
    Spans <- OfficeSpans
    YearSpans <- OfficeYearSpans
    Edits <- OfficeEdits
    NewStatuses = {"ACTIVE"}
    MaxPeriodVersion = 2
    Departments = {d1}
    Programs = {p1, p2}
    Levels = {l1, l2, l3}
    MaxProgramVersion = 1
    Students = {s1, s2}
    EnrollmentIds = {e1, e2}
    Classes = {c1, c2}
    ClassLevel <- OfficeClassLevel
    ClassYear <- OfficeClassYear
    Capacities <- OfficeCapacities
    GuardianIds = {g1, g2}
    Phones = {n1}
    LinkIds = {k1, k2, k3}
    Files <- OfficeFiles
    AskedStatuses = {"ACTIVE", "WITHDRAWN", "ARCHIVED"}
    Outcomes = {"PROMOTED"}
    MaxVersion = 1
    MaxLinkVersion = 1
    Users = {u1, u2, u3}
    Schools = {a1}
    Roles = {"SUPER_ADMIN", "SCHOOL_ADMIN", "BURSAR"}
    RoleSets = {{"BURSAR"}, {"SUPER_ADMIN", "BURSAR"}}
    SecondFactor = {u3}
    Passwords = {old, new}
    Counters = {1, 2}
    ResetLinks = {1, 2}
    InitialAccounts <- OfficeAccounts
    MaxAttempts = 3
    MaxCounted = 4
    MaxAccountVersion = 1
    Staff = {u1, u2}
    StaffRoles = {"SCHOOL_ADMIN", "DOS", "FINANCE_MANAGER", "BURSAR"}
    AskedRoles = {"FINANCE_MANAGER", "BURSAR"}
    FirstRoles <- OfficeFirstRoles
    SettingIds = {x1}
    Codes = {m1}
    Names = {r1, r2}
    MaxSettingVersion = 2
SPECIFICATION OfficeSpec
SYMMETRY OfficeSymmetry
CHECK_DEADLOCK FALSE
INVARIANTS
    OfficeTypeOK
    PromotionEnds
    StudentsArePlaced
    IdentifiersAreGapless
    OnePrimaryContact
    GuessesAreBounded
    NewPasswordStands
    OneTimeCodesWorkOnce
    SuspensionEndsSessions
    NoRankFromNowhere
    SeparationOfDuties
    PagesOfferWhatIsGranted
    TrailIsTrue
    TermsDoNotOverlap
PROPERTIES
    ClosedStaysClosed
    SeatsFit
    EndsAreFinal
    OnlyTheLastLink
