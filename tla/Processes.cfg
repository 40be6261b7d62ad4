SPECIFICATION ProcessesSpec
CONSTANTS
    c1 = c1
    c2 = c2
    k1 = k1
    k2 = k2
    q1 = q1
    q2 = q2
    Calls <- ProcessesCalls
    SessionIds <- ProcessesSessions
    Keys <- ProcessesKeys
    Arrivals <- ProcessesArrivals
    MaxRow = 1
    Statements <- SeedStatements
    Deeds <- SeedDeeds
    FirstDatabases <- SeedDatabases
    MaxSeedings = 3
    Startup = Startup
    None = None
    Null = Null
INVARIANTS
    RenewalsAreNotTheft
    ScreensShowWhatIsAsked
    SeedingConverges
PROPERTIES
    RequestsSettle
    ShutdownEnds
CHECK_DEADLOCK FALSE
