SPECIFICATION Spec
CONSTANTS
    c1 = c1
    c2 = c2
    e1 = e1
    e2 = e2
    NoDate = NoDate
    NoObject = NoObject
    Events = {e1, e2}
    Contracts = {c1, c2}
    Moments <- HalfHours
    PerHour = 2
    Histories <- OneHistory
    Rankings <- TwoContracts
    AfterBlock <- ThreeAfter
    BeforeBlock <- ThreeBefore
    Heads <- ThreeHeads
    Offset = 2
    MaxAttempts = 2
SYMMETRY EventsAlike
CHECK_DEADLOCK FALSE
INVARIANTS TypeOK ContentSound HoursDisjoint DoneMeansIngested
PROPERTIES CleanCrawlsAgree OverwriteNeedsMishap
