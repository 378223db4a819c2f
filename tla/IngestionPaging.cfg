SPECIFICATION Spec
CONSTANTS
    c1 = c1
    c2 = c2
    e1 = e1
    e2 = e2
    NoDate = NoDate
    NoObject = NoObject
    Events = {e1}
    Contracts = {c1}
    Moments <- WholeHours
    PerHour = 2
    Histories <- PagingHistories
    Rankings <- OneContract
    AfterBlock <- PagingAfter
    BeforeBlock <- PagingBefore
    Heads <- PagingHeads
    Offset = 3
    MaxAttempts = 2
CHECK_DEADLOCK FALSE
INVARIANTS CleanMeansWhole
PROPERTIES EveryEventEnds PinnedHourIngested
