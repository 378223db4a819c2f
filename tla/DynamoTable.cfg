SPECIFICATION Spec
CONSTANTS
    c1 = c1
    c2 = c2
    v = v
    NoItem = NoItem
    Touched = Touched
    Clients = {c1, c2}
    Callers = {c1}
    Keys <- TwoKeys
    Values = {v}
    Initial <- FullOrOne
    Ranges <- WholeAndPrefix
    Limits = {0, 2}
    Batches <- TwoBatches
    BatchSize = 2
    MaxCalls = 1
    MaxWrites = 2
    MaxFaults = 1
CHECK_DEADLOCK FALSE
INVARIANTS TypeOK QuerySeesStable BatchLands SemaphoreExclusive
PROPERTY EveryCallEnds
