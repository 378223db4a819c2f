SPECIFICATION Spec
CONSTANTS
    s1 = s1
    s2 = s2
    r1 = r1
    r2 = r2
    r3 = r3
    r4 = r4
    w1 = w1
    w2 = w2
    Free = Free
    States = {s1}
    Runs = {r1, r2, r3, r4}
    CI = {r1, r2}
    Undated = {r4}
    Sweepers = {w1, w2}
    StaleAfter = 2
    JobLimit = 1
CHECK_DEADLOCK FALSE
INVARIANT ExclusiveUnlessStale
PROPERTIES JobsKeepLock AbandonedLockFreed
