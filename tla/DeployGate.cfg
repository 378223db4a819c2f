SPECIFICATION Spec
CONSTANTS
    up = up
    down = down
    x = x
    y = y
    r1 = r1
    r2 = r2
    None = None
    Resources = {x, y}
    Runs = {r1, r2}
    Order <- TwoStacks
    Upstreams <- Chain
    Deferred = {up}
    Plans <- RunPlans
    Acks = {TRUE, FALSE}
    AppStacks = {down}
    MaxEvents = 1
CHECK_DEADLOCK FALSE
INVARIANTS TypeOK StopsAtFailure AppliedAsApproved DestroysAcknowledged
PROPERTIES KeepsContract Converges
