SPECIFICATION Spec
CONSTANTS
    up = up
    down = down
    x = x
    y = y
    r1 = r1
    r2 = r2
    None = None
    Resources = {x, y}
    Runs = {r1}
    Order <- OneStack
    Upstreams <- NoUpstreams
    Deferred = {}
    Plans <- ManyPlans
    Acks = {TRUE}
    AppStacks = {}
    MaxEvents = 1
CHECK_DEADLOCK FALSE
INVARIANTS AppliedIsApproved

