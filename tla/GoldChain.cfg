SPECIFICATION Spec
CONSTANTS
    etherscan = etherscan
    k1 = k1
    k2 = k2
    d1 = d1
    d2 = d2
    d3 = d3
    Sources = {etherscan}
    Rows = {k1, k2}
    SourceOf <- OneView
    MaxVersion = 2
    Present <- ComeAndGo
    MaxFiles = 2
    Slots = {d1, d2, d3}
    MaxAttempts = 2
CHECK_DEADLOCK FALSE
INVARIANTS TypeOK LandedStays
PROPERTIES NeverOlder ExportLands
