SPECIFICATION Spec
CONSTANTS
    Blocks <- ForkBlocks
    Number <- ForkNumber
    Parent <- ForkParent
    NoBlock = "none"
    Txs <- OneTx
    TxRows <- ForkRows
    WellFormed <- ForkWellFormed
    To <- Called
    NoAddress = "null"
    WindowBlocks = 2
    Confirmations = 1
    Single <- ForkSingle
    MaxCopies = 2
    MaxFailures = 1
INVARIANTS TypeOK JoinKeepsCount IndexFollowsHead ValidIsCanonical GoldExcludesOrphans
PROPERTIES CanonicalIsFinal RowsArrive
