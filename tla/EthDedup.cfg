SPECIFICATION Spec
CONSTANTS
    Blocks <- TreeBlocks
    Number <- TreeNumber
    Parent <- TreeParent
    NoBlock = "none"
    Txs <- TreeTxs
    TxRows <- TreeRows
    WellFormed <- TreeWellFormed
    To <- TreeTo
    NoAddress = "null"
    WindowBlocks = 2
    Confirmations = 1
    Single = {}
    MaxCopies = 1
    MaxFailures = 0
INVARIANT OneRowPerTransaction
