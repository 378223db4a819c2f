SPECIFICATION Spec
CONSTANTS
    Clients = {c1}
    Shipped = {c1}
    k1 = k1
    k2 = k2
    Names = {k1, k2}
    NoName = NoName
    Initially <- OneOrBoth
    Addresses = {a1}
    NoAddress = NoAddress
    PageSize = 1
    MaxRuns = 2
    MaxLines = 1
    MaxEdits = 1
    MaxFaults = 1
    Loggers = {apps, capture}
    StreamingNames = {capture}
    BatchNames = {apps}
    ClientLogger = apps
    CaptureLogger = capture
    Captured <- CallAndGarbage
    MaxCopies = 2
INVARIANT OkCallsCountedOk
