SPECIFICATION Spec
CONSTANTS
    catalog = catalog
    sidecar = sidecar
    alias = alias
    p1 = p1
    p2 = p2
    old = old
    new = new
    Paths <- MCPaths
    Entry <- MCEntry
    Contents <- MCContents
    Requests <- MCRequests
    Callers <- MCCallers
    Absent = Absent
    Any = Any
    Free = Free
    NoCall = NoCall
    Torn = Torn
    Editors = FALSE
    IOErrors = TRUE
    MaxCalls = 1
INVARIANTS NeverTorn PublishesOwnContent NoCircularWait
PROPERTIES KeepsPromise
CHECK_DEADLOCK FALSE
