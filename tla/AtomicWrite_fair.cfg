SPECIFICATION FairSpec
CONSTANTS
    catalog = catalog
    sidecar = sidecar
    alias = alias
    p1 = p1
    p2 = p2
    old = old
    new = new
    Paths <- MCPaths
    Entry <- MCEntry
    Contents <- MCContents
    Requests <- FewRequests
    Callers <- MCCallers
    Absent = Absent
    Any = Any
    Free = Free
    NoCall = NoCall
    Torn = Torn
    Editors = TRUE
    IOErrors = TRUE
    MaxCalls = 1
PROPERTIES EveryCallReturns
CHECK_DEADLOCK FALSE
