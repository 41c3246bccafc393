SPECIFICATION QueueSpec
CONSTANTS
    save = save
    delete = delete
    s1 = s1
    s2 = s2
    t1 = t1
    w1 = w1
    None = None
    NoContext = NoContext
    Keys <- MCKeys
    Contexts = {NoContext}
    Texts <- OneText
    Workers = {w1}
    Sources <- MCSources
    ForeignStates <- OnlyReady
    UnguardedTools = TRUE
    MaxEdits = 1
    Order <- MCOrder
    Filters <- MCFilters
    BatchSize = 1
INVARIANTS PagesMakeTheQueue EmptyQueueIsDone
