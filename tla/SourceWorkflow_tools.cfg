SPECIFICATION Spec
CONSTANTS
    save = save
    delete = delete
    s1 = s1
    s2 = s2
    c1 = c1
    t1 = t1
    t2 = t2
    w1 = w1
    w2 = w2
    None = None
    NoContext = NoContext
    Keys <- TwoKeys
    Contexts <- OneContext
    Texts <- TwoTexts
    Workers <- OneWorker
    Sources <- MCSources
    ForeignStates <- WithStale
    UnguardedTools = TRUE
    MaxEdits = 2
SYMMETRY MCSymmetry
INVARIANTS SyncRepairs EvidenceSurvives
