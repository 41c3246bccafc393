SPECIFICATION Spec
CONSTANTS
    Pointers <- MCPointers
    Atoms <- MCAtoms
    Object = "object"
    Absent = "absent"
    Drafts <- MCDrafts
    Branches <- MCBranches
    Outputs = {"ours", "merged"}
    Missing = Missing
    NoPreview = NoPreview
    Errors <- MCErrors
    MaxSaves = 1
INVARIANTS
    EngineAgrees
    PlacesMergeThreeWay
    OrderDoesNotMatter
PROPERTIES
    NoErrorIntroduced
    AppliesWhatWasPreviewed
    InPlaceKeepsEdits
