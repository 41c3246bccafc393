SPECIFICATION GuidanceSpec
CONSTANTS
    None = None
    c1 = c1
    c2 = c2
    Clients = {c1, c2}
    Server <- MCServer
    Breaks = {" ", "_"}
    Specifiers = {"%@"}
    Mask = "_"
    Unspaced = {}
    Edits <- MCEdits
    EditorFiles <- MCEditorFiles
    MaxEdits = 1
    Root = "root"
    Whole = "whole"
    Devices = {"iphone", "anydevice"}
    Names = {"count"}
    Plurals = {"one", "other"}
    AnyDevice = "anydevice"
    AnyPlural = "other"
    Unparsed = Unparsed
    Blank = Blank
    Documents <- MCDocuments
    Uses <- MCUses
    Screens = {"settings", "home"}
    Roles = {"button", "label"}
    Catalogs <- MCCatalogs
    Records <- MCRecords
    Batches <- MCBatches
    Reviewed <- MCReviewed
SYMMETRY MCSymmetry
INVARIANTS
    NoFalseClean
    RulesCanBeMet
PROPERTIES
    RepairsAreExact
    AppliesToWhatWasShown
    EntriesReadBack
