SPECIFICATION Spec
CONSTANTS
    SourceLanguage = "en"
    Languages = {"de"}
    Root = "root"
    Whole = "whole"
    Devices = {"iphone", "anydevice"}
    Names = {"count"}
    Plurals = {"one", "other"}
    AnyDevice = "anydevice"
    AnyPlural = "other"
    Texts = {"", "plain", "number", "arg", "refers", "refers1"}
    Blank = ""
    KeyText = "plain"
    NoText = "none"
    Identifier = "id"
    Categories <- MCCategories
    References <- MCReferences
    Positioned <- MCPositioned
    ArgumentOf <- MCArgumentOf
    Compatible <- MCCompatible
    CompatiblePart <- MCCompatible
    Outward <- MCOutward
    Inward <- MCInward
    None = None
    Keys = {"key"}
    Contexts = {c1, c2}
    Entries <- MCEntries
    Sources <- MCSources
    Answers <- MCAnswers
    MaxExports = 1
    MaxEdits = 0
    MaxAnswers = 0
SYMMETRY MCSymmetry
PROPERTIES ImportStaysClean
CHECK_DEADLOCK FALSE
