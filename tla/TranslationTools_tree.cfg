SPECIFICATION MCSpec
CONSTANTS
    SourceLanguage = "en"
    Languages = {"de"}
    Root = "root"
    Whole = "whole"
    Devices = {"iphone", "anydevice"}
    Names = {"count"}
    Plurals = {"one", "other"}
    AnyDevice = "anydevice"
    AnyPlural = "other"
    Texts = {"", "plain", "number", "refers"}
    Blank = ""
    KeyText = "plain"
    NoText = "none"
    Categories <- MCCategories
    References <- MCReferences
    Compatible <- MCCompatible
    CompatiblePart <- MCCompatiblePart
    FormatTexts <- MCFormatTexts
    Metadata <- MCMetadata
    Keys = {"key", "renamed"}
    MaxKeys = 1
    Sources <- MCSources
    Drafts <- MCDrafts
    Requests <- MCRequests
    Batches <- MCBatches
    Imports <- MCImports
    Argument <- MCArgument
INVARIANTS
    TypeOK
    AcceptedIsWritten
    OnlyAcceptedIsWritten
    ListedCanBeSubmitted
    FormatsAreKept
PROPERTIES
    StrictBatchIsWhole
    ListStands
    SubmitStaysClean
