SPECIFICATION Spec
CONSTANTS
    first = first
    second = second
    link = link
    english = english
    german = german
    en = en
    de = de
    Absent = Absent
    None = None
    Files <- MCFiles
    Aliases <- MCAliases
    Contents <- MCContents
    Locales <- MCLocales
    SourceLanguage <- MCSourceLanguage
    Interrupts = FALSE
    FineTimes = TRUE
    MaxSaves = 3
INVARIANTS OneEntryPerPath HitIsFresh
PROPERTIES SourceLocaleKept ActiveIsKept
