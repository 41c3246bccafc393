-------------------------- MODULE TranslationTree --------------------------
(***************************************************************************)
(* The localizations of a key (model/xcstrings.rs), which leaves a locale  *)
(* needs (service/assessment), and what a submission makes of a            *)
(* localization (service/submission).                                      *)
(*                                                                         *)
(* A localization is a function from its places (LeafPlaces) to units.  A  *)
(* substitution's metadata is valid and follows from its name.             *)
(***************************************************************************)
EXTENDS LeafPlaces

CONSTANTS
    SourceLanguage,    \* the locale of the source texts
    Languages,         \* the other locales
    Texts,             \* values of units
    Blank,             \* the empty value
    KeyText,           \* a key, read as a text
    NoText,            \* no source text
    Categories(_),     \* CLDR's categories of a locale, empty for an unknown one
    References(_),     \* the substitutions a text refers to
    Compatible(_, _),  \* whether a text takes the format arguments of another
    CompatiblePart(_, _)   \* whether one in a substitution does

ASSUME TextsAssumption ==
    /\ Blank \in Texts /\ KeyText \in Texts /\ NoText \notin Texts
    /\ References(Blank) = {}
    /\ \A t \in Texts : References(t) \subseteq Names

Locales == Languages \cup {SourceLanguage}

ASSUME LocalesAssumption ==
    /\ SourceLanguage \notin Languages
    /\ \A l \in Locales : Categories(l) \subseteq Plurals

States == {"new", "needs_review", "translated"}
Unit == [state : States, text : Texts]

IsLocalization(loc) == DOMAIN loc \subseteq Place /\ loc \in [DOMAIN loc -> Unit]
AreLocalizations(locs) ==
    /\ DOMAIN locs \subseteq Locales /\ locs = [l \in DOMAIN locs |-> locs[l]]
    /\ \A l \in DOMAIN locs : IsLocalization(locs[l])

(* The places of the nodes on the way to a place.                          *)
Above(p) ==
    IF p.at \in Names THEN {}
    ELSE {RootPlace, [at |-> p.at, plural |-> Whole]} \ {p}

Varied(loc, at) == HasPlural(loc, at) \/ (at = Root /\ HasDevice(loc))
Substitutions(loc) == {n \in Names : \E p \in DOMAIN loc : p.at = n}

(* The nodes where collect_leaves has a diagnostic: nothing to translate,  *)
(* a unit beside variations, two axes in one place.                        *)
Faults(loc) ==
    {at \in {Root} \cup Devices :
        \/ at = Root /\ DOMAIN loc = {}
        \/ [at |-> at, plural |-> Whole] \in DOMAIN loc /\ Varied(loc, at)
        \/ at = Root /\ HasPlural(loc, Root) /\ HasDevice(loc)}

Referenced(loc) == UNION {References(loc[p].text) : p \in {q \in DOMAIN loc : q.at \notin Names}}

(* The texts outside substitutions refer to all of them and to no other.   *)
ReferencesHold(loc) == Referenced(loc) = Substitutions(loc)

WellFormed(loc) ==
    Faults(loc) = {} /\ (\A p \in DOMAIN loc : Supported(p)) /\ ReferencesHold(loc)

New(text) == [state |-> "new", text |-> text]

(* The leaves a locale needs, where it stands on the basis of another      *)
(* localization or of its own: the categories it lacks are copies of other.*)
RequiredShape(basis, categories, missing) ==
    LET kept == {p \in DOMAIN basis : missing /\ p.plural # Whole => p.plural \in categories}
        added == {[at |-> p.at, plural |-> c] :
                    p \in {q \in DOMAIN basis : q.plural # Whole}, c \in categories}
        fallback(p) == [p EXCEPT !.plural = AnyPlural]
    IN  [p \in kept \cup added |->
            IF p \in DOMAIN basis THEN basis[p]
            ELSE IF fallback(p) \in DOMAIN basis THEN basis[fallback(p)]
            ELSE New(Blank)]

SourceBasis(locs, text) ==
    IF SourceLanguage \in DOMAIN locs THEN locs[SourceLanguage]
    ELSE [p \in {RootPlace} |-> New(text)]

CanInitialize(locs) ==
    LET basis == SourceBasis(locs, Blank)
    IN  Faults(basis) = {} /\ \A p \in DOMAIN basis : Supported(p)

(* A new locale: the shape of the source, the texts that refer to          *)
(* substitutions kept and the others emptied.                              *)
InitialLocale(locs, l) ==
    LET shape == RequiredShape(SourceBasis(locs, Blank), Categories(l), TRUE)
    IN  [p \in DOMAIN shape |->
            New(IF References(shape[p].text) = {} THEN Blank ELSE shape[p].text)]

Basis(locs, l) == IF l \in DOMAIN locs THEN locs[l] ELSE SourceBasis(locs, KeyText)

(* The leaves that get_untranslated and its like return for a locale.      *)
Advertised(locs, l) ==
    DOMAIN RequiredShape(Basis(locs, l), Categories(l), l \notin DOMAIN locs)

Ready(unit) == unit.state = "translated"

(* Whether the assessment of a locale comes without diagnostics.           *)
Clean(locs, l) ==
    /\ Categories(l) # {}
    /\ Faults(Basis(locs, l)) = {} /\ ReferencesHold(Basis(locs, l))
    /\ \A p \in Advertised(locs, l) : Supported(p)

Complete(locs, l) ==
    /\ Clean(locs, l) /\ Advertised(locs, l) # {}
    /\ l \in DOMAIN locs
    /\ \A p \in Advertised(locs, l) : p \in DOMAIN locs[l] /\ Ready(locs[l][p])

SourceUnit(loc, p) ==
    LET found == SelectSeq(SourcePlaces(loc, p), LAMBDA q : q \in DOMAIN loc)
    IN  IF found = <<>> THEN NoText ELSE loc[found[1]].text

(* The text a translation is compared with: the source's, else what the    *)
(* target has there, else the key.                                         *)
SourceText(locs, l, p) ==
    LET In(m) == IF m \in DOMAIN locs THEN SourceUnit(locs[m], p) ELSE NoText
    IN  IF In(SourceLanguage) # NoText THEN In(SourceLanguage)
        ELSE IF In(l) # NoText THEN In(l)
        ELSE KeyText

(* validate_translation_formats.  Empty text needs no arguments.           *)
FormatHolds(locs, l, p, text) ==
    LET defined == UNION {Substitutions(locs[m]) : m \in {l, SourceLanguage} \cap DOMAIN locs}
        source == SourceText(locs, l, p)
    IN  text # Blank =>
            /\ p.at \notin Names => References(source) \cup References(text) \subseteq defined
            /\ IF p.at \in Names THEN CompatiblePart(source, text) ELSE Compatible(source, text)

(* Mistake: a variation takes the place of any simple translation.         *)
WritableOver(loc, source, p) ==
    IF p.at \in Names THEN p.at \in Substitutions(loc) \cup Substitutions(source)
    ELSE /\ RootPlace \in Above(p) \cap DOMAIN loc => Substitutions(loc) = {}
         /\ p.at = Root /\ p.plural # Whole => ~HasDevice(loc)
         /\ p.at \in Devices => ~HasPlural(loc, Root)
         /\ p.plural = Whole => ~Varied(loc, p.at)

(* Whether ensure_node comes to a place: it makes room where there is an   *)
(* empty new unit, and neither replaces a translation, nor puts one axis   *)
(* beside the other, nor a unit beside variations.                         *)
Writable(loc, source, p) ==
    IF p.at \in Names THEN p.at \in Substitutions(loc) \cup Substitutions(source)
    ELSE /\ \A q \in Above(p) \cap DOMAIN loc :
                loc[q] = New(Blank) /\ (q = RootPlace => Substitutions(loc) = {})
         /\ p.at = Root /\ p.plural # Whole => ~HasDevice(loc)
         /\ p.at \in Devices => ~HasPlural(loc, Root)
         /\ p.plural = Whole => ~Varied(loc, p.at)

Put(loc, texts) ==
    LET replaced == UNION {Above(p) : p \in DOMAIN texts}
    IN  [p \in (DOMAIN loc \ replaced) \cup DOMAIN texts |->
            IF p \in DOMAIN texts THEN [state |-> "needs_review", text |-> texts[p]] ELSE loc[p]]

NoLocalization == [p \in {} |-> New(Blank)]

Source(locs) == IF SourceLanguage \in DOMAIN locs THEN locs[SourceLanguage] ELSE NoLocalization

(* Mistake: a root with substitutions starts from nothing.                 *)
NeedsVariations(locs, places) ==
    RootPlace \notin places /\ Varied(Source(locs), Root)

(* Mistake: a variation starts from nothing.                               *)
NeedsParent(locs, places) ==
    /\ RootPlace \in DOMAIN Source(locs) /\ Substitutions(Source(locs)) # {}
    /\ \E p \in places : p = RootPlace \/ p.at \in Names

(* A missing target takes the source's shape when the request is for a     *)
(* part of it: a variation, or a root with its substitutions.              *)
NeedsShape(locs, places) ==
    \/ /\ RootPlace \in DOMAIN Source(locs) /\ Substitutions(Source(locs)) # {}
       /\ \E p \in places : p = RootPlace \/ p.at \in Names
    \/ RootPlace \notin places /\ Varied(Source(locs), Root)

StagedOn(locs, l, places) ==
    IF l \in DOMAIN locs THEN locs[l]
    ELSE IF NeedsShape(locs, places) THEN InitialLocale(locs, l)
    ELSE NoLocalization

(* One request, staged on a clone of the entry.  The places of a request   *)
(* are one place or the categories of one plural axis, so that the first   *)
(* makes room for the others.                                              *)
Staged(locs, l, texts) ==
    [m \in DOMAIN locs \cup {l} |->
        IF m = l THEN Put(StagedOn(locs, l, DOMAIN texts), texts) ELSE locs[m]]

(* Mistake: the references are not checked again.                          *)
CanStageAnyText(locs, l, texts) ==
    /\ l \notin DOMAIN locs /\ NeedsShape(locs, DOMAIN texts) => CanInitialize(locs)
    /\ \A p \in DOMAIN texts : Writable(StagedOn(locs, l, DOMAIN texts), Source(locs), p)

CanStage(locs, l, texts) ==
    /\ l \notin DOMAIN locs /\ NeedsShape(locs, DOMAIN texts) => CanInitialize(locs)
    /\ \A p \in DOMAIN texts : Writable(StagedOn(locs, l, DOMAIN texts), Source(locs), p)
    /\ ReferencesHold(Put(StagedOn(locs, l, DOMAIN texts), texts))

(* A substitution named by its path needs a parent that shows it, in the   *)
(* target or in the source.                                                *)
HasParent(locs, l, n) ==
    \E m \in {l, SourceLanguage} \cap DOMAIN locs :
        RootPlace \in DOMAIN locs[m] \/ n \in Referenced(locs[m])

(* Mistake: the same place named twice is not seen.                        *)
OverlappingOthers(p, q) ==
    /\ p.at \notin Names /\ q.at \notin Names
    /\ p \in Above(q) \/ q \in Above(p) \/ (p.at = Root) # (q.at = Root)

(* Two destinations of one batch in the same localization.                 *)
Overlapping(p, q) ==
    \/ p = q
    \/ /\ p.at \notin Names /\ q.at \notin Names
       /\ p \in Above(q) \/ q \in Above(p) \/ (p.at = Root) # (q.at = Root)
=============================================================================
