----------------------------- MODULE XliffUnits -----------------------------
(***************************************************************************)
(* What an XLIFF document says of one key in one locale (service/xliff):   *)
(* the units an export makes of a localization, when an import may take a  *)
(* unit, and what it makes of it.                                          *)
(*                                                                         *)
(* A unit names a key and a place: ids are unique and resolve to what they *)
(* were made of.  In a document an argument is written with its number and *)
(* a reference with its position; the catalog writes them in the form that *)
(* Outward takes from it and Inward brings back.                           *)
(***************************************************************************)
EXTENDS TranslationTree

CONSTANTS
    Outward(_, _),     \* a text in a document, in a substitution or elsewhere
    Inward(_, _),      \* a document's text in the catalog
    Positioned(_),     \* the substitutions a text refers to with a position
    ArgumentOf(_),     \* a substitution's argument as a text
    Identifier         \* a unit id, read as a text

ASSUME ExchangeAssumption ==
    /\ Identifier \notin Texts \cup {NoText}
    /\ \A n \in Names : ArgumentOf(n) \in Texts
    /\ \A t \in Texts, b \in BOOLEAN :
        /\ Outward(b, t) \in Texts /\ Inward(b, t) \in Texts
        /\ Outward(b, Outward(b, t)) = Outward(b, t)
        /\ References(Outward(b, t)) = References(t)
        /\ References(Inward(b, t)) = References(t)
        /\ Positioned(t) \subseteq References(t)

InSubstitution(p) == p.at \in Names

(* Target states; none stands for no attribute.                            *)
ImportState(s) ==
    CASE s \in {"new", "needs-translation"} -> "new"
      [] s \in {"needs-review-l10n", "needs-review-translation"} -> "needs_review"
      [] s \in {"none", "translated", "final"} -> "translated"

ImportableStates ==
    {"none", "translated", "final", "new", "needs-translation",
     "needs-review-l10n", "needs-review-translation"}

(* Mistake: the document takes the state in the catalog's spelling.        *)
CatalogState(s) == s

ExportState(s) == IF s = "needs_review" THEN "needs-review-l10n" ELSE s

TargetStates == ImportableStates \cup {"unsupported"}

XliffUnit(keys) ==
    [key : keys, place : Place, source : Texts \cup {Identifier, NoText},
     target : Texts \cup {NoText}, state : TargetStates]

-----------------------------------------------------------------------------
(* source_leaf: the place, else its other category; outside substitutions  *)
(* then the default device, the root and its defaults.                     *)
SourceLeaf(loc, p) ==
    LET At(at, c) == [at |-> at, plural |-> c]
        near == IF p.plural = Whole THEN <<p>> ELSE <<p, At(p.at, AnyPlural)>>
        far == IF InSubstitution(p) THEN <<>>
               ELSE (IF p.at \in Devices THEN <<At(AnyDevice, Whole)>> ELSE <<>>)
                    \o <<RootPlace, At(Root, AnyPlural), At(AnyDevice, Whole)>>
        found == {i \in DOMAIN (near \o far) : (near \o far)[i] \in DOMAIN loc}
    IN  IF found = {} THEN <<>>
        ELSE <<(near \o far)[CHOOSE i \in found : \A j \in found : i <= j]>>

HasSourceLeaf(locs, p) == SourceLeaf(Source(locs), p) # <<>>

(* export_text fails on a reference to a substitution that is not there.   *)
Shows(loc, p, text) ==
    ~InSubstitution(p) /\ Substitutions(loc) # {} => References(text) \subseteq Substitutions(loc)

Shown(loc, p, text) ==
    IF InSubstitution(p) \/ Substitutions(loc) # {} THEN Outward(InSubstitution(p), text) ELSE text

(* source_text.                                                            *)
HasXliffSource(locs, p) ==
    HasSourceLeaf(locs, p) =>
        LET q == SourceLeaf(Source(locs), p)[1] IN Shows(Source(locs), q, Source(locs)[q].text)

XliffSource(locs, p) ==
    IF HasSourceLeaf(locs, p)
    THEN LET q == SourceLeaf(Source(locs), p)[1] IN Shown(Source(locs), q, Source(locs)[q].text)
    ELSE IF InSubstitution(p) THEN Identifier ELSE KeyText

-----------------------------------------------------------------------------
ExportShape(locs, l) ==
    IF l \in DOMAIN locs THEN locs[l]
    ELSE IF SourceLanguage \in DOMAIN locs THEN locs[SourceLanguage]
    ELSE [p \in {RootPlace} |-> New(KeyText)]

(* export_paths: the leaves, and every category of the locale beside one.  *)
ExportPlaces(locs, l) == DOMAIN RequiredShape(ExportShape(locs, l), Categories(l), FALSE)

Skipped(locs, l, p) == l \in DOMAIN locs /\ p \in DOMAIN locs[l] /\ Ready(locs[l][p])

UnitPlaces(locs, l, untranslatedOnly) ==
    {p \in ExportPlaces(locs, l) : ~(untranslatedOnly /\ Skipped(locs, l, p))}

(* A category of a substitution that only the target has takes the source  *)
(* context of its other.                                                   *)
HasContext(locs, l, p) ==
    InSubstitution(p) /\ ~HasSourceLeaf(locs, p) /\ l \in DOMAIN locs /\ p \notin DOMAIN locs[l]
        => [p EXCEPT !.plural = AnyPlural] \in DOMAIN locs[l]

CanExport(locs, l, untranslatedOnly) ==
    LET shape == ExportShape(locs, l)
    IN  /\ DOMAIN locs \cap {l, SourceLanguage} # {} => WellFormed(shape)
        /\ (\E p \in DOMAIN shape : p.plural # Whole) => Categories(l) # {}
        /\ \A p \in UnitPlaces(locs, l, untranslatedOnly) :
                HasContext(locs, l, p) /\ HasXliffSource(locs, p)

ExportUnit(k, locs, l, p) ==
    LET present == l \in DOMAIN locs /\ p \in DOMAIN locs[l]
    IN  [key |-> k, place |-> p, source |-> XliffSource(locs, p),
         target |-> IF present THEN Shown(locs[l], p, locs[l][p].text) ELSE NoText,
         state |-> IF present THEN ExportState(locs[l][p].state) ELSE "none"]

ExportUnits(k, locs, l, untranslatedOnly) ==
    {ExportUnit(k, locs, l, p) : p \in UnitPlaces(locs, l, untranslatedOnly)}

-----------------------------------------------------------------------------
(* Mistake: the source text of a unit is not compared.                     *)
AnySource(locs, u) == TRUE

(* validate_source.  An id that stands for the source of a substitution    *)
(* only the target has says nothing.                                       *)
SourceMatches(locs, u) ==
    \/ u.source = NoText
    \/ ~HasSourceLeaf(locs, u.place) /\ InSubstitution(u.place)
    \/ /\ HasXliffSource(locs, u.place)
       /\ XliffSource(locs, u.place) =
            IF HasSourceLeaf(locs, u.place) /\ u.source # Identifier
            THEN Shown(Source(locs), SourceLeaf(Source(locs), u.place)[1], u.source)
            ELSE u.source

(* Xcode leaves the source out of a plural unit it has added; such a unit  *)
(* must find its leaf.                                                     *)
SourceLeftOut(locs, l, u) ==
    u.source = NoText =>
        u.place.plural # Whole /\ l \in DOMAIN locs /\ u.place \in DOMAIN locs[l]

(* The checks of a unit by itself.                                         *)
UnitHolds(locs, l, u) ==
    /\ Supported(u.place) /\ SourceLeftOut(locs, l, u)
    /\ u.target # NoText => SourceMatches(locs, u) /\ u.state \in ImportableStates

(* Mistake: of two units for one place, the later in the document counts.  *)
AnyUnits(us) == TRUE

OneUnitPerPlace(us) == \A u, v \in us : u.key = v.key /\ u.place = v.place => u = v

(* overlapping: one place on the way to another.                           *)
PlacesApart(us) == \A u, v \in us : u.key = v.key => u.place \notin Above(v.place)

Defined(locs, l) ==
    UNION {Substitutions(locs[m]) : m \in {l, SourceLanguage} \cap DOMAIN locs}

(* gather: a new substitution takes its argument from the texts that refer *)
(* to it with a position, and its type from its own.                       *)
Introduced(us, n) ==
    /\ \E u \in us : ~InSubstitution(u.place) /\ n \in Positioned(u.target)
    /\ \E u \in us :
        u.place.at = n /\ u.target # Blank /\ CompatiblePart(ArgumentOf(n), u.target)

MetadataHolds(locs, l, us) ==
    \A u \in us : InSubstitution(u.place) =>
        u.place.at \in Defined(locs, l) \/ Introduced(us, u.place.at)

(* Mistake: a text refers only to substitutions the document has units of. *)
MetadataInDocument(locs, l, us) == {u.place.at : u \in {v \in us : InSubstitution(v.place)}}

MetadataNames(locs, l, us) ==
    {u.place.at : u \in {v \in us : InSubstitution(v.place)}}
    \cup (IF \E u \in us : ~InSubstitution(u.place) THEN Defined(locs, l) ELSE {})

(* validate_format.                                                        *)
FormatMatches(locs, l, us, u) ==
    LET source == IF InSubstitution(u.place) /\ ~HasSourceLeaf(locs, u.place)
                  THEN ArgumentOf(u.place.at) ELSE XliffSource(locs, u.place)
    IN  u.target # Blank =>
            /\ HasXliffSource(locs, u.place)
            /\ References(source) \subseteq Substitutions(Source(locs))
            /\ References(u.target) \subseteq MetadataNames(locs, l, us)
            /\ IF InSubstitution(u.place) THEN CompatiblePart(source, u.target)
               ELSE Compatible(source, u.target)

WithTargets(us) == {u \in us : u.target # NoText}

(* plan_import up to the candidate, for the units of one key.              *)
Plannable(locs, l, us) ==
    /\ \A u \in us : UnitHolds(locs, l, u)
    /\ OneUnitPerPlace(us) /\ PlacesApart(WithTargets(us))
    /\ MetadataHolds(locs, l, WithTargets(us))
    /\ \A u \in WithTargets(us) : FormatMatches(locs, l, WithTargets(us), u)

-----------------------------------------------------------------------------
(* apple_mutation.  A unit of a substitution, or one that refers to one,   *)
(* brings the shape of the source.                                         *)
Value(u) == Inward(InSubstitution(u.place), u.target)
NeedsTemplate(u) == InSubstitution(u.place) \/ References(Value(u)) # {}

TemplateOf(locs, l, u) ==
    IF NeedsTemplate(u) /\ SourceLanguage \in DOMAIN locs THEN InitialLocale(locs, l)
    ELSE NoLocalization

ImportBase(locs, l, u) == IF l \in DOMAIN locs THEN locs[l] ELSE TemplateOf(locs, l, u)

(* Mistake: a variation takes the place of a translation.                  *)
ReachesOver(loc, p) ==
    InSubstitution(p) \/
        /\ p.at = Root /\ p.plural # Whole => ~HasDevice(loc)
        /\ p.at \in Devices => ~HasPlural(loc, Root)
        /\ p.plural = Whole => ~Varied(loc, p.at)

(* ensure_node.                                                            *)
Reaches(loc, p) ==
    InSubstitution(p) \/
        /\ \A q \in Above(p) \cap DOMAIN loc : loc[q] = New(Blank)
        /\ p.at = Root /\ p.plural # Whole => ~HasDevice(loc)
        /\ p.at \in Devices => ~HasPlural(loc, Root)
        /\ p.plural = Whole => ~Varied(loc, p.at)

CanImport(locs, l, u) ==
    /\ NeedsTemplate(u) /\ SourceLanguage \in DOMAIN locs =>
            Categories(l) # {} /\ CanInitialize(locs)
    /\ Reaches(ImportBase(locs, l, u), u.place)

(* A substitution brings the source's root unit along, and a reference the *)
(* leaves of a substitution that is missing.                               *)
Brought(locs, l, u) ==
    LET base == ImportBase(locs, l, u)
        template == TemplateOf(locs, l, u)
        present == Substitutions(base) \cup {u.place.at}
    IN  {p \in DOMAIN template :
            \/ p = RootPlace /\ InSubstitution(u.place) /\ p \notin DOMAIN base
            \/ InSubstitution(p) /\ p.at \in References(Value(u)) \ present}

(* Mistake: the units a new variation takes the place of stay.             *)
ImportedBeside(locs, l, u) ==
    LET base == ImportBase(locs, l, u)
    IN  [p \in DOMAIN base \cup Brought(locs, l, u) \cup {u.place} |->
            IF p = u.place THEN [state |-> ImportState(u.state), text |-> Value(u)]
            ELSE IF p \in DOMAIN base THEN base[p] ELSE TemplateOf(locs, l, u)[p]]

Imported(locs, l, u) ==
    LET base == ImportBase(locs, l, u)
    IN  [p \in (DOMAIN base \ Above(u.place)) \cup Brought(locs, l, u) \cup {u.place} |->
            IF p = u.place THEN [state |-> ImportState(u.state), text |-> Value(u)]
            ELSE IF p \in DOMAIN base THEN base[p] ELSE TemplateOf(locs, l, u)[p]]

WithImported(locs, l, u) ==
    [m \in DOMAIN locs \cup {l} |-> IF m = l THEN Imported(locs, l, u) ELSE locs[m]]
=============================================================================
