--------------------------- MODULE XliffExchange ---------------------------
(***************************************************************************)
(* A catalog, its workflow sidecar, and the two files an export leaves for *)
(* a translator: the XLIFF document and the map of the source versions it  *)
(* was made from (xliff_operation.rs, xliff_operation/export.rs).          *)
(*                                                                         *)
(* An export writes the map first and the document second; sources,        *)
(* contexts and targets change, and the document is worked on, in between  *)
(* and after.  An import takes all of a document or nothing, unit by unit  *)
(* on a candidate.  It writes what it has read: what comes between its     *)
(* read and its write is the subject of SourceWorkflow.                    *)
(***************************************************************************)
EXTENDS XliffUnits, FiniteSets, Functions

CONSTANTS
    Keys,
    Entries,      \* the entries developers leave in the catalog
    Sources,      \* the source localizations they give an entry
    Contexts,     \* authored contexts
    Answers,      \* what a translator puts into a unit: target and state
    None,         \* no checkpoint, no document, no map
    MaxExports, MaxEdits, MaxAnswers   \* bounds on each

ASSUME ExchangeDataAssumption ==
    /\ \A e \in Entries :
        /\ e \in [shouldTranslate : BOOLEAN, localizations : {e.localizations}]
        /\ AreLocalizations(e.localizations)
    /\ \A s \in Sources : IsLocalization(s)
    /\ Answers \subseteq [target : Texts \cup {NoText}, state : TargetStates]
    /\ MaxExports \in Nat /\ MaxEdits \in Nat /\ MaxAnswers \in Nat

(* The names are those in the files at hand.                               *)
ASSUME FinitePlaces == IsFiniteSet(Place)

VARIABLES
    catalog,    \* Keys -> entries
    contexts,   \* the sidecar: authored contexts ...
    baseline,   \* ... and the source versions of its checkpoint
    xml,        \* the document
    versions,   \* the map beside it
    job,        \* the export or the import under way
    exports, edits, answers

files == <<catalog, contexts, baseline>>
counts == <<exports, edits, answers>>
vars == <<files, xml, versions, job, counts>>

(* source_snapshot: everything of the source but its editorial state.      *)
VersionOf(k) ==
    LET source == Source(catalog[k].localizations)
    IN  [texts |-> [p \in DOMAIN source |-> source[p].text],
         authored |-> SourceLanguage \in DOMAIN catalog[k].localizations,
         shouldTranslate |-> catalog[k].shouldTranslate,
         context |-> contexts[k]]

Versions == [k \in Keys |-> VersionOf(k)]

Current(k) == baseline # None /\ baseline[k] = VersionOf(k)

Lowered(k) ==
    [l \in DOMAIN catalog[k].localizations |->
        [p \in DOMAIN catalog[k].localizations[l] |->
            LET u == catalog[k].localizations[l][p]
            IN  IF /\ l # SourceLanguage /\ catalog[k].shouldTranslate
                   /\ ~Current(k) /\ Ready(u)
                THEN [u EXCEPT !.state = "needs_review"] ELSE u]]

(* inspect: with a checkpoint, a translation whose source has changed      *)
(* counts for review.                                                      *)
Effective(k) == IF baseline = None THEN catalog[k].localizations ELSE Lowered(k)

Idle == [pc |-> "idle"]

Document(l, us, captured) == [locale |-> l, units |-> us, captured |-> captured]

Init ==
    /\ catalog \in [Keys -> Entries]
    /\ contexts \in [Keys -> Contexts]
    /\ baseline \in {None, Versions}
    /\ xml = None /\ versions = None /\ job = Idle
    /\ exports = 0 /\ edits = 0 /\ answers = 0

-----------------------------------------------------------------------------
Exported(l, untranslatedOnly) ==
    UNION {ExportUnits(k, Effective(k), l, untranslatedOnly) :
                k \in {j \in Keys : catalog[j].shouldTranslate}}

(* The versions of exactly the keys in the document.                       *)
Captured(us) == [k \in {u.key : u \in us} |-> VersionOf(k)]

(* prepare_export.                                                         *)
Prepared(l, untranslatedOnly) ==
    LET us == Exported(l, untranslatedOnly)
    IN  Document(l, us, Captured(us))

Exportable(l, untranslatedOnly) ==
    /\ job = Idle /\ exports < MaxExports
    /\ \A k \in Keys :
        catalog[k].shouldTranslate => CanExport(Effective(k), l, untranslatedOnly)

(* save_export_bundle as far as the map; the bytes there were are kept for *)
(* the second write.                                                       *)
ExportVersions(l, untranslatedOnly) ==
    /\ Exportable(l, untranslatedOnly)
    /\ versions' = Prepared(l, untranslatedOnly).captured
    /\ job' = [pc |-> "exporting", document |-> Prepared(l, untranslatedOnly), expected |-> xml]
    /\ exports' = exports + 1
    /\ UNCHANGED <<files, xml, edits, answers>>

WriteXml ==
    /\ job.pc = "exporting"
    /\ xml = job.expected
    /\ xml' = job.document /\ answers' = 0
    /\ job' = Idle
    /\ UNCHANGED <<files, versions, exports, edits>>

(* The write is refused or fails, or the process dies: the map stays.      *)
XmlNotWritten ==
    /\ job.pc = "exporting"
    /\ job' = Idle
    /\ UNCHANGED <<files, xml, versions, counts>>

(* export_xliff: the document alone, the map returned to a caller who      *)
(* saves it.                                                               *)
ExportTool(l, untranslatedOnly) ==
    /\ Exportable(l, untranslatedOnly)
    /\ xml' = Prepared(l, untranslatedOnly) /\ answers' = 0
    /\ versions' = xml'.captured
    /\ exports' = exports + 1
    /\ UNCHANGED <<files, job, edits>>

(* The translator answers a unit, in its place or beside it, leaves it out *)
(* or leaves its source out.                                               *)
Translate(u, v) ==
    /\ job.pc # "importing" /\ xml # None /\ answers < MaxAnswers
    /\ u \in xml.units
    /\ \E us \in {xml.units \ {u}, (xml.units \ {u}) \cup {v}, xml.units \cup {v}} :
            xml' = [xml EXCEPT !.units = us]
    /\ answers' = answers + 1
    /\ UNCHANGED <<files, versions, job, exports, edits>>

-----------------------------------------------------------------------------
UnitsOf(us, k) == {u \in us : u.key = k}

(* plan_import up to the candidate.                                        *)
BeginImport ==
    /\ job = Idle /\ xml # None /\ versions # None
    /\ xml.locale # SourceLanguage
    /\ \A u \in xml.units : catalog[u.key].shouldTranslate
    /\ \A k \in Keys : Plannable(catalog[k].localizations, xml.locale, UnitsOf(xml.units, k))
    /\ job' = [pc |-> "importing", todo |-> WithTargets(xml.units),
               work |-> [k \in Keys |-> catalog[k].localizations]]
    /\ UNCHANGED <<files, xml, versions, counts>>

(* The order is the document's, which is any.                              *)
Apply(u) ==
    /\ job.pc = "importing" /\ u \in job.todo
    /\ CanImport(job.work[u.key], xml.locale, u)
    /\ job' = [pc |-> "importing", todo |-> job.todo \ {u},
               work |-> [job.work EXCEPT ![u.key] = WithImported(@, xml.locale, u)]]
    /\ UNCHANGED <<files, xml, versions, counts>>

Accepted == WithTargets(xml.units)

(* validate_candidate.                                                     *)
CandidateHolds ==
    \A u \in Accepted : ReferencesHold(job.work[u.key][xml.locale])

VersionsMatch ==
    \A u \in Accepted : u.key \in DOMAIN versions /\ versions[u.key] = VersionOf(u.key)

(* A ready target needs a checkpoint of the source as it is.               *)
ReadyHasCheckpoint ==
    \A u \in Accepted :
        Ready(job.work[u.key][xml.locale][u.place]) => Current(u.key)

Commit ==
    /\ job.pc = "importing" /\ job.todo = {} /\ Accepted # {}
    /\ CandidateHolds /\ VersionsMatch /\ ReadyHasCheckpoint
    /\ catalog' = [k \in Keys |-> [catalog[k] EXCEPT !.localizations = job.work[k]]]
    /\ job' = Idle
    /\ UNCHANGED <<contexts, baseline, xml, versions, counts>>

(* A rejected document, a dry run, a write that is refused.                *)
Decline ==
    /\ job.pc = "importing"
    /\ job' = Idle
    /\ UNCHANGED <<files, xml, versions, counts>>

-----------------------------------------------------------------------------
Edit == job.pc # "importing" /\ edits < MaxEdits /\ edits' = edits + 1
        /\ UNCHANGED <<xml, versions, job, exports, answers>>

DeveloperEdit(k, entry) ==
    Edit /\ catalog' = [catalog EXCEPT ![k] = entry] /\ UNCHANGED <<contexts, baseline>>

SourceEdit(k, source) ==
    /\ Edit
    /\ catalog' = [catalog EXCEPT ![k].localizations =
            [l \in DOMAIN @ \cup {SourceLanguage} |-> IF l = SourceLanguage THEN source ELSE @[l]]]
    /\ UNCHANGED <<contexts, baseline>>

UpdateContext(k, c) ==
    Edit /\ contexts' = [contexts EXCEPT ![k] = c] /\ UNCHANGED <<catalog, baseline>>

(* sync_source_changes: translations of changed sources are lowered, the   *)
(* versions there are become the checkpoint's; the first checkpoint may    *)
(* adopt the states there are.  A shape that is not supported is not       *)
(* certified.                                                              *)
Synchronize(adopt) ==
    /\ Edit
    /\ adopt => baseline = None
    /\ \A k \in Keys : ~Current(k) =>
            \A l \in DOMAIN catalog[k].localizations : WellFormed(catalog[k].localizations[l])
    /\ catalog' = [k \in Keys |->
            [catalog[k] EXCEPT !.localizations = IF adopt THEN @ ELSE Lowered(k)]]
    /\ baseline' = Versions
    /\ UNCHANGED contexts

Answered(u) ==
    {[u EXCEPT !.target = a.target, !.state = a.state] : a \in Answers}
    \cup {[u EXCEPT !.source = NoText]}

ImportStep ==
    \/ BeginImport
    \/ \E u \in Accepted : Apply(u)
    \/ Commit
    \/ Decline

Next ==
    \/ \E l \in Languages, b \in BOOLEAN : ExportVersions(l, b) \/ ExportTool(l, b)
    \/ WriteXml \/ XmlNotWritten
    \/ xml # None /\ \E u \in xml.units : \E v \in Answered(u) : Translate(u, v)
    \/ xml # None /\ ImportStep
    \/ \E k \in Keys, entry \in Entries : DeveloperEdit(k, entry)
    \/ \E k \in Keys, source \in Sources : SourceEdit(k, source)
    \/ \E k \in Keys, c \in Contexts : UpdateContext(k, c)
    \/ \E adopt \in BOOLEAN : Synchronize(adopt)

Spec == Init /\ [][Next]_vars

(***************************************************************************)
(* Properties.                                                             *)
(***************************************************************************)

IsDocument(d) ==
    /\ d = Document(d.locale, d.units, d.captured)
    /\ d.locale \in Languages /\ d.units \subseteq XliffUnit(Keys)
    /\ {u.key : u \in d.units} \subseteq DOMAIN d.captured /\ DOMAIN d.captured \subseteq Keys

TypeOK ==
    /\ DOMAIN catalog = Keys
    /\ \A k \in Keys :
        /\ catalog[k].shouldTranslate \in BOOLEAN
        /\ AreLocalizations(catalog[k].localizations)
    /\ contexts \in [Keys -> Contexts]
    /\ baseline # None => DOMAIN baseline = Keys
    /\ xml # None => IsDocument(xml)
    /\ versions # None => DOMAIN versions \subseteq Keys
    /\ job.pc \in {"idle", "exporting", "importing"}
    /\ job.pc = "exporting" => IsDocument(job.document)
    /\ job.pc = "importing" =>
        /\ xml # None /\ versions # None /\ job.todo \subseteq Accepted
        /\ DOMAIN job.work = Keys /\ \A k \in Keys : AreLocalizations(job.work[k])
    /\ exports \in 0 .. MaxExports /\ edits \in 0 .. MaxEdits /\ answers \in 0 .. MaxAnswers

UnitAt(locs, l, p) == IF l \in DOMAIN locs /\ p \in DOMAIN locs[l] THEN {locs[l][p]} ELSE {}

(* Every target of an imported document is in the catalog, in its words    *)
(* and ready exactly if the document calls it so.                          *)
TargetsArrive ==
    \A u \in Accepted :
        LET leaf == UnitAt(catalog'[u.key].localizations, xml.locale, u.place)
        IN  /\ {v.text : v \in leaf} = {Value(u)}
            /\ \A v \in leaf : Ready(v) <=> u.state \in {"none", "translated", "final"}

(* A place that is not imported keeps its unit, but for empty new units    *)
(* that go and new ones that come.                                         *)
OthersStay(k, l, p) ==
    LET before == UnitAt(catalog[k].localizations, l, p)
        after == UnitAt(catalog'[k].localizations, l, p)
    IN  \/ after = before
        \/ l = xml.locale /\ \E u \in Accepted : u.key = k /\ u.place = p
        \/ before \subseteq {New(Blank)} /\ \A u \in after : u.state = "new"

(* "Import is all-or-nothing for the selected scope" (SKILL.md:298): what  *)
(* the document says is in the catalog, whatever order its units came in   *)
(* and whatever shapes they built.                                         *)
ImportIsWhole == [][Commit => TargetsArrive]_vars

(* And nothing else is.                                                    *)
OnlyImportedChanges ==
    [][Commit => \A k \in Keys, l \in Locales, p \in Place : OthersStay(k, l, p)]_vars

(* An import does what its document says, and nothing else.                *)
ImportIsExact == ImportIsWhole /\ OnlyImportedChanges

(* "unsafe shapes are rejected" (README.md:272): no import brings a        *)
(* diagnostic into a locale that had none.                                 *)
StaysClean(k) ==
    Clean(catalog[k].localizations, xml.locale) => Clean(catalog'[k].localizations, xml.locale)

ImportStaysClean == [][Commit => \A k \in Keys : StaysClean(k)]_vars

(* None does but a substitution's under a target root that is varied where *)
(* the source root is not.                                                 *)
BringsRoot(k) ==
    /\ \E u \in Accepted : u.key = k /\ InSubstitution(u.place)
    /\ RootPlace \in DOMAIN Source(catalog[k].localizations)
    /\ Varied(catalog'[k].localizations[xml.locale], Root)

OtherImportsStayClean == [][Commit => \A k \in Keys : BringsRoot(k) \/ StaysClean(k)]_vars

(* The source text a unit was exported with.                               *)
SourceThen(u) ==
    LET then == xml.captured[u.key]
    IN  XliffSource([l \in {m \in {SourceLanguage} : then.authored} |->
            [p \in DOMAIN then.texts |-> New(then.texts[p])]], u.place)

(* The same text, but for the positions of its arguments.                  *)
SameText(s, t) == s = t \/ Outward(FALSE, s) = Outward(FALSE, t)

(* What is imported was translated from the source text there is, also     *)
(* where document and map come from different exports: the texts in the    *)
(* document stand in for the map.  Only without them, and where the source *)
(* has no leaf to compare, it takes a map of the same export.              *)
TranslatedFromThisSource ==
    [][Commit => \A u \in Accepted :
        (u.source # NoText /\ ~InSubstitution(u.place)) \/ versions = xml.captured =>
            SameText(SourceThen(u), XliffSource(catalog[u.key].localizations, u.place))]_vars

(* A unit answered with the text it shows.                                 *)
Copied(u) ==
    [u EXCEPT !.target = IF u.source = Identifier THEN ArgumentOf(u.place.at) ELSE u.source,
              !.state = "needs-translation"]

(* An export lists its units by their ids: the root, devices and categories *)
(* come before substitutions.                                              *)
Listings(us) == Bijection(1 .. Cardinality(us), us)

InOrder(us) ==
    {outside \o inside : outside \in Listings({u \in us : ~InSubstitution(u.place)}),
                         inside \in Listings({u \in us : InSubstitution(u.place)})}

(* The localizations after so many units of a list.                        *)
After(locs, l, list) ==
    LET after[i \in 0 .. Len(list)] ==
            IF i = 0 THEN locs ELSE WithImported(after[i - 1], l, list[i])
    IN  after

Importable(locs, l, us) ==
    /\ Plannable(locs, l, us)
    /\ \A list \in InOrder(us) :
        LET after == After(locs, l, list)
        IN  /\ \A i \in 1 .. Len(list) : CanImport(after[i - 1], l, list[i])
            /\ list # <<>> => ReferencesHold(after[Len(list)][l])

SameSubstitutions(locs, l) ==
    /\ SourceLanguage \in DOMAIN locs
    /\ l \in DOMAIN locs => Substitutions(locs[l]) = Substitutions(locs[SourceLanguage])

(* The source has no diagnostics, and the texts the units show take their  *)
(* own arguments, refer to all substitutions of the source and, within     *)
(* them, to none.                                                          *)
Sound(locs, us) ==
    /\ WellFormed(Source(locs))
    /\ \A u \in us :
        IF InSubstitution(u.place)
        THEN References(u.target) = {} /\ CompatiblePart(u.target, u.target)
        ELSE References(u.target) = Substitutions(Source(locs)) /\ Compatible(u.target, u.target)

(* What can be exported can come back: a document whose units repeat the   *)
(* texts they show is accepted by the catalog it was made from.            *)
ExportCanBeImported ==
    job = Idle =>
        \A k \in Keys, l \in Languages, b \in BOOLEAN :
            LET locs == Effective(k)
                us == {Copied(u) : u \in ExportUnits(k, locs, l, b)}
            IN  /\ catalog[k].shouldTranslate /\ SameSubstitutions(locs, l)
                /\ CanExport(locs, l, b) /\ Sound(locs, us)
                => Importable(locs, l, us)
=============================================================================
