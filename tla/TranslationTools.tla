-------------------------- MODULE TranslationTools --------------------------
(***************************************************************************)
(* What the tools make of a catalog's localizations: submit_translations   *)
(* request by request (service/merger.rs), approvals                       *)
(* (service/workflow/approval.rs), and the locale and key tools            *)
(* (service/locale.rs, keys.rs, creator.rs, migrate.rs), while people edit *)
(* the catalog between them.  A tool writes the catalog it has read: what  *)
(* comes in between is the subject of SourceWorkflow and CatalogServer.    *)
(***************************************************************************)
EXTENDS LegacyStrings, FiniteSets

CONSTANTS
    Keys,        \* the keys a catalog may have
    Drafts,      \* the entries developers leave in it
    Sources,     \* the source localizations they give an entry
    Requests,    \* what callers submit
    Batches,     \* sequences of requests
    Imports,     \* legacy files to be imported
    MaxKeys      \* bound on the keys present

IsEntry(e) ==
    /\ e \in [shouldTranslate : BOOLEAN, localizations : {e.localizations}]
    /\ AreLocalizations(e.localizations)

(* The texts of one request: one place, the root, or the categories of one *)
(* axis of plurals.                                                        *)
ASSUME RequestsAssumption ==
    /\ \A r \in Requests :
        /\ r \in [key : Keys, locale : Locales, explicit : BOOLEAN, texts : {r.texts}]
        /\ DOMAIN r.texts \subseteq Place /\ r.texts \in [DOMAIN r.texts -> Texts]
        /\ \/ \E p \in Place : DOMAIN r.texts = {p} /\ (r.explicit \/ p = RootPlace)
           \/ /\ ~r.explicit /\ DOMAIN r.texts # {}
              /\ \A p, q \in DOMAIN r.texts :
                    p.at = q.at /\ p.at \notin Devices /\ p.plural # Whole
    /\ Batches \subseteq Seq(Requests)
ASSUME CatalogAssumption ==
    /\ \A e \in Drafts : IsEntry(e)
    /\ \A s \in Sources : IsLocalization(s)
    /\ \A legacy \in Imports : IsLegacy(legacy, Keys)
    /\ MaxKeys \in Nat

VARIABLES
    catalog,   \* the file: its keys -> their entries
    pc,        \* idle, or merging a batch
    batch,     \* the batch submitted
    strict,    \* whether it asked not to continue on errors
    todo,      \* the requests still to be merged
    done,      \* those merged
    work       \* the catalog they are merged into

vars == <<catalog, pc, batch, strict, todo, done, work>>

Translatable(c) == {k \in DOMAIN c : c[k].shouldTranslate}

Init ==
    /\ \E ks \in SUBSET Keys : Cardinality(ks) <= MaxKeys /\ catalog \in [ks -> Drafts]
    /\ pc = "idle" /\ batch = <<>> /\ strict = FALSE /\ todo = {} /\ done = {}
    /\ work = catalog

(* normalize: the checks of a request by itself.                           *)
Normalized(c, r) ==
    /\ r.key \in Translatable(c)
    /\ r.locale # SourceLanguage /\ Categories(r.locale) # {}
    /\ \A p \in DOMAIN r.texts :
        /\ Supported(p)
        /\ r.explicit /\ p.at \in Names =>
                HasParent(c[r.key].localizations, r.locale, p.at)

Clash(r, s) ==
    /\ r.key = s.key /\ r.locale = s.locale
    /\ \E p \in DOMAIN r.texts, q \in DOMAIN s.texts : Overlapping(p, q)

(* prepare: of two requests for overlapping places neither is kept.        *)
Planned(c, b) ==
    LET normalized == {i \in DOMAIN b : Normalized(c, b[i])}
    IN  {i \in normalized : \A j \in normalized \ {i} : ~Clash(b[i], b[j])}

Acceptable(c, r) ==
    LET locs == c[r.key].localizations
    IN  /\ CanStage(locs, r.locale, r.texts)
        /\ \A p \in DOMAIN r.texts : FormatHolds(locs, r.locale, p, r.texts[p])

(* validate_translations_detailed: every request against the catalog as it *)
(* was read.                                                               *)
Accepted(c, b) == {i \in Planned(c, b) : Acceptable(c, b[i])}

Applied(c, r) ==
    [c EXCEPT ![r.key].localizations = Staged(c[r.key].localizations, r.locale, r.texts)]

(* A strict batch with a rejected request ends here.                       *)
Submit(b, s) ==
    /\ pc = "idle"
    /\ s => Accepted(catalog, b) = DOMAIN b
    /\ pc' = "merging" /\ batch' = b /\ strict' = s
    /\ todo' = Accepted(catalog, b)
    /\ UNCHANGED <<catalog, done, work>>

Next1(i) == pc = "merging" /\ i \in todo /\ \A j \in todo : i <= j

(* merge_translations, in the order of the requests.  A request that was   *)
(* acceptable by itself may no longer be after those before it.            *)
Merge(i) ==
    /\ Next1(i)
    /\ CanStage(work[batch[i].key].localizations, batch[i].locale, batch[i].texts)
    /\ work' = Applied(work, batch[i])
    /\ todo' = todo \ {i} /\ done' = done \cup {i}
    /\ UNCHANGED <<catalog, pc, batch, strict>>

MergeFails(i) ==
    /\ Next1(i)
    /\ ~CanStage(work[batch[i].key].localizations, batch[i].locale, batch[i].texts)
    /\ todo' = todo \ {i}
    /\ UNCHANGED <<catalog, pc, batch, strict, done, work>>

(* Mistake: the requests of the last batch are not forgotten.              *)
RestAfter(c) ==
    /\ catalog' = c /\ work' = c
    /\ pc' = "idle" /\ batch' = <<>> /\ strict' = FALSE /\ todo' = {} /\ UNCHANGED done

Rest(c) ==
    /\ catalog' = c /\ work' = c
    /\ pc' = "idle" /\ batch' = <<>> /\ strict' = FALSE /\ todo' = {} /\ done' = {}

(* Mistake: only the requests by themselves can fail a strict batch.       *)
SaveAccepted == pc = "merging" /\ todo = {} /\ Rest(work)

Save ==
    /\ pc = "merging" /\ todo = {}
    /\ strict => done = DOMAIN batch
    /\ Rest(work)

(* A strict batch that failed as a whole, a dry run, a write that was      *)
(* refused.                                                                *)
Discard == pc = "merging" /\ todo = {} /\ Rest(catalog)

Tool(c) == pc = "idle" /\ Cardinality(DOMAIN c) <= MaxKeys /\ Rest(c)

Destinations == [key : Keys, locale : Languages, place : Place]

(* check_request: a draft, in an entry without diagnostics, that would be  *)
(* accepted if it were submitted again.                                    *)
Approvable(c, d) ==
    /\ d.key \in Translatable(c) /\ Categories(d.locale) # {} /\ Supported(d.place)
    /\ LET locs == c[d.key].localizations
       IN  /\ d.locale \in DOMAIN locs /\ d.place \in DOMAIN locs[d.locale]
           /\ ~Ready(locs[d.locale][d.place])
           /\ \A m \in DOMAIN locs : WellFormed(locs[m])
           /\ LET again == [key |-> d.key, locale |-> d.locale, explicit |-> TRUE,
                            texts |-> [p \in {d.place} |-> locs[d.locale][p].text]]
              IN  Normalized(c, again) /\ Acceptable(c, again)

ApprovedLocalizations(locs, k, ds) ==
    [l \in DOMAIN locs |-> [p \in DOMAIN locs[l] |->
        IF [key |-> k, locale |-> l, place |-> p] \in ds
        THEN [locs[l][p] EXCEPT !.state = "translated"] ELSE locs[l][p]]]

(* plan_approval: all of the destinations or none.                         *)
Approve(ds) ==
    /\ ds # {}
    /\ \A d, e \in ds :
        d # e /\ d.key = e.key /\ d.locale = e.locale => ~Overlapping(d.place, e.place)
    /\ Tool([k \in DOMAIN catalog |->
            [catalog[k] EXCEPT !.localizations = ApprovedLocalizations(@, k, ds)]])

HasLocale(c, k, l) == k \in DOMAIN c /\ l \in DOMAIN c[k].localizations

(* add_locale: every shape is prepared before the first is put in.         *)
AddLocale(l) ==
    /\ \A k \in Keys : ~HasLocale(catalog, k, l)
    /\ \A k \in Translatable(catalog) :
        Categories(l) # {} /\ CanInitialize(catalog[k].localizations)
    /\ Tool([k \in DOMAIN catalog |->
            IF k \notin Translatable(catalog) THEN catalog[k]
            ELSE [catalog[k] EXCEPT !.localizations =
                    [m \in DOMAIN @ \cup {l} |-> IF m = l THEN InitialLocale(@, l) ELSE @[m]]]])

Without(c, ks, l) ==
    [k \in DOMAIN c |->
        IF k \in ks /\ HasLocale(c, k, l)
        THEN [c[k] EXCEPT !.localizations = [m \in DOMAIN @ \ {l} |-> @[m]]]
        ELSE c[k]]

RemoveLocale(l) ==
    /\ l # SourceLanguage /\ \E k \in Keys : HasLocale(catalog, k, l)
    /\ Tool(Without(catalog, Keys, l))

DeleteTranslations(ks, l) ==
    /\ l # SourceLanguage /\ \E k \in ks : HasLocale(catalog, k, l)
    /\ Tool(Without(catalog, ks, l))

AddedEntry(text) ==
    [shouldTranslate |-> TRUE,
     localizations |-> [l \in {SourceLanguage} |->
        [p \in {RootPlace} |-> [state |-> "translated", text |-> text]]]]

(* Keys that exist are skipped.                                            *)
AddKeys(ks, text) ==
    Tool([k \in DOMAIN catalog \cup ks |->
            IF k \in DOMAIN catalog THEN catalog[k] ELSE AddedEntry(text)])

(* import_strings and migrate, into a catalog that is there.  Keys that     *)
(* exist are skipped with all their translations, and the catalog keeps    *)
(* its source language.                                                    *)
ImportStrings(legacy) ==
    /\ legacy.source \in DOMAIN legacy.tables
    /\ Tool([k \in DOMAIN catalog \cup LegacyKeys(legacy) |->
            IF k \in DOMAIN catalog THEN catalog[k] ELSE LegacyEntry(legacy, k)])

DeleteKeys(ks) == Tool([k \in DOMAIN catalog \ ks |-> catalog[k]])

RenameKey(old, new) ==
    /\ new \notin DOMAIN catalog /\ old \in DOMAIN catalog
    /\ Tool([k \in (DOMAIN catalog \ {old}) \cup {new} |->
            IF k = new THEN catalog[old] ELSE catalog[k]])

(* Xcode or a person saves the file, with an entry of their own or with    *)
(* another source text.                                                    *)
DeveloperEdit(k, entry) ==
    Tool([j \in DOMAIN catalog \cup {k} |-> IF j = k THEN entry ELSE catalog[j]])

SourceEdit(k, source) ==
    /\ k \in DOMAIN catalog
    /\ Tool([catalog EXCEPT ![k].localizations =
            [l \in DOMAIN @ \cup {SourceLanguage} |-> IF l = SourceLanguage THEN source ELSE @[l]]])

SubmitStep ==
    \/ \E b \in Batches, s \in BOOLEAN : Submit(b, s)
    \/ \E i \in todo : Merge(i) \/ MergeFails(i)
    \/ Save
    \/ Discard

Next ==
    \/ SubmitStep
    \/ pc = "idle" /\ \E ds \in SUBSET {d \in Destinations : Approvable(catalog, d)} : Approve(ds)
    \/ \E l \in Locales : AddLocale(l) \/ RemoveLocale(l)
    \/ \E ks \in SUBSET Keys, l \in Locales : DeleteTranslations(ks, l)
    \/ \E ks \in SUBSET Keys, text \in Texts : AddKeys(ks, text)
    \/ \E legacy \in Imports : ImportStrings(legacy)
    \/ \E ks \in SUBSET Keys : DeleteKeys(ks)
    \/ \E old, new \in Keys : RenameKey(old, new)
    \/ \E k \in Keys, entry \in Drafts : DeveloperEdit(k, entry)
    \/ \E k \in Keys, source \in Sources : SourceEdit(k, source)

Spec == Init /\ [][Next]_vars

(***************************************************************************)
(* Properties.                                                             *)
(***************************************************************************)

TypeOK ==
    /\ \A c \in {catalog, work} :
        DOMAIN c \subseteq Keys /\ \A k \in DOMAIN c : IsEntry(c[k])
    /\ pc \in {"idle", "merging"} /\ strict \in BOOLEAN
    /\ batch \in Seq(Requests)
    /\ todo \subseteq DOMAIN batch /\ done \subseteq DOMAIN batch /\ todo \cap done = {}
    /\ pc = "idle" => batch = <<>> /\ work = catalog

Holds(c, r) ==
    \A p \in DOMAIN r.texts :
        /\ HasLocale(c, r.key, r.locale)
        /\ p \in DOMAIN c[r.key].localizations[r.locale]
        /\ c[r.key].localizations[r.locale][p] = [state |-> "needs_review", text |-> r.texts[p]]

(* Every request that was accepted is in the catalog at the end of its     *)
(* batch, in full: no later request of the batch has replaced it, moved it *)
(* aside or built over it.                                                 *)
AcceptedIsWritten == \A i \in done : Holds(work, batch[i])

UnitAt(c, k, l, p) ==
    IF HasLocale(c, k, l) /\ p \in DOMAIN c[k].localizations[l]
    THEN {c[k].localizations[l][p]} ELSE {}

(* Nothing else is: a batch touches no place its accepted requests do not  *)
(* name, except that it adds units that are new and takes away empty new   *)
(* ones.  A rejected request leaves no trace.                              *)
OnlyAcceptedIsWritten ==
    \A k \in Keys, l \in Locales, p \in Place :
        LET before == UnitAt(catalog, k, l, p)
            after == UnitAt(work, k, l, p)
        IN  \/ after = before
            \/ \E i \in done :
                batch[i].key = k /\ batch[i].locale = l /\ p \in DOMAIN batch[i].texts
            \/ before = {} /\ \A u \in after : u.state = "new"
            \/ after = {} /\ before = {New(Blank)}

(* continue_on_error: false.  A strict batch is in the file as a whole or  *)
(* not at all, also when requests that pass alone do not pass together.    *)
StrictBatchIsWhole ==
    [][pc = "merging" /\ strict /\ catalog' # catalog =>
        \A i \in DOMAIN batch : Holds(catalog', batch[i])]_vars

(* Submitting advertised leaves, approving them and adding the locale do   *)
(* not change which leaves the locale needs: a translator who works        *)
(* through the list finds no new entries in it and loses none.             *)
AskedFor(k, l) ==
    \A i \in done : batch[i].key = k /\ batch[i].locale = l =>
        DOMAIN batch[i].texts \subseteq Advertised(catalog[k].localizations, l)

TranslationStep ==
    \/ Save
    \/ pc = "idle" /\ \E ds \in SUBSET {d \in Destinations : Approvable(catalog, d)} : Approve(ds)
    \/ \E l \in Locales : AddLocale(l)

ListStands ==
    [][TranslationStep =>
        \A k \in Translatable(catalog), l \in Languages :
            Clean(catalog[k].localizations, l) /\ AskedFor(k, l) =>
                Advertised(catalog'[k].localizations, l) = Advertised(catalog[k].localizations, l)]_vars

(* No batch brings a diagnostic into a locale that had none, whatever      *)
(* shapes its requests, the target and the source have.                    *)
SubmitStaysClean ==
    [][Save =>
        \A k \in Translatable(catalog), l \in Languages :
            Clean(catalog[k].localizations, l) => Clean(catalog'[k].localizations, l)]_vars

Alone(k, l, p, text) ==
    [key |-> k, locale |-> l, explicit |-> TRUE, texts |-> [q \in {p} |-> text]]

CanSubmit(k, l, p, text) ==
    Normalized(catalog, Alone(k, l, p, text)) /\ Acceptable(catalog, Alone(k, l, p, text))

(* Source and target have the same substitutions, and the texts of both    *)
(* refer to each.                                                          *)
SameSubstitutions(locs, l) ==
    /\ SourceLanguage \in DOMAIN locs /\ ReferencesHold(locs[SourceLanguage])
    /\ Substitutions(Basis(locs, l)) = Substitutions(locs[SourceLanguage])
    /\ l \notin DOMAIN locs => ReferencesHold(InitialLocale(locs, l))

(* A text that takes the arguments of the source text, and outside         *)
(* substitutions refers to all of them.                                    *)
Fits(locs, l, p, text) ==
    LET source == SourceText(locs, l, p)
        all == Substitutions(Source(locs))
    IN  IF p.at \in Names THEN text = Blank \/ CompatiblePart(source, text)
        ELSE /\ text = Blank \/ (Compatible(source, text) /\ References(source) \subseteq all)
             /\ References(text) = all

(* Every leaf that an assessment without diagnostics lists can be          *)
(* submitted with its path and any text that fits it, by itself and        *)
(* whatever else is missing, as long as source and target have the same    *)
(* substitutions: a submission builds what a list says is needed.          *)
ListedCanBeSubmitted ==
    pc = "idle" =>
        \A k \in Translatable(catalog), l \in Languages :
            LET locs == catalog[k].localizations
            IN  Clean(locs, l) /\ SameSubstitutions(locs, l) =>
                    \A p \in Advertised(locs, l), text \in Texts :
                        Fits(locs, l, p, text) => CanSubmit(k, l, p, text)
=============================================================================
