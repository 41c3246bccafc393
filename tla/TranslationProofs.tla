------------------------- MODULE TranslationProofs -------------------------
(***************************************************************************)
(* Theorems about TranslationTools, for all places, texts, keys, requests  *)
(* and drafts, and about FormatArguments, for all texts.                   *)
(***************************************************************************)
EXTENDS TranslationTools, FormatArguments, TreeProofs, FiniteSetTheorems, WellFoundedInduction

(* Texts for places, as a request has them.                                *)
AreTexts(texts) == DOMAIN texts \subseteq Place /\ texts \in [DOMAIN texts -> Texts]

LEMMA PutTyped ==
    ASSUME NEW loc, IsLocalization(loc), NEW texts, AreTexts(texts)
    PROVE  IsLocalization(Put(loc, texts))
<1>1. \A p \in DOMAIN texts : [state |-> "needs_review", text |-> texts[p]] \in Unit
  BY DEF AreTexts, Unit, States
<1>2. DOMAIN Put(loc, texts) \subseteq Place
  BY DEF Put, IsLocalization, AreTexts
<1>3. \A p \in DOMAIN Put(loc, texts) : Put(loc, texts)[p] \in Unit
  BY <1>1 DEF Put, IsLocalization
<1> QED BY <1>2, <1>3 DEF IsLocalization, Put

LEMMA StagedTyped ==
    ASSUME NEW locs, AreLocalizations(locs), NEW l \in Languages, NEW texts, AreTexts(texts)
    PROVE  /\ IsLocalization(StagedOn(locs, l, DOMAIN texts))
           /\ AreLocalizations(Staged(locs, l, texts))
<1> DEFINE start == StagedOn(locs, l, DOMAIN texts)
           staged == Staged(locs, l, texts)
<1>1. IsLocalization(NoLocalization)
  BY DEF IsLocalization, NoLocalization
<1>2. IsLocalization(start)
  BY <1>1, InitialTyped DEF StagedOn, AreLocalizations, Locales
<1>3. IsLocalization(Put(start, texts))
  <2> HIDE DEF start
  <2> QED BY <1>2, PutTyped
<1>4. staged = [m \in DOMAIN locs \cup {l} |-> IF m = l THEN Put(start, texts) ELSE locs[m]]
  BY DEF Staged
<1>5. DOMAIN staged \subseteq Locales
  BY DEF Staged, Locales, AreLocalizations
<1> QED
  <2> HIDE DEF start, staged
  <2>1. AreLocalizations(staged)
    BY <1>3, <1>4, <1>5 DEF AreLocalizations
  <2> QED BY <1>2, <2>1 DEF start, staged

-----------------------------------------------------------------------------
(* Types of the tools.                                                     *)

LEMMA RequestFacts ==
    ASSUME NEW r \in Requests
    PROVE  /\ r.key \in Keys /\ r.locale \in Locales /\ r.explicit \in BOOLEAN
           /\ AreTexts(r.texts)
BY RequestsAssumption DEF AreTexts

LEMMA EntryFacts ==
    ASSUME NEW e, IsEntry(e), NEW locs, AreLocalizations(locs)
    PROVE  IsEntry([e EXCEPT !.localizations = locs])
BY DEF IsEntry

(* A batch of requests that were accepted.                                 *)
LEMMA PlannedFacts ==
    ASSUME NEW c, NEW b \in Seq(Requests), NEW i \in Planned(c, b)
    PROVE  /\ i \in DOMAIN b /\ b[i] \in Requests
           /\ b[i].key \in Keys /\ b[i].locale \in Languages /\ AreTexts(b[i].texts)
           /\ b[i].key \in Translatable(c) /\ b[i].key \in DOMAIN c
<1>1. i \in DOMAIN b /\ Normalized(c, b[i])
  BY DEF Planned
<1>2. b[i] \in Requests
  BY <1>1
<1>3. b[i].locale \in Locales /\ b[i].locale # SourceLanguage
  BY <1>1, <1>2, RequestFacts DEF Normalized
<1> QED BY <1>1, <1>2, <1>3, RequestFacts DEF Normalized, Locales, Translatable

AreEntries(c) == DOMAIN c \subseteq Keys /\ \A k \in DOMAIN c : IsEntry(c[k])

(* The requests of a batch that are merged or still to be merged were      *)
(* planned against the catalog, and merging keeps the catalog's entries    *)
(* and their locales.                                                      *)
BatchOK ==
    /\ pc = "merging" => todo \cup done \subseteq Planned(catalog, batch)
    /\ pc = "idle" => done = {} /\ todo = {}
    /\ DOMAIN work = DOMAIN catalog
    /\ \A k \in DOMAIN catalog :
        /\ work[k].shouldTranslate = catalog[k].shouldTranslate
        /\ DOMAIN catalog[k].localizations \subseteq DOMAIN work[k].localizations

TypeInv == TypeOK /\ BatchOK

LEMMA RestTyped ==
    ASSUME NEW c, AreEntries(c), Rest(c)
    PROVE  TypeInv'
<1>1. /\ catalog' = c /\ work' = c /\ pc' = "idle" /\ batch' = <<>> /\ strict' = FALSE
      /\ todo' = {} /\ done' = {}
  BY DEF Rest
<1>2. batch' \in Seq(Requests)
  BY <1>1
<1>3. TypeOK'
  BY <1>1, <1>2 DEF TypeOK, AreEntries
<1> QED BY <1>1, <1>3 DEF TypeInv, BatchOK

LEMMA AppliedTyped ==
    ASSUME NEW c, AreEntries(c), NEW r \in Requests, r.key \in DOMAIN c, r.locale \in Languages
    PROVE  /\ AreEntries(Applied(c, r))
           /\ DOMAIN Applied(c, r) = DOMAIN c
           /\ Applied(c, r)[r.key].localizations
                = Staged(c[r.key].localizations, r.locale, r.texts)
           /\ Applied(c, r)[r.key].shouldTranslate = c[r.key].shouldTranslate
           /\ \A k \in DOMAIN c \ {r.key} : Applied(c, r)[k] = c[k]
<1> DEFINE staged == Staged(c[r.key].localizations, r.locale, r.texts)
           entry == [c[r.key] EXCEPT !.localizations = staged]
<1>1. AreTexts(r.texts)
  BY RequestFacts
<1>2. IsEntry(c[r.key])
  BY <1>1 DEF AreEntries
<1>3. AreLocalizations(staged)
  BY <1>1, <1>2, StagedTyped DEF IsEntry
<1>4. Applied(c, r) = [c EXCEPT ![r.key] = entry]
  BY <1>1 DEF Applied
<1>5. IsEntry(entry)
  <2> HIDE DEF staged
  <2> QED BY <1>2, <1>3, EntryFacts
<1>6. entry.localizations = staged /\ entry.shouldTranslate = c[r.key].shouldTranslate
  BY <1>2 DEF IsEntry
<1> QED
  <2> HIDE DEF entry, staged
  <2> QED BY <1>1, <1>4, <1>5, <1>6 DEF AreEntries, staged

LEMMA WithoutTyped ==
    ASSUME NEW c, AreEntries(c), NEW ks, NEW l
    PROVE  AreEntries(Without(c, ks, l))
<1> DEFINE fewer(k) == [m \in DOMAIN c[k].localizations \ {l} |-> c[k].localizations[m]]
<1>1. ASSUME NEW k \in DOMAIN c PROVE IsEntry([c[k] EXCEPT !.localizations = fewer(k)])
  <2>1. IsEntry(c[k]) /\ AreLocalizations(fewer(k))
    BY DEF AreEntries, IsEntry, AreLocalizations
  <2> QED
    <3> HIDE DEF fewer
    <3> QED BY <2>1, EntryFacts
<1>2. Without(c, ks, l) =
        [k \in DOMAIN c |-> IF k \in ks /\ HasLocale(c, k, l)
                            THEN [c[k] EXCEPT !.localizations = fewer(k)] ELSE c[k]]
  BY DEF Without
<1> QED
  <2> HIDE DEF fewer
  <2> QED BY <1>1, <1>2 DEF AreEntries

LEMMA ApprovedTyped ==
    ASSUME NEW locs, AreLocalizations(locs), NEW k, NEW ds
    PROVE  AreLocalizations(ApprovedLocalizations(locs, k, ds))
<1> DEFINE loc(l) == [p \in DOMAIN locs[l] |->
                        IF [key |-> k, locale |-> l, place |-> p] \in ds
                        THEN [locs[l][p] EXCEPT !.state = "translated"] ELSE locs[l][p]]
<1>1. ASSUME NEW l \in DOMAIN locs PROVE IsLocalization(loc(l))
  <2>1. \A p \in DOMAIN locs[l] : locs[l][p] \in Unit
    BY DEF AreLocalizations, IsLocalization
  <2>2. \A u \in Unit : [u EXCEPT !.state = "translated"] \in Unit
    BY DEF Unit, States
  <2> QED BY <2>1, <2>2 DEF AreLocalizations, IsLocalization
<1>2. ApprovedLocalizations(locs, k, ds) = [l \in DOMAIN locs |-> loc(l)]
  BY DEF ApprovedLocalizations
<1> QED
  <2> HIDE DEF loc
  <2> QED BY <1>1, <1>2 DEF AreLocalizations

(* What is made of legacy files is an entry.                               *)
LEMMA TranslatedTyped ==
    ASSUME NEW text \in Texts
    PROVE  Translated(text) \in Unit /\ New(text) \in Unit
BY DEF Translated, New, Unit, States

LEMMA RuleFacts ==
    ASSUME NEW r, IsRule(r)
    PROVE  /\ r.format \in Texts /\ DOMAIN r.variables \subseteq Names /\ DOMAIN r.variables # {}
           /\ \A n \in DOMAIN r.variables :
                /\ DOMAIN r.variables[n] \subseteq Plurals
                /\ \A c \in DOMAIN r.variables[n] : r.variables[n][c] \in Texts
<1>1. /\ r.format \in Texts /\ DOMAIN r.variables \subseteq Names /\ DOMAIN r.variables # {}
      /\ r.variables \in [DOMAIN r.variables -> PluralTexts]
  BY DEF IsRule
<1>2. \A n \in DOMAIN r.variables : r.variables[n] \in PluralTexts
  BY <1>1
<1>3. ASSUME NEW forms \in PluralTexts
      PROVE  DOMAIN forms \subseteq Plurals /\ \A c \in DOMAIN forms : forms[c] \in Texts
  BY <1>3 DEF PluralTexts
<1> QED BY <1>1, <1>2, <1>3

LEMMA RuleTyped ==
    ASSUME NEW r, IsRule(r)
    PROVE  IsLocalization(FromRule(r))
<1>1. ASSUME NEW p, p \in DOMAIN FromSimple(r) PROVE p \in Place /\ FromSimple(r)[p] \in Unit
  <2>1. p \in Place /\ p.plural \in DOMAIN OnlyVariable(r)
        /\ FromSimple(r)[p] = Translated(OnlyVariable(r)[p.plural])
    BY <1>1 DEF FromSimple
  <2>2. \E n \in DOMAIN r.variables : OnlyVariable(r) = r.variables[n]
    BY RuleFacts DEF OnlyVariable
  <2>3. OnlyVariable(r)[p.plural] \in Texts
    BY <2>1, <2>2, RuleFacts
  <2> QED BY <2>1, <2>3, TranslatedTyped
<1>2. ASSUME NEW p, p \in DOMAIN FromComplex(r) PROVE p \in Place /\ FromComplex(r)[p] \in Unit
  <2>1. /\ p \in Place
        /\ p = RootPlace \/ (p.at \in DOMAIN r.variables /\ p.plural \in DOMAIN r.variables[p.at])
        /\ FromComplex(r)[p] = IF p = RootPlace THEN Translated(r.format)
                               ELSE Translated(Argument(r.variables[p.at][p.plural]))
    BY <1>2 DEF FromComplex
  <2>2. CASE p = RootPlace
    BY <2>1, <2>2, RuleFacts, TranslatedTyped
  <2>3. CASE p # RootPlace
    <3>1. r.variables[p.at][p.plural] \in Texts
      BY <2>1, <2>3, RuleFacts
    <3> QED BY <2>1, <2>3, <3>1, LegacyTextsAssumption, TranslatedTyped
  <2> QED BY <2>2, <2>3
<1>3. IsLocalization(FromSimple(r))
  BY <1>1 DEF IsLocalization, FromSimple
<1>4. IsLocalization(FromComplex(r))
  BY <1>2 DEF IsLocalization, FromComplex
<1> QED BY <1>3, <1>4 DEF FromRule

LEMMA RootTyped ==
    ASSUME NEW u \in Unit
    PROVE  IsLocalization([p \in {RootPlace} |-> u])
BY DEF IsLocalization, RootPlace, Place

LEMMA TableTyped ==
    ASSUME NEW t, IsTable(t, Keys), NEW k, HasKey(t, k)
    PROVE  k \in Keys /\ IsLocalization(FromTable(t, k))
<1>1. k \in Keys
  BY DEF IsTable, HasKey
<1>2. CASE k \in DOMAIN t.rules
  BY <1>1, <1>2, RuleTyped DEF IsTable, FromTable
<1>3. CASE k \notin DOMAIN t.rules
  <2>1. t.texts[k] \in Texts
    BY <1>3 DEF IsTable, HasKey
  <2>2. (IF t.texts[k] = Blank THEN New(Blank) ELSE Translated(t.texts[k])) \in Unit
    BY <2>1, TranslatedTyped, TextsAssumption
  <2> QED BY <1>1, <1>3, <2>2, RootTyped DEF FromTable, FromText
<1> QED BY <1>2, <1>3

LEMMA LegacyTyped ==
    ASSUME NEW legacy \in Imports
    PROVE  /\ LegacyKeys(legacy) \subseteq Keys
           /\ \A k \in LegacyKeys(legacy) : IsEntry(LegacyEntry(legacy, k))
<1>1. IsLegacy(legacy, Keys)
  BY CatalogAssumption
<1>2. LegacyKeys(legacy) \subseteq Keys
  BY <1>1 DEF LegacyKeys, IsLegacy, IsTable
<1>3. ASSUME NEW k \in LegacyKeys(legacy) PROVE IsEntry(LegacyEntry(legacy, k))
  <2> DEFINE locs == LegacyEntry(legacy, k).localizations
  <2>1. /\ locs = [l \in Found(legacy, k) \cup {legacy.source} |->
                    IF l \in Found(legacy, k) THEN FromTable(legacy.tables[l], k)
                    ELSE [p \in {RootPlace} |-> New(Blank)]]
        /\ LegacyEntry(legacy, k) = [shouldTranslate |-> TRUE, localizations |-> locs]
    BY DEF LegacyEntry
  <2>2. \A l \in Found(legacy, k) : l \in Locales /\ IsLocalization(FromTable(legacy.tables[l], k))
    BY <1>1, TableTyped DEF Found, IsLegacy
  <2>3. IsLocalization([p \in {RootPlace} |-> New(Blank)])
    BY TranslatedTyped, TextsAssumption, RootTyped
  <2>4. legacy.source \in Locales
    BY <1>1 DEF IsLegacy
  <2>5. AreLocalizations(locs)
    <3> HIDE DEF locs
    <3> QED BY <2>1, <2>2, <2>3, <2>4 DEF AreLocalizations
  <2> QED
    <3> HIDE DEF locs
    <3> QED BY <2>1, <2>5 DEF IsEntry
<1> QED BY <1>2, <1>3

(* Every tool and every edit leaves a catalog of entries.                  *)
LEMMA ToolsTyped ==
    ASSUME TypeInv,
           \/ \E ds \in SUBSET Destinations : Approve(ds)
           \/ \E l \in Locales : AddLocale(l) \/ RemoveLocale(l)
           \/ \E ks \in SUBSET Keys, l \in Locales : DeleteTranslations(ks, l)
           \/ \E ks \in SUBSET Keys, text \in Texts : AddKeys(ks, text)
           \/ \E legacy \in Imports : ImportStrings(legacy)
           \/ \E ks \in SUBSET Keys : DeleteKeys(ks)
           \/ \E old, new \in Keys : RenameKey(old, new)
           \/ \E k \in Keys, entry \in Drafts : DeveloperEdit(k, entry)
           \/ \E k \in Keys, source \in Sources : SourceEdit(k, source)
    PROVE  TypeInv'
<1>1. AreEntries(catalog)
  BY DEF TypeInv, TypeOK, AreEntries
<1>2. \A k \in DOMAIN catalog : IsEntry(catalog[k]) /\ AreLocalizations(catalog[k].localizations)
  BY <1>1 DEF AreEntries, IsEntry
<1>3. ASSUME NEW ds \in SUBSET Destinations, Approve(ds) PROVE TypeInv'
  <2> DEFINE entry(k) == [catalog[k] EXCEPT !.localizations = ApprovedLocalizations(@, k, ds)]
             c == [k \in DOMAIN catalog |-> entry(k)]
  <2>1. \A k \in DOMAIN catalog : IsEntry(entry(k))
    BY <1>2, ApprovedTyped, EntryFacts
  <2>2. AreEntries(c)
    <3> HIDE DEF entry
    <3> QED BY <1>1, <2>1 DEF AreEntries
  <2>3. Rest(c)
    BY <1>3 DEF Approve, Tool
  <2> QED
    <3> HIDE DEF c
    <3> QED BY <2>2, <2>3, RestTyped
<1>4. ASSUME NEW l \in Locales, AddLocale(l) PROVE TypeInv'
  <2> DEFINE locs(k) == [m \in DOMAIN catalog[k].localizations \cup {l} |->
                            IF m = l THEN InitialLocale(catalog[k].localizations, l)
                            ELSE catalog[k].localizations[m]]
             entry(k) == [catalog[k] EXCEPT !.localizations = locs(k)]
             c == [k \in DOMAIN catalog |->
                    IF k \notin Translatable(catalog) THEN catalog[k] ELSE entry(k)]
  <2>1. \A k \in DOMAIN catalog : IsLocalization(InitialLocale(catalog[k].localizations, l))
    BY <1>2, InitialTyped
  <2>2. \A k \in DOMAIN catalog : AreLocalizations(locs(k))
    BY <1>2, <2>1 DEF AreLocalizations, Locales
  <2>3. \A k \in DOMAIN catalog : IsEntry(entry(k))
    <3> HIDE DEF locs
    <3> QED BY <1>2, <2>2, EntryFacts
  <2>4. AreEntries(c)
    <3> HIDE DEF entry
    <3> QED BY <1>1, <1>2, <2>3 DEF AreEntries
  <2>5. Rest(c)
    BY <1>4 DEF AddLocale, Tool
  <2> QED
    <3> HIDE DEF c
    <3> QED BY <2>4, <2>5, RestTyped
<1>5. ASSUME NEW ks, NEW l \in Locales, RemoveLocale(l) \/ DeleteTranslations(ks, l) PROVE TypeInv'
  BY <1>1, <1>5, WithoutTyped, RestTyped DEF RemoveLocale, DeleteTranslations, Tool
<1>6. ASSUME NEW ks \in SUBSET Keys, NEW text \in Texts, AddKeys(ks, text) PROVE TypeInv'
  <2> DEFINE c == [k \in DOMAIN catalog \cup ks |->
                    IF k \in DOMAIN catalog THEN catalog[k] ELSE AddedEntry(text)]
  <2>1. IsEntry(AddedEntry(text))
    <3> DEFINE loc == [p \in {RootPlace} |-> [state |-> "translated", text |-> text]]
               locs == [l \in {SourceLanguage} |-> loc]
    <3>1. RootPlace \in Place /\ [state |-> "translated", text |-> text] \in Unit
      BY DEF RootPlace, Place, Unit, States
    <3>2. IsLocalization(loc)
      BY <3>1 DEF IsLocalization
    <3>3. AreLocalizations(locs)
      <4> HIDE DEF loc
      <4> QED BY <3>2 DEF AreLocalizations, Locales
    <3> QED
      <4> HIDE DEF locs
      <4>1. AddedEntry(text) = [shouldTranslate |-> TRUE, localizations |-> locs]
        BY DEF AddedEntry, locs
      <4> QED BY <3>3, <4>1 DEF IsEntry
  <2>2. AreEntries(c)
    BY <1>1, <2>1 DEF AreEntries
  <2>3. Rest(c)
    BY <1>6 DEF AddKeys, Tool
  <2> QED
    <3> HIDE DEF c
    <3> QED BY <2>2, <2>3, RestTyped
<1>7. ASSUME NEW ks \in SUBSET Keys, DeleteKeys(ks) PROVE TypeInv'
  <2> DEFINE c == [k \in DOMAIN catalog \ ks |-> catalog[k]]
  <2>1. AreEntries(c) /\ Rest(c)
    BY <1>1, <1>7 DEF AreEntries, DeleteKeys, Tool
  <2> QED
    <3> HIDE DEF c
    <3> QED BY <2>1, RestTyped
<1>8. ASSUME NEW old \in Keys, NEW new \in Keys, RenameKey(old, new) PROVE TypeInv'
  <2> DEFINE c == [k \in (DOMAIN catalog \ {old}) \cup {new} |->
                    IF k = new THEN catalog[old] ELSE catalog[k]]
  <2>1. AreEntries(c) /\ Rest(c)
    BY <1>1, <1>8 DEF AreEntries, RenameKey, Tool
  <2> QED
    <3> HIDE DEF c
    <3> QED BY <2>1, RestTyped
<1>9. ASSUME NEW k \in Keys, NEW entry \in Drafts, DeveloperEdit(k, entry) PROVE TypeInv'
  <2> DEFINE c == [j \in DOMAIN catalog \cup {k} |-> IF j = k THEN entry ELSE catalog[j]]
  <2>1. AreEntries(c) /\ Rest(c)
    BY <1>1, <1>9, CatalogAssumption DEF AreEntries, DeveloperEdit, Tool
  <2> QED
    <3> HIDE DEF c
    <3> QED BY <2>1, RestTyped
<1>10. ASSUME NEW k \in Keys, NEW source \in Sources, SourceEdit(k, source) PROVE TypeInv'
  <2> DEFINE locs == [l \in DOMAIN catalog[k].localizations \cup {SourceLanguage} |->
                        IF l = SourceLanguage THEN source ELSE catalog[k].localizations[l]]
             entry == [catalog[k] EXCEPT !.localizations = locs]
             c == [catalog EXCEPT ![k] = entry]
  <2>1. k \in DOMAIN catalog /\ Rest(c)
    BY <1>10 DEF SourceEdit, Tool
  <2>2. AreLocalizations(locs)
    BY <1>2, <2>1, CatalogAssumption DEF AreLocalizations, Locales
  <2>3. IsEntry(entry)
    <3> HIDE DEF locs
    <3> QED BY <1>2, <2>1, <2>2, EntryFacts
  <2>4. AreEntries(c)
    <3> HIDE DEF entry
    <3> QED BY <1>1, <2>1, <2>3 DEF AreEntries
  <2> QED
    <3> HIDE DEF c
    <3> QED BY <2>1, <2>4, RestTyped
<1>11. ASSUME NEW legacy \in Imports, ImportStrings(legacy) PROVE TypeInv'
  <2> DEFINE c == [k \in DOMAIN catalog \cup LegacyKeys(legacy) |->
                    IF k \in DOMAIN catalog THEN catalog[k] ELSE LegacyEntry(legacy, k)]
  <2>1. AreEntries(c)
    BY <1>1, LegacyTyped DEF AreEntries
  <2>2. Rest(c)
    BY <1>11 DEF ImportStrings, Tool
  <2> QED
    <3> HIDE DEF c
    <3> QED BY <2>1, <2>2, RestTyped
<1> QED BY <1>3, <1>4, <1>5, <1>6, <1>7, <1>8, <1>9, <1>10, <1>11

LEMMA SubmitTyped ==
    ASSUME TypeInv, SubmitStep
    PROVE  TypeInv'
<1>1. AreEntries(catalog) /\ AreEntries(work)
  BY DEF TypeInv, TypeOK, AreEntries
<1>2. ASSUME NEW b \in Batches, NEW s \in BOOLEAN, Submit(b, s) PROVE TypeInv'
  <2>1. b \in Seq(Requests)
    BY RequestsAssumption
  <2>2. /\ pc = "idle" /\ pc' = "merging" /\ batch' = b /\ strict' = s
        /\ todo' = Accepted(catalog, b) /\ catalog' = catalog /\ work' = work /\ done' = done
    BY <1>2 DEF Submit
  <2>3. Accepted(catalog, b) \subseteq Planned(catalog, b) /\ Planned(catalog, b) \subseteq DOMAIN b
    BY DEF Accepted, Planned
  <2>4. done = {} /\ work = catalog
    BY <2>2 DEF TypeInv, TypeOK, BatchOK
  <2>5. TypeOK'
    BY <2>1, <2>2, <2>3, <2>4, <1>1 DEF TypeOK, AreEntries
  <2> QED BY <2>2, <2>3, <2>4, <2>5 DEF TypeInv, BatchOK
<1>3. ASSUME NEW i \in todo, Merge(i) PROVE TypeInv'
  <2>1. pc = "merging" /\ batch \in Seq(Requests) /\ i \in Planned(catalog, batch)
    BY <1>3 DEF TypeInv, TypeOK, BatchOK, Merge, Next1
  <2> DEFINE r == batch[i]
  <2>2. r \in Requests /\ r.key \in DOMAIN work /\ r.locale \in Languages
    BY <2>1, PlannedFacts DEF TypeInv, BatchOK
  <2>3. work' = Applied(work, r) /\ UNCHANGED <<catalog, pc, batch, strict>>
    BY <1>3 DEF Merge
  <2>4. /\ AreEntries(work') /\ DOMAIN work' = DOMAIN work
        /\ work'[r.key].localizations = Staged(work[r.key].localizations, r.locale, r.texts)
        /\ work'[r.key].shouldTranslate = work[r.key].shouldTranslate
        /\ \A k \in DOMAIN work \ {r.key} : work'[k] = work[k]
    <3> HIDE DEF r
    <3> QED BY <1>1, <2>2, <2>3, AppliedTyped
  <2>5. DOMAIN work[r.key].localizations \subseteq DOMAIN work'[r.key].localizations
    BY <2>4 DEF Staged
  <2>6. TypeOK'
    BY <1>3, <2>1, <2>3, <2>4 DEF TypeInv, TypeOK, AreEntries, Merge
  <2>7. BatchOK'
    <3>1. todo' \cup done' \subseteq todo \cup done
      BY <1>3 DEF Merge
    <3>2. \A k \in DOMAIN catalog :
            /\ work'[k].shouldTranslate = catalog[k].shouldTranslate
            /\ DOMAIN catalog[k].localizations \subseteq DOMAIN work'[k].localizations
      <4> HIDE DEF r
      <4> QED BY <2>2, <2>4, <2>5 DEF TypeInv, BatchOK
    <3> QED BY <2>1, <2>3, <2>4, <3>1, <3>2 DEF TypeInv, BatchOK
  <2> QED BY <2>6, <2>7 DEF TypeInv
<1>4. ASSUME NEW i \in todo, MergeFails(i) PROVE TypeInv'
  <2>1. /\ todo' = todo \ {i} /\ pc = "merging"
        /\ UNCHANGED <<catalog, pc, batch, strict, done, work>>
    BY <1>4 DEF MergeFails, Next1
  <2>2. TypeOK'
    BY <2>1 DEF TypeInv, TypeOK
  <2> QED BY <2>1, <2>2 DEF TypeInv, BatchOK
<1>5. ASSUME Save \/ Discard PROVE TypeInv'
  BY <1>1, <1>5, RestTyped DEF Save, Discard
<1> QED BY <1>2, <1>3, <1>4, <1>5 DEF SubmitStep

LEMMA TypeInvHolds ==
    Spec => []TypeInv
<1>1. ASSUME Init PROVE TypeInv
  <2>1. batch \in Seq(Requests) /\ DOMAIN batch = {}
    BY <1>1 DEF Init
  <2>2. TypeOK
    BY <1>1, <2>1, CatalogAssumption DEF Init, TypeOK
  <2> QED BY <1>1, <2>2 DEF TypeInv, BatchOK, Init
<1>2. ASSUME TypeInv, [Next]_vars PROVE TypeInv'
  <2>1. CASE UNCHANGED vars
    BY <1>2, <2>1 DEF TypeInv, TypeOK, BatchOK, vars
  <2>2. CASE SubmitStep
    BY <1>2, <2>2, SubmitTyped
  <2>3. CASE Next /\ ~SubmitStep
    BY <1>2, <2>3, ToolsTyped DEF Next
  <2> QED BY <1>2, <2>1, <2>2, <2>3
<1> QED BY <1>1, <1>2, PTL DEF Spec

(* TypeOK holds in every reachable state: every tool makes localizations   *)
(* out of localizations, and a batch is merged into the entries it found.  *)
THEOREM TypeCorrect == Spec => []TypeOK
<1>1. TypeInv => TypeOK
  BY DEF TypeInv
<1> QED BY <1>1, TypeInvHolds, PTL

-----------------------------------------------------------------------------
(* What a batch writes.                                                    *)

(* Two requests of a plan that go to the same localization name no place   *)
(* of one another, and neither needs the node above its own to be gone.    *)
LEMMA PlannedApart ==
    ASSUME NEW c, NEW b \in Seq(Requests), NEW i \in Planned(c, b), NEW j \in Planned(c, b), i # j,
           b[i].key = b[j].key, b[i].locale = b[j].locale,
           NEW p \in DOMAIN b[i].texts, NEW q \in DOMAIN b[j].texts
    PROVE  p # q /\ p \notin Above(q)
<1>1. ~Clash(b[i], b[j])
  BY DEF Planned
<1>2. ~Overlapping(p, q)
  BY <1>1 DEF Clash
<1>3. p \in Place /\ q \in Place
  BY PlannedFacts DEF AreTexts
<1>4. ASSUME p \in Above(q) PROVE p.at \notin Names /\ q.at \notin Names
  BY <1>3, <1>4, PlacesAssumption DEF Above, RootPlace, Place
<1> QED BY <1>2, <1>4 DEF Overlapping

(* What merging one request makes of a place of its localization.          *)
LEMMA PutFacts ==
    ASSUME NEW loc, NEW texts
    PROVE  /\ \A p \in DOMAIN texts :
                p \in DOMAIN Put(loc, texts)
                /\ Put(loc, texts)[p] = [state |-> "needs_review", text |-> texts[p]]
           /\ \A p \in DOMAIN loc \ DOMAIN texts : (\A q \in DOMAIN texts : p \notin Above(q)) =>
                p \in DOMAIN Put(loc, texts) /\ Put(loc, texts)[p] = loc[p]
           /\ \A p \in DOMAIN Put(loc, texts) \ DOMAIN texts :
                p \in DOMAIN loc /\ Put(loc, texts)[p] = loc[p]
           /\ \A p \in DOMAIN loc \ DOMAIN Put(loc, texts) :
                \E q \in DOMAIN texts : p \in Above(q)
BY DEF Put

(* What a step of a merge starts from.                                     *)
LEMMA MergeFacts ==
    ASSUME TypeInv, NEW i \in todo, Merge(i)
    PROVE  /\ batch \in Seq(Requests) /\ i \in Planned(catalog, batch) /\ i \notin done
           /\ done \subseteq Planned(catalog, batch)
           /\ batch[i] \in Requests /\ batch[i].key \in DOMAIN work /\ batch[i].key \in Keys
           /\ batch[i].locale \in Languages
           /\ DOMAIN work' = DOMAIN work
           /\ \A k \in DOMAIN work \ {batch[i].key} : work'[k] = work[k]
           /\ work'[batch[i].key].localizations
                = Staged(work[batch[i].key].localizations, batch[i].locale, batch[i].texts)
           /\ done' = done \cup {i} /\ UNCHANGED <<catalog, batch>>
<1>1. pc = "merging" /\ batch \in Seq(Requests) /\ todo \cap done = {}
  BY DEF TypeInv, TypeOK, Merge, Next1
<1>2. todo \cup done \subseteq Planned(catalog, batch)
  BY <1>1 DEF TypeInv, BatchOK
<1>3. /\ batch[i] \in Requests /\ batch[i].key \in DOMAIN work /\ batch[i].key \in Keys
      /\ batch[i].locale \in Languages
  BY <1>1, <1>2, PlannedFacts DEF TypeInv, BatchOK
<1>4. AreEntries(work)
  BY DEF TypeInv, TypeOK, AreEntries
<1>5. work' = Applied(work, batch[i]) /\ done' = done \cup {i} /\ UNCHANGED <<catalog, batch>>
  BY DEF Merge
<1> DEFINE r == batch[i]
<1>6. /\ DOMAIN Applied(work, r) = DOMAIN work
      /\ Applied(work, r)[r.key].localizations
           = Staged(work[r.key].localizations, r.locale, r.texts)
      /\ \A k \in DOMAIN work \ {r.key} : Applied(work, r)[k] = work[k]
  <2> HIDE DEF r
  <2>1. r \in Requests /\ r.key \in DOMAIN work /\ r.locale \in Languages
    BY <1>3 DEF r
  <2> QED BY <1>4, <2>1, AppliedTyped
<1> QED BY <1>1, <1>2, <1>3, <1>5, <1>6

(* A merge keeps what the requests before it have written.                 *)
LEMMA MergeKeeps ==
    ASSUME TypeInv, AcceptedIsWritten, NEW i \in todo, Merge(i)
    PROVE  AcceptedIsWritten'
<1> DEFINE r == batch[i]
           locs == work[r.key].localizations
           start == StagedOn(locs, r.locale, DOMAIN r.texts)
           after == work'[r.key].localizations
<1>1. /\ DOMAIN after = DOMAIN locs \cup {r.locale}
      /\ after[r.locale] = Put(start, r.texts)
      /\ \A m \in DOMAIN locs \ {r.locale} : after[m] = locs[m]
  <2>1. after = Staged(locs, r.locale, r.texts)
    BY MergeFacts
  <2> QED
    <3> HIDE DEF after, locs, r
    <3> QED BY <2>1 DEF Staged
<1>2. Holds(work', r)
  <2>1. r.key \in DOMAIN work'
    BY MergeFacts
  <2> QED
    <3> HIDE DEF r, start
    <3> QED BY <1>1, <2>1, PutFacts DEF Holds, HasLocale
<1>3. ASSUME NEW j \in done PROVE Holds(work', batch[j])
  <2> DEFINE s == batch[j]
  <2>1. /\ i # j /\ j \in Planned(catalog, batch) /\ i \in Planned(catalog, batch)
        /\ batch \in Seq(Requests) /\ Holds(work, s)
    BY MergeFacts DEF AcceptedIsWritten
  <2> SUFFICES ASSUME NEW p \in DOMAIN s.texts
               PROVE  /\ HasLocale(work', s.key, s.locale)
                      /\ p \in DOMAIN work'[s.key].localizations[s.locale]
                      /\ work'[s.key].localizations[s.locale][p]
                            = [state |-> "needs_review", text |-> s.texts[p]]
    BY DEF Holds
  <2>2. /\ s.key \in DOMAIN work /\ s.locale \in DOMAIN work[s.key].localizations
        /\ p \in DOMAIN work[s.key].localizations[s.locale]
        /\ work[s.key].localizations[s.locale][p]
                = [state |-> "needs_review", text |-> s.texts[p]]
    BY <2>1 DEF Holds, HasLocale
  <2>3. CASE s.key # r.key
    <3>1. work'[s.key] = work[s.key] /\ s.key \in DOMAIN work'
      BY <2>2, <2>3, MergeFacts
    <3> QED BY <2>2, <3>1 DEF HasLocale
  <2>4. CASE s.key = r.key /\ s.locale # r.locale
    <3>1. s.key \in DOMAIN work'
      BY <2>2, MergeFacts
    <3> QED
      <4> HIDE DEF r, s, start
      <4> QED BY <1>1, <2>2, <2>4, <3>1 DEF HasLocale
  <2>5. CASE s.key = r.key /\ s.locale = r.locale
    <3>1. \A q \in DOMAIN r.texts : p # q /\ p \notin Above(q)
      BY <2>1, <2>5, PlannedApart
    <3>2. start = locs[r.locale]
      BY <2>2, <2>5 DEF StagedOn
    <3>3. s.key \in DOMAIN work'
      BY <2>2, MergeFacts
    <3> QED
      <4> HIDE DEF r, s, start
      <4> QED BY <1>1, <2>2, <2>5, <3>1, <3>2, <3>3, PutFacts DEF HasLocale
  <2> QED BY <2>3, <2>4, <2>5
<1> QED BY <1>2, <1>3, MergeFacts DEF AcceptedIsWritten

(* The units of a new locale are new.                                      *)
LEMMA InitialNew ==
    ASSUME NEW locs, NEW l, NEW places, l \notin DOMAIN locs,
           NEW p \in DOMAIN StagedOn(locs, l, places)
    PROVE  StagedOn(locs, l, places)[p].state = "new"
BY DEF StagedOn, InitialLocale, NoLocalization, New

(* What one merge does to a place its request does not name.               *)
LEMMA MergeTouches ==
    ASSUME TypeInv, NEW i \in todo, Merge(i), NEW k \in Keys, NEW l \in Locales, NEW p \in Place,
           ~(batch[i].key = k /\ batch[i].locale = l /\ p \in DOMAIN batch[i].texts)
    PROVE  LET before == UnitAt(work, k, l, p)
               after == UnitAt(work, k, l, p)'
           IN  \/ after = before
               \/ ~HasLocale(work, k, l) /\ \A u \in after : u.state = "new"
               \/ after = {} /\ before = {New(Blank)}
<1> DEFINE r == batch[i]
           locs == work[r.key].localizations
           start == StagedOn(locs, r.locale, DOMAIN r.texts)
           after == work'[r.key].localizations
<1>1. /\ DOMAIN after = DOMAIN locs \cup {r.locale}
      /\ after[r.locale] = Put(start, r.texts)
      /\ \A m \in DOMAIN locs \ {r.locale} : after[m] = locs[m]
  <2>1. after = Staged(locs, r.locale, r.texts)
    BY MergeFacts
  <2> QED
    <3> HIDE DEF after, locs, r
    <3> QED BY <2>1 DEF Staged
<1>2. r.key \in DOMAIN work /\ DOMAIN work' = DOMAIN work /\ UNCHANGED batch
  BY MergeFacts
<1>3. CASE r.key # k
  <2>1. k \in DOMAIN work => work'[k] = work[k]
    BY <1>3, MergeFacts
  <2> QED BY <1>2, <2>1 DEF UnitAt, HasLocale
<1>4. CASE r.key = k /\ r.locale # l
  <2> HIDE DEF r, start
  <2> QED BY <1>1, <1>2, <1>4 DEF UnitAt, HasLocale
<1>5. CASE r.key = k /\ r.locale = l
  <2>1. p \notin DOMAIN r.texts
    BY <1>5
  <2>2. UnitAt(work, k, l, p)' = IF p \in DOMAIN Put(start, r.texts)
                                 THEN {Put(start, r.texts)[p]} ELSE {}
    <3> HIDE DEF r, start
    <3> QED BY <1>1, <1>2, <1>5 DEF UnitAt, HasLocale
  <2>3. CASE l \in DOMAIN locs
    <3>1. start = locs[l] /\ HasLocale(work, k, l)
      BY <1>2, <1>5, <2>3 DEF StagedOn, HasLocale
    <3>2. UnitAt(work, k, l, p) = IF p \in DOMAIN start THEN {start[p]} ELSE {}
      BY <1>5, <3>1 DEF UnitAt
    <3>3. CASE p \in DOMAIN start \ DOMAIN Put(start, r.texts)
      <4>1. PICK q \in DOMAIN r.texts : p \in Above(q)
        <5> HIDE DEF start, r
        <5> QED BY <3>3, PutFacts
      <4>2. Writable(start, Source(locs), q)
        BY DEF Merge, CanStage
      <4>3. q.at \notin Names
        BY <4>1 DEF Above
      <4>4. start[p] = New(Blank)
        <5> HIDE DEF start, r, locs
        <5> QED BY <3>3, <4>1, <4>2, <4>3 DEF Writable
      <4> QED BY <2>2, <3>2, <3>3, <4>4
    <3>4. CASE p \notin DOMAIN start \ DOMAIN Put(start, r.texts)
      <4>1. p \in DOMAIN Put(start, r.texts) => p \in DOMAIN start /\ Put(start, r.texts)[p] = start[p]
        <5> HIDE DEF start, r
        <5> QED BY <2>1, PutFacts
      <4> QED
        <5> HIDE DEF start, r
        <5> QED BY <2>2, <3>2, <3>4, <4>1
    <3> QED BY <3>3, <3>4
  <2>4. CASE l \notin DOMAIN locs
    <3>1. ~HasLocale(work, k, l)
      BY <1>5, <2>4 DEF HasLocale
    <3>2. \A q \in DOMAIN start : start[q].state = "new"
      BY <1>5, <2>4, InitialNew
    <3>3. p \in DOMAIN Put(start, r.texts) => p \in DOMAIN start /\ Put(start, r.texts)[p] = start[p]
      <4> HIDE DEF start, r
      <4> QED BY <2>1, PutFacts
    <3> QED
      <4> HIDE DEF start, r
      <4> QED BY <2>2, <3>1, <3>2, <3>3
  <2> QED BY <2>3, <2>4
<1> QED BY <1>3, <1>4, <1>5

LEMMA MergeTouchesOnlyAccepted ==
    ASSUME TypeInv, OnlyAcceptedIsWritten, NEW i \in todo, Merge(i)
    PROVE  OnlyAcceptedIsWritten'
<1> SUFFICES ASSUME NEW k \in Keys, NEW l \in Locales, NEW p \in Place,
                    \A j \in done' : ~(batch'[j].key = k /\ batch'[j].locale = l
                                       /\ p \in DOMAIN batch'[j].texts)
             PROVE  LET before == UnitAt(catalog, k, l, p)'
                        after == UnitAt(work, k, l, p)'
                    IN  \/ after = before
                        \/ before = {} /\ \A u \in after : u.state = "new"
                        \/ after = {} /\ before = {New(Blank)}
  BY DEF OnlyAcceptedIsWritten
<1> DEFINE first == UnitAt(catalog, k, l, p)
           before == UnitAt(work, k, l, p)
           after == UnitAt(work, k, l, p)'
<1>1. UNCHANGED <<catalog, batch>> /\ done' = done \cup {i}
  BY MergeFacts
<1>2. \A j \in done \cup {i} : ~(batch[j].key = k /\ batch[j].locale = l /\ p \in DOMAIN batch[j].texts)
  BY <1>1
<1>3. \/ before = first
      \/ first = {} /\ \A u \in before : u.state = "new"
      \/ before = {} /\ first = {New(Blank)}
  BY <1>2 DEF OnlyAcceptedIsWritten
<1>4. \/ after = before
      \/ ~HasLocale(work, k, l) /\ \A u \in after : u.state = "new"
      \/ after = {} /\ before = {New(Blank)}
  BY <1>2, MergeTouches
<1>5. ~HasLocale(work, k, l) => before = {} /\ first = {}
  BY DEF UnitAt, HasLocale, TypeInv, BatchOK
<1>6. UnitAt(catalog, k, l, p)' = first
  BY <1>1 DEF UnitAt, HasLocale
<1> QED
  <2> HIDE DEF first, before, after
  <2>1. CASE after = before
    BY <1>3, <1>6, <2>1 DEF first, before, after
  <2>2. CASE ~HasLocale(work, k, l) /\ \A u \in after : u.state = "new"
    BY <1>5, <1>6, <2>2 DEF first, before, after
  <2>3. CASE after = {} /\ before = {New(Blank)}
    BY <1>3, <1>6, <2>3 DEF first, before, after
  <2> QED BY <1>4, <2>1, <2>2, <2>3

(* Between batches the catalog and the work are the same, and no request   *)
(* is in the middle of anything.                                           *)
LEMMA AtRest ==
    ASSUME NEW c, Rest(c)
    PROVE  AcceptedIsWritten' /\ OnlyAcceptedIsWritten'
<1>1. catalog' = work' /\ done' = {}
  BY DEF Rest
<1>2. \A k, l, p : UnitAt(work, k, l, p)' = UnitAt(catalog, k, l, p)'
  BY <1>1 DEF UnitAt, HasLocale
<1> QED BY <1>1, <1>2 DEF AcceptedIsWritten, OnlyAcceptedIsWritten

WrittenInv == TypeInv /\ AcceptedIsWritten /\ OnlyAcceptedIsWritten

LEMMA WrittenInvHolds ==
    Spec => []WrittenInv
<1>1. ASSUME Init PROVE AcceptedIsWritten /\ OnlyAcceptedIsWritten
  BY <1>1 DEF Init, AcceptedIsWritten, OnlyAcceptedIsWritten, UnitAt, HasLocale
<1>2. ASSUME TypeInv, AcceptedIsWritten, OnlyAcceptedIsWritten, [Next]_vars
      PROVE  AcceptedIsWritten' /\ OnlyAcceptedIsWritten'
  <2>1. CASE UNCHANGED <<catalog, work, batch, done>>
    <3>1. \A k, l, p : /\ UnitAt(work, k, l, p)' = UnitAt(work, k, l, p)
                       /\ UnitAt(catalog, k, l, p)' = UnitAt(catalog, k, l, p)
      BY <2>1 DEF UnitAt, HasLocale
    <3>2. AcceptedIsWritten'
      BY <1>2, <2>1 DEF AcceptedIsWritten, Holds, HasLocale
    <3>3. OnlyAcceptedIsWritten'
      BY <1>2, <2>1, <3>1 DEF OnlyAcceptedIsWritten
    <3> QED BY <3>2, <3>3
  <2>2. ASSUME NEW b \in Batches, NEW s \in BOOLEAN, Submit(b, s)
        PROVE  AcceptedIsWritten' /\ OnlyAcceptedIsWritten'
    <3>1. work' = catalog' /\ done' = {}
      BY <1>2, <2>2 DEF Submit, TypeInv, TypeOK, BatchOK
    <3>2. \A k, l, p : UnitAt(work, k, l, p)' = UnitAt(catalog, k, l, p)'
      BY <3>1 DEF UnitAt, HasLocale
    <3> QED BY <3>1, <3>2 DEF AcceptedIsWritten, OnlyAcceptedIsWritten
  <2>3. ASSUME NEW i \in todo, Merge(i) PROVE AcceptedIsWritten' /\ OnlyAcceptedIsWritten'
    BY <1>2, <2>3, MergeKeeps, MergeTouchesOnlyAccepted
  <2>4. ASSUME NEW i \in todo, MergeFails(i) PROVE UNCHANGED <<catalog, work, batch, done>>
    BY <2>4 DEF MergeFails
  <2>5. ASSUME NEW c, Rest(c) PROVE AcceptedIsWritten' /\ OnlyAcceptedIsWritten'
    BY <2>5, AtRest
  <2>6. CASE SubmitStep
    BY <2>1, <2>2, <2>3, <2>4, <2>5, <2>6 DEF SubmitStep, Save, Discard
  <2>7. CASE Next /\ ~SubmitStep
    BY <2>5, <2>7 DEF Next, Approve, AddLocale, RemoveLocale, DeleteTranslations, AddKeys,
        ImportStrings, DeleteKeys, RenameKey, DeveloperEdit, SourceEdit, Tool
  <2>8. CASE UNCHANGED vars
    BY <2>1, <2>8 DEF vars
  <2> QED BY <1>2, <2>6, <2>7, <2>8
<1> QED BY <1>1, <1>2, TypeInvHolds, PTL DEF Spec, WrittenInv

(* AcceptedIsWritten holds in every reachable state, for batches of any    *)
(* length: prepare leaves no two requests that could displace one another. *)
THEOREM AcceptedStays == Spec => []AcceptedIsWritten
<1>1. WrittenInv => AcceptedIsWritten
  BY DEF WrittenInv
<1> QED BY <1>1, WrittenInvHolds, PTL

(* OnlyAcceptedIsWritten holds in every reachable state: what a batch adds *)
(* around its requests is the new locale's shape, and what it takes away   *)
(* are empty new units in their way.                                       *)
THEOREM OnlyAcceptedChanges == Spec => []OnlyAcceptedIsWritten
<1>1. WrittenInv => OnlyAcceptedIsWritten
  BY DEF WrittenInv
<1> QED BY <1>1, WrittenInvHolds, PTL

(* StrictBatchIsWhole holds of every step: merge_translations is compared  *)
(* with the whole batch before the catalog is written.                     *)
THEOREM StrictIsWhole == Spec => StrictBatchIsWhole
<1>1. ASSUME WrittenInv, [Next]_vars, pc = "merging", strict, catalog' # catalog
      PROVE  \A i \in DOMAIN batch : Holds(catalog', batch[i])
  <2>1. Next
    BY <1>1 DEF vars
  <2>2. SubmitStep
    BY <1>1, <2>1 DEF Next, Approve, AddLocale, RemoveLocale, DeleteTranslations, AddKeys,
        ImportStrings, DeleteKeys, RenameKey, DeveloperEdit, SourceEdit, Tool
  <2>3. Save
    BY <1>1, <2>2 DEF SubmitStep, Submit, Merge, MergeFails, Discard, Rest
  <2>4. done = DOMAIN batch /\ catalog' = work
    BY <1>1, <2>3 DEF Save, Rest
  <2> QED BY <1>1, <2>4 DEF WrittenInv, AcceptedIsWritten
<1>2. WrittenInv /\ [Next]_vars =>
        [pc = "merging" /\ strict /\ catalog' # catalog =>
            \A i \in DOMAIN batch : Holds(catalog', batch[i])]_vars
  BY <1>1
<1> QED BY <1>2, WrittenInvHolds, PTL DEF Spec, StrictBatchIsWhole

-----------------------------------------------------------------------------
(* Diagnostics and lists while a batch is merged.                          *)

LEMMA RequestPlacesFacts ==
    ASSUME NEW c, NEW b \in Seq(Requests), NEW i \in Planned(c, b)
    PROVE  RequestPlaces(DOMAIN b[i].texts) /\ \A p \in DOMAIN b[i].texts : Supported(p)
<1>1. b[i] \in Requests /\ Normalized(c, b[i])
  BY DEF Planned
<1>2. /\ DOMAIN b[i].texts \subseteq Place
      /\ \/ \E p \in Place : DOMAIN b[i].texts = {p}
         \/ /\ DOMAIN b[i].texts # {}
            /\ \A p, q \in DOMAIN b[i].texts :
                    p.at = q.at /\ p.at \notin Devices /\ p.plural # Whole
  BY <1>1, RequestsAssumption
<1> QED BY <1>1, <1>2 DEF RequestPlaces, Normalized

(* What the catalog's locales keep while a batch is merged: to be without  *)
(* diagnostics, and the list, when the requests keep to it.                *)
CleanInv ==
    \A k \in Translatable(catalog), l \in Languages :
        Clean(catalog[k].localizations, l) =>
            /\ Clean(work[k].localizations, l)
            /\ AskedFor(k, l) =>
                Advertised(work[k].localizations, l) = Advertised(catalog[k].localizations, l)

LEMMA MergeStaysClean ==
    ASSUME TypeInv, CleanInv, NEW i \in todo, Merge(i)
    PROVE  CleanInv'
<1> SUFFICES ASSUME NEW k \in Translatable(catalog), NEW l \in Languages,
                    Clean(catalog[k].localizations, l)
             PROVE  /\ Clean(work'[k].localizations, l)
                    /\ AskedFor(k, l)' =>
                        Advertised(work'[k].localizations, l) = Advertised(catalog[k].localizations, l)
  <2>1. UNCHANGED catalog
    BY MergeFacts
  <2> QED BY <2>1 DEF CleanInv, Translatable
<1> DEFINE r == batch[i]
           locs == work[k].localizations
           after == work'[k].localizations
<1>1. /\ Clean(locs, l)
      /\ AskedFor(k, l) => Advertised(locs, l) = Advertised(catalog[k].localizations, l)
  BY DEF CleanInv
<1>2. /\ done' = done \cup {i} /\ UNCHANGED <<catalog, batch>>
      /\ batch \in Seq(Requests) /\ i \in Planned(catalog, batch) /\ k \in DOMAIN work
      /\ k # r.key => work'[k] = work[k]
      /\ k = r.key => after = Staged(locs, r.locale, r.texts)
      /\ r.locale \in Languages
  BY MergeFacts DEF Translatable, TypeInv, BatchOK
<1>3. AskedFor(k, l)' => AskedFor(k, l)
  BY <1>2 DEF AskedFor
<1>4. CASE k # r.key
  BY <1>1, <1>2, <1>3, <1>4
<1>5. CASE k = r.key
  <2>1. /\ RequestPlaces(DOMAIN r.texts) /\ \A p \in DOMAIN r.texts : Supported(p)
        /\ AreLocalizations(locs) /\ CanStage(locs, r.locale, r.texts)
        /\ r.locale # SourceLanguage
    <3>1. IsEntry(work[k])
      BY <1>2 DEF TypeInv, TypeOK
    <3> QED BY <1>2, <1>5, <3>1, RequestPlacesFacts, LocalesAssumption DEF Merge, IsEntry
  <2>2. k = r.key /\ r.locale = l /\ AskedFor(k, l)'
            => DOMAIN r.texts \subseteq Advertised(catalog[k].localizations, l)
    BY <1>2 DEF AskedFor
  <2>3. after = Staged(locs, r.locale, r.texts)
    BY <1>2, <1>5
  <2> HIDE DEF r, locs, after
  <2>4. Clean(after, l)
    BY <1>1, <1>2, <2>1, <2>3, StagedClean
  <2>5. r.locale # l => Advertised(after, l) = Advertised(locs, l)
    BY <2>1, <2>3, OthersStandStill
  <2>6. r.locale = l /\ AskedFor(k, l)' => Advertised(after, l) = Advertised(locs, l)
    BY <1>1, <1>3, <1>5, <2>1, <2>2, <2>3, StagedList
  <2>7. AskedFor(k, l)' => Advertised(after, l) = Advertised(catalog[k].localizations, l)
    BY <1>1, <1>3, <2>5, <2>6
  <2> QED BY <2>4, <2>7 DEF after
<1> QED BY <1>4, <1>5

LEMMA CleanInvHolds ==
    Spec => [](TypeInv /\ CleanInv)
<1>1. ASSUME catalog = work PROVE CleanInv
  BY <1>1 DEF CleanInv
<1>2. ASSUME catalog' = work' PROVE CleanInv'
  BY <1>2 DEF CleanInv
<1>3. Init => CleanInv
  BY <1>1 DEF Init
<1>4. ASSUME TypeInv, CleanInv, [Next]_vars PROVE CleanInv'
  <2>1. CASE UNCHANGED <<catalog, work, batch, done>>
    BY <1>4, <2>1 DEF CleanInv, Translatable, AskedFor
  <2>2. ASSUME NEW b \in Batches, NEW s \in BOOLEAN, Submit(b, s) PROVE catalog' = work'
    BY <1>4, <2>2 DEF Submit, TypeInv, TypeOK
  <2>3. ASSUME NEW i \in todo, Merge(i) PROVE CleanInv'
    BY <1>4, <2>3, MergeStaysClean
  <2>4. ASSUME NEW i \in todo, MergeFails(i) PROVE UNCHANGED <<catalog, work, batch, done>>
    BY <2>4 DEF MergeFails
  <2>5. ASSUME NEW c, Rest(c) PROVE catalog' = work'
    BY <2>5 DEF Rest
  <2>6. CASE SubmitStep
    BY <1>2, <2>1, <2>2, <2>3, <2>4, <2>5, <2>6 DEF SubmitStep, Save, Discard
  <2>7. CASE Next /\ ~SubmitStep
    BY <1>2, <2>5, <2>7 DEF Next, Approve, AddLocale, RemoveLocale, DeleteTranslations, AddKeys,
        ImportStrings, DeleteKeys, RenameKey, DeveloperEdit, SourceEdit, Tool
  <2>8. CASE UNCHANGED vars
    BY <2>1, <2>8 DEF vars
  <2> QED BY <1>4, <2>6, <2>7, <2>8
<1> QED BY <1>3, <1>4, TypeInvHolds, PTL DEF Spec

(* SubmitStaysClean holds of every step, for all shapes of source, target  *)
(* and requests: Writable lets no unit in beside variations and no second  *)
(* axis, and a new locale is initialized from a source without faults.     *)
THEOREM BatchesStayClean == Spec => SubmitStaysClean
<1>1. ASSUME TypeInv, CleanInv, Save, NEW k \in Translatable(catalog), NEW l \in Languages,
             Clean(catalog[k].localizations, l)
      PROVE  Clean(catalog'[k].localizations, l)
  BY <1>1 DEF CleanInv, Save, Rest
<1>2. TypeInv /\ CleanInv /\ [Next]_vars =>
        [Save => \A k \in Translatable(catalog), l \in Languages :
            Clean(catalog[k].localizations, l) => Clean(catalog'[k].localizations, l)]_vars
  BY <1>1
<1> QED BY <1>2, CleanInvHolds, PTL DEF Spec, SubmitStaysClean

(* An approval changes states and no places.                               *)
LEMMA ApprovalKeepsLists ==
    ASSUME NEW locs, NEW k, NEW ds, NEW l \in Languages
    PROVE  Advertised(ApprovedLocalizations(locs, k, ds), l) = Advertised(locs, l)
<1> DEFINE after == ApprovedLocalizations(locs, k, ds)
<1>1. DOMAIN after = DOMAIN locs /\ \A m \in DOMAIN locs : DOMAIN after[m] = DOMAIN locs[m]
  BY DEF ApprovedLocalizations
<1> HIDE DEF after
<1>2. CASE l \in DOMAIN locs
  BY <1>1, <1>2, SameListFromPlaces DEF after
<1>3. CASE l \notin DOMAIN locs
  <2>1. DOMAIN SourceBasis(after, KeyText) = DOMAIN SourceBasis(locs, KeyText)
    BY <1>1 DEF SourceBasis
  <2>2. Advertised(after, l) = Advertised(locs, l)
    BY <1>1, <1>3, <2>1, ShapeDomain DEF Advertised, Basis
  <2> QED BY <2>2 DEF after
<1> QED BY <1>2, <1>3

(* A new locale takes its place with the list it had before.               *)
LEMMA AdditionKeepsLists ==
    ASSUME NEW locs, AreLocalizations(locs), NEW n \in Locales, n \notin DOMAIN locs,
           NEW after, after = [m \in DOMAIN locs \cup {n} |->
                                IF m = n THEN InitialLocale(locs, n) ELSE locs[m]],
           NEW l \in Languages
    PROVE  Advertised(after, l) = Advertised(locs, l)
<1>1. /\ DOMAIN after = DOMAIN locs \cup {n} /\ after[n] = InitialLocale(locs, n)
      /\ \A m \in DOMAIN locs : after[m] = locs[m]
  OBVIOUS
<1>2. CASE l = n
  BY <1>1, <1>2, InitialList
<1>3. CASE l # n /\ l \in DOMAIN locs
  BY <1>1, <1>3, SameListFromPlaces
<1>4. CASE l # n /\ l \notin DOMAIN locs
  <2>1. CASE n # SourceLanguage
    <3>1. DOMAIN SourceBasis(after, KeyText) = DOMAIN SourceBasis(locs, KeyText)
      BY <1>1, <2>1 DEF SourceBasis
    <3> QED BY <1>1, <1>4, <3>1, ShapeDomain DEF Advertised, Basis
  <2>2. CASE n = SourceLanguage
    <3>1. SourceBasis(locs, Blank) = [p \in {RootPlace} |-> New(Blank)]
      BY <2>2 DEF SourceBasis
    <3>2. DOMAIN InitialLocale(locs, n) = {RootPlace}
      <4>1. DOMAIN InitialLocale(locs, n) = ShapePlaces({RootPlace}, Categories(n), TRUE)
        BY <3>1, ShapeDomain DEF InitialLocale
      <4> QED BY <4>1 DEF ShapePlaces, RootPlace
    <3>3. DOMAIN SourceBasis(after, KeyText) = DOMAIN SourceBasis(locs, KeyText)
      BY <1>1, <2>2, <3>2 DEF SourceBasis
    <3> QED BY <1>1, <1>4, <3>3, ShapeDomain DEF Advertised, Basis
  <2> QED BY <2>1, <2>2
<1> QED BY <1>2, <1>3, <1>4

(* ListStands holds of every step: the shape of a locale is closed under   *)
(* its own categories, so that what fills the list adds nothing to it.     *)
THEOREM ListsStand == Spec => ListStands
<1>1. ASSUME TypeInv, CleanInv, TranslationStep,
             NEW k \in Translatable(catalog), NEW l \in Languages,
             Clean(catalog[k].localizations, l), AskedFor(k, l)
      PROVE  Advertised(catalog'[k].localizations, l) = Advertised(catalog[k].localizations, l)
  <2> DEFINE locs == catalog[k].localizations
  <2>1. k \in DOMAIN catalog /\ IsEntry(catalog[k]) /\ AreLocalizations(locs)
    BY <1>1 DEF Translatable, TypeInv, TypeOK, IsEntry
  <2>2. CASE Save
    BY <1>1, <2>2 DEF CleanInv, Save, Rest
  <2>3. ASSUME NEW ds, Approve(ds)
        PROVE  catalog'[k].localizations = ApprovedLocalizations(locs, k, ds)
    <3>1. catalog' = [j \in DOMAIN catalog |->
            [catalog[j] EXCEPT !.localizations = ApprovedLocalizations(@, j, ds)]]
      BY <2>3 DEF Approve, Tool, Rest
    <3> QED BY <2>1, <3>1 DEF IsEntry
  <2>4. ASSUME NEW n \in Locales, AddLocale(n)
        PROVE  /\ n \notin DOMAIN locs
               /\ catalog'[k].localizations =
                    [m \in DOMAIN locs \cup {n} |-> IF m = n THEN InitialLocale(locs, n) ELSE locs[m]]
    <3>1. k \in Keys
      BY <1>1, <2>1 DEF TypeInv, TypeOK
    <3>2. n \notin DOMAIN locs
      BY <2>1, <2>4, <3>1 DEF AddLocale, HasLocale
    <3>3. catalog' = [j \in DOMAIN catalog |->
            IF j \notin Translatable(catalog) THEN catalog[j]
            ELSE [catalog[j] EXCEPT !.localizations =
                    [m \in DOMAIN @ \cup {n} |-> IF m = n THEN InitialLocale(@, n) ELSE @[m]]]]
      BY <2>4 DEF AddLocale, Tool, Rest
    <3>4. catalog'[k] = [catalog[k] EXCEPT !.localizations =
                    [m \in DOMAIN @ \cup {n} |-> IF m = n THEN InitialLocale(@, n) ELSE @[m]]]
      BY <1>1, <2>1, <3>3
    <3> QED BY <2>1, <3>2, <3>4 DEF IsEntry
  <2> HIDE DEF locs
  <2>5. ASSUME NEW ds, Approve(ds) PROVE Advertised(catalog'[k].localizations, l) = Advertised(locs, l)
    BY <2>3, <2>5, ApprovalKeepsLists
  <2>6. ASSUME NEW n \in Locales, AddLocale(n)
        PROVE  Advertised(catalog'[k].localizations, l) = Advertised(locs, l)
    <3> DEFINE after == catalog'[k].localizations
    <3>1. n \notin DOMAIN locs /\ after = [m \in DOMAIN locs \cup {n} |->
                                            IF m = n THEN InitialLocale(locs, n) ELSE locs[m]]
      BY <2>4, <2>6
    <3> HIDE DEF after
    <3>2. Advertised(after, l) = Advertised(locs, l)
      BY <2>1, <3>1, AdditionKeepsLists
    <3> QED BY <3>2 DEF after
  <2>7. Save \/ (\E ds : Approve(ds)) \/ \E n \in Locales : AddLocale(n)
    BY <1>1 DEF TranslationStep
  <2> QED BY <2>2, <2>5, <2>6, <2>7 DEF locs
<1>2. TypeInv /\ CleanInv /\ [Next]_vars =>
        [TranslationStep => \A k \in Translatable(catalog), l \in Languages :
            Clean(catalog[k].localizations, l) /\ AskedFor(k, l) =>
                Advertised(catalog'[k].localizations, l) = Advertised(catalog[k].localizations, l)]_vars
  BY <1>1
<1> QED BY <1>2, CleanInvHolds, PTL DEF Spec, ListStands

(* What a listed text of a missing locale starts from: the source's shape, *)
(* with its substitutions, or nothing if the source is a single unit.      *)
LEMMA MissingStart ==
    ASSUME NEW locs, AreLocalizations(locs), NEW l \in Languages, l \notin DOMAIN locs,
           Clean(locs, l), SameSubstitutions(locs, l), NEW p \in Advertised(locs, l)
    PROVE  LET source == locs[SourceLanguage]
           IN  /\ p \in Place /\ (p.at \in Names => p.at \in Substitutions(source))
               /\ CanInitialize(locs)
               /\ Substitutions(InitialLocale(locs, l)) = Substitutions(source)
               /\ ~NeedsShape(locs, {p}) => p = RootPlace /\ Substitutions(source) = {}
<1> DEFINE source == locs[SourceLanguage]
           list == Advertised(locs, l)
           start == InitialLocale(locs, l)
<1>1. l \in Locales /\ Categories(l) \in SUBSET Plurals /\ Whole \notin Plurals
  BY LocalesAssumption, PlacesAssumption DEF Locales
<1>2. /\ SourceBasis(locs, KeyText) = source /\ SourceBasis(locs, Blank) = source
      /\ Source(locs) = source /\ Basis(locs, l) = source
  BY DEF SameSubstitutions, SourceBasis, Source, Basis
<1>3. /\ DOMAIN source \subseteq Place /\ list = DOMAIN start
      /\ \A q : q \in list <=>
            /\ q \in Place
            /\ \/ q \in DOMAIN source /\ (q.plural # Whole => q.plural \in Categories(l))
               \/ q.plural \in Categories(l) /\ \E x \in DOMAIN source : x.at = q.at /\ x.plural # Whole
  BY <1>1, <1>2, MissingListMember
<1>4. /\ Categories(l) # {} /\ Faults(source) = {} /\ ReferencesHold(source)
      /\ \A q \in list : Supported(q)
  BY <1>2 DEF Clean
<1>5. p \in list
  OBVIOUS
<1> HIDE DEF source, list, start
<1>6. PICK c \in Categories(l) : c \in Plurals /\ c # Whole
  BY <1>1, <1>4
<1>7. ASSUME NEW q \in DOMAIN source, q.plural # Whole
      PROVE  [q EXCEPT !.plural = c] \in list /\ [q EXCEPT !.plural = c].at = q.at
             /\ [q EXCEPT !.plural = c].plural = c
  <2>1. q \in Place /\ [q EXCEPT !.plural = c] \in Place
    BY <1>3, <1>6, PlaceFacts
  <2>2. [q EXCEPT !.plural = c].at = q.at /\ [q EXCEPT !.plural = c].plural = c
    BY <2>1, PlaceFacts
  <2> QED BY <1>3, <1>6, <1>7, <2>1, <2>2
<1>8. \A q \in DOMAIN source : Supported(q)
  BY <1>4, <1>6, <1>7 DEF Supported
<1>9. CanInitialize(locs)
  BY <1>2, <1>4, <1>8 DEF CanInitialize
<1>10. Substitutions(start) = Substitutions(source)
  <2>1. \A n \in Names : (\E q \in DOMAIN start : q.at = n) <=> \E q \in DOMAIN source : q.at = n
    <3>1. \A q \in list : \E x \in DOMAIN source : x.at = q.at
      BY <1>3
    <3>2. \A q \in DOMAIN source : q.at \in Names => \E x \in list : x.at = q.at
      BY <1>3, <1>7, PlaceFacts
    <3> QED BY <1>3, <3>1, <3>2
  <2> QED BY <2>1 DEF Substitutions
<1>11. p \in Place /\ (p.at \in Names => p.at \in Substitutions(source))
  BY <1>3, <1>5 DEF Substitutions
<1>12. ASSUME ~NeedsShape(locs, {p}) PROVE p = RootPlace /\ Substitutions(source) = {}
  <2>1. /\ RootPlace \in DOMAIN source /\ Substitutions(source) # {} => p # RootPlace /\ p.at \notin Names
        /\ p # RootPlace => ~HasPlural(source, Root) /\ ~HasDevice(source)
    BY <1>2, <1>12 DEF NeedsShape, Varied
  <2>2. ASSUME p # RootPlace PROVE FALSE
    <3>1. ~HasPlural(source, Root) /\ ~HasDevice(source)
      BY <2>1, <2>2
    <3>2. PICK x \in DOMAIN source : x.at = p.at /\ (p.plural # Whole => x.plural # Whole)
      BY <1>3, <1>5
    <3>3. p.at \in Names
      BY <1>11, <2>2, <3>1, <3>2, PlaceFacts DEF HasPlural, HasDevice, RootPlace
    <3>4. p.at \in Referenced(source)
      BY <1>4, <1>11, <3>3 DEF ReferencesHold
    <3>5. PICK q \in DOMAIN source : q.at \notin Names
      BY <3>4 DEF Referenced
    <3>6. q = RootPlace
      BY <1>3, <3>1, <3>5, PlaceFacts DEF HasPlural, HasDevice, RootPlace
    <3> QED BY <1>11, <2>1, <3>3, <3>5, <3>6
  <2>3. RootPlace \in DOMAIN source
    <3>1. p.plural = Whole
      BY <2>2 DEF RootPlace
    <3> QED BY <1>1, <1>3, <1>5, <2>2, <3>1
  <2> QED BY <2>1, <2>2, <2>3
<1> QED BY <1>9, <1>10, <1>11, <1>12 DEF source, start

(* A listed place takes any text that fits it.                             *)
LEMMA ListedStages ==
    ASSUME NEW locs, AreLocalizations(locs), NEW l \in Languages,
           Clean(locs, l), SameSubstitutions(locs, l),
           NEW p \in Advertised(locs, l), NEW text \in Texts, Fits(locs, l, p, text)
    PROVE  /\ Supported(p) /\ (p.at \in Names => HasParent(locs, l, p.at))
           /\ CanStage(locs, l, [q \in {p} |-> text])
           /\ FormatHolds(locs, l, p, text)
<1> DEFINE source == locs[SourceLanguage]
           texts == [q \in {p} |-> text]
           start == StagedOn(locs, l, {p})
<1>1. /\ l \in Locales /\ l # SourceLanguage /\ Whole \notin Plurals
      /\ Categories(l) \in SUBSET Plurals
  BY LocalesAssumption, PlacesAssumption DEF Locales
<1>2. /\ SourceLanguage \in DOMAIN locs /\ ReferencesHold(source) /\ Source(locs) = source
      /\ Substitutions(Basis(locs, l)) = Substitutions(source)
      /\ l \notin DOMAIN locs => ReferencesHold(InitialLocale(locs, l))
  BY DEF SameSubstitutions, Source
<1>3. /\ p.at \notin Names => References(text) = Substitutions(source)
      /\ text # Blank =>
            IF p.at \in Names THEN CompatiblePart(SourceText(locs, l, p), text)
            ELSE /\ Compatible(SourceText(locs, l, p), text)
                 /\ References(SourceText(locs, l, p)) \subseteq Substitutions(source)
  BY <1>2 DEF Fits
<1>4. Supported(p)
  BY DEF Clean
<1>5. DOMAIN texts = {p}
  OBVIOUS
<1>6. FormatHolds(locs, l, p, text)
  <2>1. Substitutions(source) \subseteq
            UNION {Substitutions(locs[m]) : m \in {l, SourceLanguage} \cap DOMAIN locs}
    BY <1>2
  <2> QED BY <1>3, <2>1 DEF FormatHolds
<1>7. SUFFICES /\ p \in Place
               /\ p.at \in Names => p.at \in Substitutions(source)
               /\ l \notin DOMAIN locs /\ NeedsShape(locs, {p}) => CanInitialize(locs)
               /\ Writable(start, source, p)
               /\ ReferencesHold(Put(start, texts))
  <2>1. p.at \in Substitutions(source) => HasParent(locs, l, p.at)
    BY <1>2 DEF HasParent, ReferencesHold
  <2> HIDE DEF texts, source, start
  <2> SUFFICES CanStage(locs, l, texts)
    BY <1>4, <1>6, <1>7, <2>1 DEF texts
  <2> QED BY <1>2, <1>5, <1>7 DEF CanStage, start
<1>8. ASSUME DOMAIN start \subseteq Place, Unmixed(start), ReferencesHold(start),
             Substitutions(start) = Substitutions(source), p \in Place,
             \/ p \in DOMAIN start
             \/ p.plural # Whole /\ \E q \in DOMAIN start : q.at = p.at /\ q.plural # Whole
      PROVE  Writable(start, source, p) /\ ReferencesHold(Put(start, texts))
             /\ (p.at \in Names => p.at \in Substitutions(source))
  <2> HIDE DEF start, source
  <2>1. /\ Writable(start, source, p) /\ Above(p) \cap DOMAIN start = {}
        /\ p.at \in Names => p.at \in Substitutions(start)
    BY <1>8, ListedWritable
  <2>2. IF p.at \in Names THEN p.at \in Substitutions(start)
        ELSE References(text) = Substitutions(start)
    BY <1>3, <1>8, <2>1
  <2> QED BY <1>8, <2>1, <2>2, PutReferences
<1>9. CASE l \in DOMAIN locs
  <2>1. start = locs[l] /\ Basis(locs, l) = locs[l]
    BY <1>9 DEF StagedOn, Basis
  <2>2. DOMAIN locs[l] \subseteq Place
    BY <1>9 DEF AreLocalizations, IsLocalization
  <2>3. /\ Unmixed(locs[l]) /\ ReferencesHold(locs[l])
    BY <1>1, <1>9, <2>2, CleanLocale, FaultsMean
  <2>4. /\ p \in Place
        /\ \/ p \in DOMAIN locs[l]
           \/ p.plural \in Categories(l) /\ \E q \in DOMAIN locs[l] : q.at = p.at /\ q.plural # Whole
    BY <1>1, <1>9, <2>2, ListMember
  <2> HIDE DEF start, source, texts
  <2> QED BY <1>1, <1>2, <1>8, <1>9, <2>1, <2>2, <2>3, <2>4
<1>10. CASE l \notin DOMAIN locs
  <2>1. /\ p \in Place /\ (p.at \in Names => p.at \in Substitutions(source))
        /\ CanInitialize(locs)
        /\ Substitutions(InitialLocale(locs, l)) = Substitutions(source)
        /\ ~NeedsShape(locs, {p}) => p = RootPlace /\ Substitutions(source) = {}
    BY <1>10, MissingStart
  <2>2. CASE NeedsShape(locs, {p})
    <3>1. start = InitialLocale(locs, l) /\ p \in DOMAIN InitialLocale(locs, l)
      BY <1>1, <1>10, <2>2, MissingListMember DEF StagedOn
    <3>2. DOMAIN InitialLocale(locs, l) \subseteq Place /\ Unmixed(InitialLocale(locs, l))
      BY <1>1, <2>1, InitialUnmixed
    <3> HIDE DEF start, source, texts
    <3> QED BY <1>2, <1>8, <1>10, <2>1, <3>1, <3>2
  <2>3. CASE ~NeedsShape(locs, {p})
    <3>1. start = NoLocalization /\ DOMAIN NoLocalization = {}
      BY <1>10, <2>3 DEF StagedOn, NoLocalization
    <3>2. p = RootPlace /\ p.at = Root /\ Root \notin Names /\ References(text) = {}
      BY <1>3, <2>1, <2>3, PlacesAssumption DEF RootPlace
    <3>3. Writable(NoLocalization, source, p)
      BY <3>1, <3>2, PlacesAssumption DEF Writable, Varied, HasPlural, HasDevice
    <3>4. ReferencesHold(Put(NoLocalization, texts))
      <4>1. ReferencesHold(NoLocalization) /\ Substitutions(NoLocalization) = {}
        BY <3>1 DEF ReferencesHold, Referenced, Substitutions
      <4>2. /\ Above(p) \cap DOMAIN NoLocalization = {} /\ p.at \notin Names
            /\ References(text) = Substitutions(NoLocalization)
        BY <3>1, <3>2, <4>1
      <4> HIDE DEF source
      <4> QED BY <2>1, <4>1, <4>2, PutReferences
    <3> HIDE DEF start, source, texts
    <3> QED BY <1>10, <2>1, <2>3, <3>1, <3>3, <3>4
  <2> QED BY <2>2, <2>3
<1> QED BY <1>9, <1>10

(* ListedCanBeSubmitted holds in every reachable state, for all texts,     *)
(* places and comparisons of arguments: a list asks for the places of the  *)
(* locale and the categories its plurals lack, all of which ensure_node    *)
(* comes to, and a part of a locale that is missing brings the shape of    *)
(* the source with it, whose references the new text completes.            *)
THEOREM ListedAlwaysSubmittable == Spec => []ListedCanBeSubmitted
<1>1. ASSUME TypeOK PROVE ListedCanBeSubmitted
  <2> SUFFICES ASSUME NEW k \in Translatable(catalog), NEW l \in Languages,
                      Clean(catalog[k].localizations, l),
                      SameSubstitutions(catalog[k].localizations, l),
                      NEW p \in Advertised(catalog[k].localizations, l), NEW text \in Texts,
                      Fits(catalog[k].localizations, l, p, text)
               PROVE  CanSubmit(k, l, p, text)
    BY DEF ListedCanBeSubmitted
  <2> DEFINE locs == catalog[k].localizations
             r == Alone(k, l, p, text)
  <2>1. AreLocalizations(locs)
    BY <1>1 DEF TypeOK, Translatable, IsEntry
  <2> HIDE DEF locs
  <2>2. /\ Supported(p) /\ (p.at \in Names => HasParent(locs, l, p.at))
        /\ CanStage(locs, l, [q \in {p} |-> text]) /\ FormatHolds(locs, l, p, text)
    BY <2>1, ListedStages DEF locs
  <2>3. /\ r.key = k /\ r.locale = l /\ r.explicit /\ r.texts = [q \in {p} |-> text]
        /\ DOMAIN r.texts = {p} /\ r.texts[p] = text
    BY DEF Alone
  <2>4. l # SourceLanguage /\ Categories(l) # {}
    BY LocalesAssumption DEF Clean
  <2> HIDE DEF r
  <2>5. Normalized(catalog, r)
    BY <2>2, <2>3, <2>4 DEF Normalized, locs
  <2>6. Acceptable(catalog, r)
    BY <2>2, <2>3 DEF Acceptable, locs
  <2> QED BY <2>5, <2>6 DEF CanSubmit, r
<1> QED BY <1>1, TypeCorrect, PTL

-----------------------------------------------------------------------------
(* Facts about sequences.                                                  *)

-----------------------------------------------------------------------------
(* Format specifiers: loops and bags.                                      *)

IsRun(f, start, N, step) == f = [k \in 0 .. N |-> IF k = 0 THEN start ELSE step[k][f[k - 1]]]

(* A loop whose turns are given by a function runs to its end.             *)
LEMMA StepsRun ==
    ASSUME NEW V, NEW start \in V, NEW N \in Nat, NEW step \in [1 .. N -> [V -> V]]
    PROVE  \E f \in [0 .. N -> V] : IsRun(f, start, N, step)
<1> DEFINE Runs(f, n) == /\ f \in [0 .. n -> V] /\ f[0] = start
                         /\ \A k \in 1 .. n : f[k] = step[k][f[k - 1]]
           Done == {n \in Nat : n > N \/ \E f : Runs(f, n)}
<1>1. 0 \in Done
  <2>1. Runs([k \in 0 .. 0 |-> start], 0)
    OBVIOUS
  <2> QED BY <2>1
<1>2. ASSUME NEW n \in Done PROVE n + 1 \in Done
  <2>0. n \in Nat /\ (n < N => \E f : Runs(f, n))
    <3> HIDE DEF Runs
    <3> QED OBVIOUS
  <2>1. CASE n >= N
    <3>1. n + 1 \in Nat /\ n + 1 > N
      BY <2>0, <2>1
    <3> HIDE DEF Runs
    <3> QED BY <3>1
  <2>2. CASE n < N
    <3>1. PICK f : Runs(f, n)
      BY <2>0, <2>2
    <3> DEFINE g == [k \in 0 .. n + 1 |-> IF k <= n THEN f[k] ELSE step[k][f[n]]]
    <3>2. f[n] \in V /\ step[n + 1][f[n]] \in V
      BY <2>2, <3>1
    <3>3. g \in [0 .. n + 1 -> V] /\ g[0] = start
      BY <3>1, <3>2
    <3>4. ASSUME NEW k \in 1 .. n + 1 PROVE g[k] = step[k][g[k - 1]]
      <4>1. g[k - 1] = f[k - 1]
        OBVIOUS
      <4>2. CASE k <= n
        BY <3>1, <4>1, <4>2
      <4>3. CASE k = n + 1
        BY <4>1, <4>3
      <4> QED BY <4>2, <4>3
    <3> HIDE DEF g
    <3>5. Runs(g, n + 1)
      BY <3>3, <3>4
    <3> HIDE DEF Runs
    <3> QED BY <2>0, <3>5
  <2> HIDE DEF Done
  <2> QED BY <2>0, <2>1, <2>2
<1>3. Done = Nat
  <2>1. Done \subseteq Nat
    OBVIOUS
  <2> HIDE DEF Done
  <2> QED BY <1>1, <1>2, <2>1, SetInduction
<1>4. PICK f : Runs(f, N)
  BY <1>3
<1>5. f = [k \in 0 .. N |-> IF k = 0 THEN start ELSE step[k][f[k - 1]]]
  <2>1. \A k \in 0 .. N : f[k] = IF k = 0 THEN start ELSE step[k][f[k - 1]]
    BY <1>4
  <2> QED BY <1>4, <2>1
<1> QED BY <1>4, <1>5 DEF IsRun

LEMMA NextFacts ==
    ASSUME NEW x, Len(x) \in Nat,
           \A k \in 1 .. Len(x) : Takes(x[k].width) + Takes(x[k].precision) + 1 \in Nat
    PROVE  LET next == NextPosition(x)
           IN  /\ next \in [0 .. Len(x) -> Nat] /\ next[0] = 1
               /\ \A k \in 1 .. Len(x) :
                    next[k] = IF k \in Arguments(x)
                              THEN next[k - 1] + Takes(x[k].width) + Takes(x[k].precision) + 1
                              ELSE next[k - 1]
<1> DEFINE N == Len(x)
           Turn(k, v) == IF k \in Arguments(x)
                         THEN v + Takes(x[k].width) + Takes(x[k].precision) + 1 ELSE v
           step == [k \in 1 .. N |-> [v \in Nat |-> Turn(k, v)]]
           IsLoop(f) == f = [k \in 0 .. N |-> IF k = 0 THEN 1
                               ELSE IF k \in Arguments(x)
                               THEN f[k - 1] + Takes(x[k].width) + Takes(x[k].precision) + 1
                               ELSE f[k - 1]]
           loop == CHOOSE f : IsLoop(f)
<1>0. \A c : Takes(c) \in Nat
  BY DEF Takes
<1>1. \A k \in 1 .. N, v \in Nat : Turn(k, v) \in Nat
  BY <1>0
<1>2. step \in [1 .. N -> [Nat -> Nat]] /\ \A k \in 1 .. N, v \in Nat : step[k][v] = Turn(k, v)
  <2> HIDE DEF Turn
  <2> QED BY <1>1
<1>3. PICK f \in [0 .. N -> Nat] : IsRun(f, 1, N, step)
  <2>1. 1 \in Nat /\ N \in Nat
    OBVIOUS
  <2> HIDE DEF step, Turn, N
  <2>2. step \in [1 .. N -> [Nat -> Nat]]
    BY <1>2
  <2> QED BY <2>1, <2>2, StepsRun, Zenon
<1>5. IsLoop(f)
  <2>1. ASSUME NEW k \in 1 .. N PROVE step[k][f[k - 1]] = Turn(k, f[k - 1])
    <3>1. k - 1 \in 0 .. N
      OBVIOUS
    <3> HIDE DEF step, Turn, N
    <3>2. f[k - 1] \in Nat
      BY <1>3, <3>1
    <3> QED BY <1>2, <3>2
  <2>2. \A k \in 0 .. N : f[k] = IF k = 0 THEN 1 ELSE Turn(k, f[k - 1])
    <3>1. \A k \in 0 .. N : f[k] = IF k = 0 THEN 1 ELSE step[k][f[k - 1]]
      <4> HIDE DEF step, N
      <4> QED BY <1>3 DEF IsRun
    <3>2. \A k \in 0 .. N : k # 0 => k \in 1 .. N
      OBVIOUS
    <3> HIDE DEF step, Turn, N
    <3> QED BY <2>1, <3>1, <3>2
  <2>3. f \in [0 .. N -> Nat]
    BY <1>3
  <2> HIDE DEF step, N
  <2> QED BY <2>2, <2>3
<1>6. IsLoop(loop)
  <2> HIDE DEF IsLoop
  <2> QED BY <1>5
<1>7. NextPosition(x) = loop
  BY DEF NextPosition
<1> HIDE DEF loop
<1>8. /\ loop[0] = 1 /\ DOMAIN loop = 0 .. N
      /\ \A k \in 1 .. N : loop[k] = Turn(k, loop[k - 1])
  <2>1. \A k \in 0 .. N : loop[k] = IF k = 0 THEN 1 ELSE Turn(k, loop[k - 1])
    BY <1>6
  <2>2. 0 \in 0 .. N /\ \A k \in 1 .. N : k \in 0 .. N /\ k # 0
    OBVIOUS
  <2>3. DOMAIN loop = 0 .. N
    BY <1>6
  <2> HIDE DEF Turn, N
  <2> QED BY <2>1, <2>2, <2>3
<1>9. \A n \in Nat : n <= N => loop[n] \in Nat
  <2> DEFINE Good == {n \in Nat : n <= N => loop[n] \in Nat}
  <2>1. 0 \in Good
    BY <1>8
  <2>2. ASSUME NEW n \in Good PROVE n + 1 \in Good
    <3>1. n + 1 <= N => n + 1 \in 1 .. N /\ (n + 1) - 1 = n /\ loop[n] \in Nat
      OBVIOUS
    <3> HIDE DEF Turn
    <3> QED BY <1>1, <1>8, <3>1
  <2>3. Good \subseteq Nat
    OBVIOUS
  <2>4. Good = Nat
    <3> HIDE DEF Good
    <3> QED BY <2>1, <2>2, <2>3, SetInduction
  <2> QED BY <2>4
<1>10. loop \in [0 .. N -> Nat]
  BY <1>6, <1>8, <1>9
<1> QED BY <1>7, <1>8, <1>10

LEMMA JoinedRuns ==
    ASSUME NEW S, NEW lists, Len(lists) \in Nat, \A k \in 1 .. Len(lists) : lists[k] \in Seq(S)
    PROVE  LET joined == Joined(lists)
           IN  /\ joined \in [0 .. Len(lists) -> Seq(S)] /\ joined[0] = <<>>
               /\ \A k \in 1 .. Len(lists) : joined[k] = joined[k - 1] \o lists[k]
<1> DEFINE N == Len(lists)
           step == [k \in 1 .. N |-> [v \in Seq(S) |-> v \o lists[k]]]
           IsLoop(f) == f = [k \in 0 .. N |-> IF k = 0 THEN <<>> ELSE f[k - 1] \o lists[k]]
           loop == CHOOSE f : IsLoop(f)
<1>1. \A k \in 1 .. N, v \in Seq(S) : v \o lists[k] \in Seq(S)
  OBVIOUS
<1>2. step \in [1 .. N -> [Seq(S) -> Seq(S)]] /\ \A k \in 1 .. N, v \in Seq(S) : step[k][v] = v \o lists[k]
  BY <1>1
<1>3. PICK f \in [0 .. N -> Seq(S)] : IsRun(f, <<>>, N, step)
  <2>1. <<>> \in Seq(S) /\ N \in Nat
    OBVIOUS
  <2> HIDE DEF step, N
  <2>2. step \in [1 .. N -> [Seq(S) -> Seq(S)]]
    BY <1>2
  <2> QED BY <2>1, <2>2, StepsRun, Zenon
<1>4. IsLoop(f)
  <2>1. ASSUME NEW k \in 1 .. N PROVE step[k][f[k - 1]] = f[k - 1] \o lists[k]
    <3>1. k - 1 \in 0 .. N
      OBVIOUS
    <3> HIDE DEF step, N
    <3>2. f[k - 1] \in Seq(S)
      BY <1>3, <3>1
    <3> QED BY <1>2, <3>2
  <2>2. \A k \in 0 .. N : f[k] = IF k = 0 THEN <<>> ELSE f[k - 1] \o lists[k]
    <3>1. \A k \in 0 .. N : f[k] = IF k = 0 THEN <<>> ELSE step[k][f[k - 1]]
      <4> HIDE DEF step, N
      <4> QED BY <1>3 DEF IsRun
    <3>2. \A k \in 0 .. N : k # 0 => k \in 1 .. N
      OBVIOUS
    <3> HIDE DEF step, N
    <3> QED BY <2>1, <3>1, <3>2
  <2> HIDE DEF step, N
  <2> QED BY <1>3, <2>2
<1>5. IsLoop(loop)
  <2> HIDE DEF IsLoop
  <2> QED BY <1>4
<1>6. Joined(lists) = loop
  BY DEF Joined
<1> HIDE DEF loop
<1>7. /\ loop[0] = <<>> /\ DOMAIN loop = 0 .. N
      /\ \A k \in 1 .. N : loop[k] = loop[k - 1] \o lists[k]
  <2>1. \A k \in 0 .. N : loop[k] = IF k = 0 THEN <<>> ELSE loop[k - 1] \o lists[k]
    BY <1>5
  <2>2. 0 \in 0 .. N /\ \A k \in 1 .. N : k \in 0 .. N /\ k # 0
    OBVIOUS
  <2>3. DOMAIN loop = 0 .. N
    BY <1>5
  <2> HIDE DEF N
  <2> QED BY <2>1, <2>2, <2>3
<1>8. \A n \in Nat : n <= N => loop[n] \in Seq(S)
  <2> DEFINE Good == {n \in Nat : n <= N => loop[n] \in Seq(S)}
  <2>1. 0 \in Good
    <3>1. <<>> \in Seq(S)
      OBVIOUS
    <3> HIDE DEF N
    <3> QED BY <1>7, <3>1
  <2>2. ASSUME NEW n \in Good PROVE n + 1 \in Good
    <3>1. n \in Nat /\ (n + 1 <= N => n + 1 \in 1 .. N /\ (n + 1) - 1 = n /\ loop[n] \in Seq(S))
      OBVIOUS
    <3>2. ASSUME n + 1 <= N PROVE loop[n + 1] \in Seq(S)
      <4>1. loop[n + 1] = loop[n] \o lists[n + 1] /\ lists[n + 1] \in Seq(S)
        BY <1>7, <3>1, <3>2
      <4> QED BY <3>1, <3>2, <4>1
    <3> QED BY <3>1, <3>2
  <2>3. Good \subseteq Nat
    OBVIOUS
  <2>4. Good = Nat
    <3> HIDE DEF Good
    <3> QED BY <2>1, <2>2, <2>3, SetInduction
  <2> QED BY <2>4
<1>9. loop \in [0 .. N -> Seq(S)]
  BY <1>5, <1>7, <1>8
<1> QED BY <1>6, <1>7, <1>9

LEMMA ConcatPlaces ==
    ASSUME NEW S, NEW a \in Seq(S), NEW b \in Seq(S)
    PROVE  /\ Len(a) \in Nat /\ Len(b) \in Nat /\ Len(a \o b) = Len(a) + Len(b)
           /\ \A i \in 1 .. Len(a) : (a \o b)[i] = a[i]
           /\ \A i \in 1 .. Len(b) : (a \o b)[Len(a) + i] = b[i]
OBVIOUS

(* Every element of a list has its place in the whole, and no place is left. *)
IsJoined(S, lists) ==
    LET joined == Joined(lists)
        all == joined[Len(lists)]
    IN  /\ all \in Seq(S)
        /\ \A k \in 1 .. Len(lists) : \A j \in 1 .. Len(lists[k]) :
             /\ Len(joined[k - 1]) + j \in 1 .. Len(all)
             /\ all[Len(joined[k - 1]) + j] = lists[k][j]
        /\ \A i \in 1 .. Len(all) : \E k \in 1 .. Len(lists) : \E j \in 1 .. Len(lists[k]) :
             i = Len(joined[k - 1]) + j

LEMMA JoinedPlaces ==
    ASSUME NEW S, NEW lists, Len(lists) \in Nat, \A k \in 1 .. Len(lists) : lists[k] \in Seq(S)
    PROVE  IsJoined(S, lists)
<1> DEFINE N == Len(lists)
           joined == Joined(lists)
           Placed(n, k, j) == /\ Len(joined[k - 1]) + j \in 1 .. Len(joined[n])
                              /\ joined[n][Len(joined[k - 1]) + j] = lists[k][j]
           AllPlaced(n) == \A k \in 1 .. n : \A j \in 1 .. Len(lists[k]) : Placed(n, k, j)
           Full(n) == \A i \in 1 .. Len(joined[n]) : \E k \in 1 .. n : \E j \in 1 .. Len(lists[k]) :
                            i = Len(joined[k - 1]) + j
           Good == {n \in Nat : n <= N => AllPlaced(n) /\ Full(n)}
<1>1. /\ joined \in [0 .. N -> Seq(S)] /\ joined[0] = <<>>
      /\ \A k \in 1 .. N : joined[k] = joined[k - 1] \o lists[k]
  BY JoinedRuns
<1> HIDE DEF joined
<1>2. 0 \in Good
  BY <1>1
<1>3. ASSUME NEW n \in Good PROVE n + 1 \in Good
  <2>1. n \in Nat
    OBVIOUS
  <2> SUFFICES ASSUME n + 1 <= N PROVE AllPlaced(n + 1) /\ Full(n + 1)
    OBVIOUS
  <2>2. n + 1 \in 1 .. N /\ n \in 0 .. N /\ (n + 1) - 1 = n
    BY <2>1
  <2>3. joined[n] \in Seq(S) /\ lists[n + 1] \in Seq(S) /\ joined[n + 1] = joined[n] \o lists[n + 1]
    BY <1>1, <2>2
  <2>4. AllPlaced(n) /\ Full(n)
    BY <2>2
  <2> DEFINE a == joined[n]
             b == lists[n + 1]
  <2>5. /\ Len(a) \in Nat /\ Len(b) \in Nat /\ Len(joined[n + 1]) = Len(a) + Len(b)
        /\ \A i \in 1 .. Len(a) : joined[n + 1][i] = a[i]
        /\ \A i \in 1 .. Len(b) : joined[n + 1][Len(a) + i] = b[i]
    <3>1. a \in Seq(S) /\ b \in Seq(S) /\ joined[n + 1] = a \o b
      BY <2>3
    <3> HIDE DEF a, b
    <3> QED BY <3>1, ConcatPlaces
  <2> HIDE DEF a, b
  <2>6. ASSUME NEW k \in 1 .. n + 1, NEW j \in 1 .. Len(lists[k]) PROVE Placed(n + 1, k, j)
    <3>1. CASE k \in 1 .. n
      <4>1. Placed(n, k, j)
        BY <2>4, <3>1
      <4>2. Len(joined[k - 1]) + j \in 1 .. Len(a)
        BY <4>1 DEF a
      <4>3. Len(joined[k - 1]) + j \in 1 .. Len(a) + Len(b)
        BY <2>5, <4>2
      <4> QED BY <2>5, <4>1, <4>2, <4>3 DEF a
    <3>2. CASE k = n + 1
      <4>1. j \in 1 .. Len(b) /\ joined[k - 1] = a
        BY <2>1, <3>2 DEF a, b
      <4>2. Len(a) + j \in 1 .. Len(a) + Len(b)
        BY <2>5, <4>1
      <4> QED BY <2>5, <3>2, <4>1, <4>2 DEF b
    <3> QED BY <2>1, <3>1, <3>2
  <2>7. ASSUME NEW i \in 1 .. Len(joined[n + 1])
        PROVE  \E k \in 1 .. n + 1 : \E j \in 1 .. Len(lists[k]) : i = Len(joined[k - 1]) + j
    <3>1. CASE i <= Len(a)
      <4>1. i \in 1 .. Len(joined[n])
        BY <2>5, <3>1 DEF a
      <4>2. PICK k \in 1 .. n : \E j \in 1 .. Len(lists[k]) : i = Len(joined[k - 1]) + j
        BY <2>4, <4>1
      <4>3. k \in 1 .. n + 1
        BY <2>1
      <4> QED BY <4>2, <4>3
    <3>2. CASE i > Len(a)
      <4>1. i - Len(a) \in 1 .. Len(b) /\ i = Len(a) + (i - Len(a))
        BY <2>5, <3>2
      <4>2. n + 1 \in 1 .. n + 1 /\ joined[(n + 1) - 1] = a
        BY <2>1 DEF a
      <4> QED BY <4>1, <4>2 DEF b
    <3> QED BY <2>5, <3>1, <3>2
  <2> QED BY <2>6, <2>7
<1>4. Good = Nat
  <2>1. Good \subseteq Nat
    OBVIOUS
  <2> HIDE DEF Good
  <2> QED BY <1>2, <1>3, <2>1, SetInduction
<1>5. AllPlaced(N) /\ Full(N) /\ joined[N] \in Seq(S)
  <2>1. N \in Nat /\ N \in 0 .. N
    OBVIOUS
  <2>2. N \in Good
    BY <1>4, <2>1
  <2>3. AllPlaced(N) /\ Full(N)
    BY <2>1, <2>2
  <2> HIDE DEF N
  <2> QED BY <1>1, <2>1, <2>3
<1> QED BY <1>5 DEF joined, IsJoined

(* Two ways of telling the members of two lists apart count them alike.    *)
TellAlike(f, g, u, v) ==
    /\ DOMAIN f = DOMAIN g /\ DOMAIN u = DOMAIN v
    /\ \A i, j \in DOMAIN f : f[i] = f[j] <=> g[i] = g[j]
    /\ \A i \in DOMAIN f, j \in DOMAIN u : f[i] = u[j] <=> g[i] = v[j]
    /\ \A i, j \in DOMAIN u : u[i] = u[j] <=> v[i] = v[j]

LEMMA BagsAgree ==
    ASSUME NEW f, NEW g, NEW u, NEW v, TellAlike(f, g, u, v), ToBag(f) = ToBag(u)
    PROVE  ToBag(g) = ToBag(v)
<1> USE DEF TellAlike
<1> DEFINE D == DOMAIN f
           E == DOMAIN u
           F(w) == {i \in D : f[i] = w}
           G(w) == {i \in D : g[i] = w}
           U(w) == {i \in E : u[i] = w}
           V(w) == {i \in E : v[i] = w}
<1>1. /\ Range(f) = Range(u)
      /\ \A w \in Range(f) : Cardinality(F(w)) = Cardinality(U(w))
  <2> DEFINE A == ToBag(f)
             B == ToBag(u)
  <2>1. DOMAIN A = Range(f) /\ \A w \in Range(f) : A[w] = Cardinality(F(w))
    BY DEF ToBag
  <2>2. DOMAIN B = Range(u) /\ \A w \in Range(u) : B[w] = Cardinality(U(w))
    BY DEF ToBag
  <2>3. A = B
    OBVIOUS
  <2> HIDE DEF A, B, F, U
  <2> QED BY <2>1, <2>2, <2>3
<1>2. ASSUME NEW w \in Range(g)
      PROVE  w \in Range(v) /\ Cardinality(G(w)) = Cardinality(V(w))
  <2>1. PICK k \in D : g[k] = w
    BY DEF Range
  <2>2. PICK m \in E : u[m] = f[k]
    BY <1>1 DEF Range
  <2>3. v[m] = w
    BY <2>1, <2>2
  <2>4. G(w) = F(f[k]) /\ V(w) = U(f[k])
    BY <2>1, <2>2, <2>3
  <2>5. f[k] \in Range(f) /\ w \in Range(v)
    BY <2>3 DEF Range
  <2> HIDE DEF F, G, U, V
  <2> QED BY <1>1, <2>4, <2>5
<1>3. ASSUME NEW w \in Range(v) PROVE w \in Range(g)
  <2>1. PICK m \in E : v[m] = w
    BY DEF Range
  <2>2. PICK k \in D : f[k] = u[m]
    BY <1>1 DEF Range
  <2> QED BY <2>1, <2>2 DEF Range
<1>4. Range(g) = Range(v)
  BY <1>2, <1>3
<1>5. ToBag(g) = [w \in Range(g) |-> Cardinality(G(w))] /\ ToBag(v) = [w \in Range(v) |-> Cardinality(V(w))]
  BY DEF ToBag
<1> HIDE DEF G, V
<1> QED BY <1>2, <1>4, <1>5

-----------------------------------------------------------------------------
(* What a specifier reads.                                                 *)

LEMMA ThreeParts ==
    ASSUME NEW first \in BOOLEAN, NEW second \in BOOLEAN, NEW a, NEW b, NEW c
    PROVE  LET s == (IF first THEN <<a>> ELSE <<>>) \o (IF second THEN <<b>> ELSE <<>>) \o <<c>>
               m == IF first THEN 1 ELSE 0
               n == IF second THEN 1 ELSE 0
           IN  /\ s \in Seq({a, b, c}) /\ Len(s) = m + n + 1 /\ DOMAIN s = 1 .. m + n + 1
               /\ s[m + n + 1] = c
               /\ first => s[1] = a
               /\ second => s[m + 1] = b
<1> DEFINE S == {a, b, c}
           u == IF first THEN <<a>> ELSE <<>>
           v == IF second THEN <<b>> ELSE <<>>
           z == <<c>>
           m == IF first THEN 1 ELSE 0
           n == IF second THEN 1 ELSE 0
<1>1. u \in Seq(S) /\ Len(u) = m /\ (first => u[1] = a) /\ m \in Nat /\ (first => m = 1)
  <2>1. CASE first
    <3>1. u = <<a>> /\ m = 1
      BY <2>1
    <3> HIDE DEF u, m
    <3> QED BY <3>1
  <2>2. CASE ~first
    <3>1. u = <<>> /\ m = 0
      BY <2>2
    <3> HIDE DEF u, m
    <3> QED BY <2>2, <3>1
  <2> QED BY <2>1, <2>2
<1>2. v \in Seq(S) /\ Len(v) = n /\ (second => v[1] = b) /\ n \in Nat /\ (second => n = 1)
  <2>1. CASE second
    <3>1. v = <<b>> /\ n = 1
      BY <2>1
    <3> HIDE DEF v, n
    <3> QED BY <3>1
  <2>2. CASE ~second
    <3>1. v = <<>> /\ n = 0
      BY <2>2
    <3> HIDE DEF v, n
    <3> QED BY <2>2, <3>1
  <2> QED BY <2>1, <2>2
<1>3. z \in Seq(S) /\ Len(z) = 1 /\ z[1] = c
  OBVIOUS
<1> HIDE DEF S, u, v, z, m, n
<1>4. /\ u \o v \in Seq(S) /\ Len(u \o v) = m + n
      /\ \A i \in 1 .. m : (u \o v)[i] = u[i]
      /\ \A i \in 1 .. n : (u \o v)[m + i] = v[i]
  BY <1>1, <1>2, ConcatPlaces
<1> DEFINE w == u \o v
           s == w \o z
<1> HIDE DEF w
<1>5. /\ s \in Seq(S) /\ Len(s) = m + n + 1
      /\ \A i \in 1 .. m + n : s[i] = w[i]
      /\ \A i \in 1 .. 1 : s[m + n + i] = z[i]
  <2>1. w \in Seq(S) /\ Len(w) = m + n /\ m + n \in Nat
    BY <1>1, <1>2, <1>4 DEF w
  <2>2. /\ w \o z \in Seq(S) /\ Len(w \o z) = Len(w) + Len(z)
        /\ \A i \in 1 .. Len(w) : (w \o z)[i] = w[i]
        /\ \A i \in 1 .. Len(z) : (w \o z)[Len(w) + i] = z[i]
    <3>1. w \in Seq(S) /\ z \in Seq(S)
      BY <1>3, <2>1
    <3> QED BY <3>1, ConcatPlaces
  <2> QED BY <1>3, <2>1, <2>2
<1> HIDE DEF s
<1>6. s[m + n + 1] = c /\ DOMAIN s = 1 .. m + n + 1
  BY <1>1, <1>2, <1>3, <1>5
<1>7. first => s[1] = a
  <2>1. first => 1 \in 1 .. m + n /\ 1 \in 1 .. m
    BY <1>1, <1>2
  <2> QED BY <1>1, <1>4, <1>5, <2>1 DEF w
<1>8. second => s[m + 1] = b
  <2>1. second => m + 1 \in 1 .. m + n /\ 1 \in 1 .. n
    BY <1>1, <1>2
  <2> QED BY <1>2, <1>4, <1>5, <2>1 DEF w
<1> QED BY <1>5, <1>6, <1>7, <1>8 DEF s, w, u, v, z, m, n, S

LEMMA ComponentFacts ==
    ASSUME NEW x, IsComponent(x)
    PROVE  /\ x.dynamic \in BOOLEAN /\ IsPosition(x.position)
           /\ x.dynamic <=> x.value = "*"
           /\ x.dynamic => Takes(x) = 1
           /\ ~x.dynamic => Takes(x) = 0
<1>1. CASE x = Fixed(x.value) /\ x.value # "*"
  <2>1. x.dynamic = FALSE /\ x.position = {}
    BY <1>1 DEF Fixed
  <2> QED BY <1>1, <2>1 DEF Takes, IsPosition
<1>2. CASE x = Star(x.position) /\ IsPosition(x.position)
  <2>1. x.dynamic = TRUE /\ x.value = "*"
    BY <1>2 DEF Star
  <2> QED BY <1>2, <2>1 DEF Takes
<1> QED BY <1>1, <1>2 DEF IsComponent

LEMMA NumberFacts ==
    ASSUME NEW position, IsPosition(position), position # {}
    PROVE  Number(position) \in Nat /\ position = {Number(position)}
BY DEF IsPosition, Number

Width(c) == Takes(c.width) + Takes(c.precision) + 1

LEMMA WantsFacts ==
    ASSUME NEW c, IsSpecifier(c), ~IsReference(c)
    PROVE  LET w == Takes(c.width)
               last == Width(c)
           IN  /\ w \in 0 .. 1 /\ Takes(c.precision) \in 0 .. 1 /\ last \in 1 .. 3
               /\ DOMAIN Wants(c) = 1 .. last /\ Len(Wants(c)) = last
               /\ Wants(c) \in Seq({Wants(c)[j] : j \in 1 .. last})
               /\ Wants(c)[last] = [position |-> c.position, type |-> argument_type(c)]
               /\ c.width.dynamic =>
                    w = 1 /\ Wants(c)[1] = [position |-> c.width.position, type |-> "Int"]
               /\ ~c.width.dynamic => w = 0
               /\ c.precision.dynamic =>
                    /\ Takes(c.precision) = 1
                    /\ Wants(c)[w + 1] = [position |-> c.precision.position, type |-> "Int"]
               /\ ~c.precision.dynamic => Takes(c.precision) = 0
<1> DEFINE A == [position |-> c.width.position, type |-> "Int"]
           B == [position |-> c.precision.position, type |-> "Int"]
           C == [position |-> c.position, type |-> argument_type(c)]
           s == (IF c.width.dynamic THEN <<A>> ELSE <<>>)
                \o (IF c.precision.dynamic THEN <<B>> ELSE <<>>) \o <<C>>
           m == IF c.width.dynamic THEN 1 ELSE 0
           n == IF c.precision.dynamic THEN 1 ELSE 0
<1>1. c.width.dynamic \in BOOLEAN /\ c.precision.dynamic \in BOOLEAN
  BY ComponentFacts DEF IsSpecifier
<1>2. Wants(c) = s
  BY DEF Wants
<1>3. Takes(c.width) = m /\ Takes(c.precision) = n
  BY DEF Takes
<1>4. /\ s \in Seq({A, B, C}) /\ Len(s) = m + n + 1 /\ DOMAIN s = 1 .. m + n + 1
      /\ s[m + n + 1] = C
      /\ c.width.dynamic => s[1] = A
      /\ c.precision.dynamic => s[m + 1] = B
  <2> HIDE DEF A, B, C
  <2> QED BY <1>1, ThreeParts
<1>5. /\ m \in 0 .. 1 /\ n \in 0 .. 1 /\ (c.width.dynamic => m = 1) /\ (~c.width.dynamic => m = 0)
      /\ (c.precision.dynamic => n = 1)
      /\ (~c.precision.dynamic => n = 0)
  BY <1>1
<1> HIDE DEF s, m, n, A, B, C
<1>6. s \in Seq({s[j] : j \in 1 .. m + n + 1})
  BY <1>4, <1>5
<1>7. ~c.width.dynamic => m = 0
  BY DEF m
<1>8. c.width.dynamic => m = 1
  BY DEF m
<1>9. m + n + 1 = Width(c) /\ m + n + 1 \in 1 .. 3
  BY <1>3, <1>5 DEF Width
<1> QED BY <1>2, <1>3, <1>4, <1>5, <1>6, <1>7, <1>8, <1>9 DEF A, B, C

(* A read by itself, next being the first argument that has not been read. *)
Index(c, next, j) ==
    IF Wants(c)[j].position = {} THEN next + j - 1 ELSE Number(Wants(c)[j].position)

LEMMA OccurrenceFacts ==
    ASSUME NEW c, IsSpecifier(c), ~IsReference(c), NEW next \in Nat
    PROVE  LET o == Occurrence(c, next)
               w == Takes(c.width)
               last == Width(c)
           IN  /\ o.position = Index(c, next, last) /\ o.type = argument_type(c)
               /\ o.signature[1] = c.flags
               /\ o.signature[2].value = c.width.value
               /\ o.signature[3].value = c.precision.value
               /\ o.signature[2].argument = IF c.width.dynamic THEN {Index(c, next, 1)} ELSE {}
               /\ o.signature[3].argument = IF c.precision.dynamic THEN {Index(c, next, w + 1)} ELSE {}
               /\ o.signature[4] = c.length /\ o.signature[5] = c.conversion
               /\ o = [position |-> o.position, type |-> o.type,
                       signature |-> <<o.signature[1],
                            [value |-> o.signature[2].value, argument |-> o.signature[2].argument],
                            [value |-> o.signature[3].value, argument |-> o.signature[3].argument],
                            o.signature[4], o.signature[5]>>]
<1> DEFINE w == Takes(c.width)
           p == Takes(c.precision)
           last == Width(c)
           o == Occurrence(c, next)
<1>1. /\ w \in 0 .. 1 /\ p \in 0 .. 1 /\ last = w + p + 1
      /\ Wants(c)[last] = [position |-> c.position, type |-> argument_type(c)]
      /\ c.width.dynamic => w = 1 /\ Wants(c)[1] = [position |-> c.width.position, type |-> "Int"]
      /\ c.precision.dynamic => Wants(c)[w + 1] = [position |-> c.precision.position, type |-> "Int"]
  BY WantsFacts DEF Width
<1>2. /\ o.position = IF c.position # {} THEN Number(c.position) ELSE next + w + p
      /\ o.type = argument_type(c)
      /\ o.signature = <<c.flags, Resolved(c.width, next), Resolved(c.precision, next + w),
                         c.length, c.conversion>>
      /\ o = [position |-> o.position, type |-> o.type, signature |-> o.signature]
  BY DEF Occurrence
<1>3. IsPosition(c.width.position) /\ IsPosition(c.precision.position)
  BY ComponentFacts DEF IsSpecifier
<1>4. Resolved(c.width, next).argument = IF c.width.dynamic THEN {Index(c, next, 1)} ELSE {}
  <2>1. CASE c.width.dynamic
    <3>1. Wants(c)[1].position = c.width.position /\ next + 1 - 1 = next
      BY <1>1, <2>1
    <3>2. c.width.position # {} => c.width.position = {Number(c.width.position)}
      BY <1>3, NumberFacts
    <3> QED BY <2>1, <3>1, <3>2 DEF Resolved, Index
  <2> QED BY <2>1 DEF Resolved
<1>5. Resolved(c.precision, next + w).argument =
            IF c.precision.dynamic THEN {Index(c, next, w + 1)} ELSE {}
  <2>1. CASE c.precision.dynamic
    <3>1. Wants(c)[w + 1].position = c.precision.position /\ next + (w + 1) - 1 = next + w
      BY <1>1, <2>1
    <3>2. c.precision.position # {} => c.precision.position = {Number(c.precision.position)}
      BY <1>3, NumberFacts
    <3> QED BY <2>1, <3>1, <3>2 DEF Resolved, Index
  <2> QED BY <2>1 DEF Resolved
<1>6. o.position = Index(c, next, last)
  <2>1. Wants(c)[last].position = c.position /\ next + last - 1 = next + w + p
    BY <1>1
  <2> HIDE DEF o, last, w, p
  <2> QED BY <1>2, <2>1 DEF Index
<1>7. /\ Resolved(c.width, next).value = c.width.value
      /\ Resolved(c.precision, next + w).value = c.precision.value
      /\ Resolved(c.width, next) = [value |-> Resolved(c.width, next).value,
                                    argument |-> Resolved(c.width, next).argument]
      /\ Resolved(c.precision, next + w) = [value |-> Resolved(c.precision, next + w).value,
                                            argument |-> Resolved(c.precision, next + w).argument]
  BY DEF Resolved
<1> DEFINE width == Resolved(c.width, next)
           precision == Resolved(c.precision, next + w)
<1> HIDE DEF o, w, p, last, width, precision
<1>8. /\ o.signature[1] = c.flags /\ o.signature[2] = width /\ o.signature[3] = precision
      /\ o.signature[4] = c.length /\ o.signature[5] = c.conversion
      /\ o.signature = <<o.signature[1], o.signature[2], o.signature[3], o.signature[4], o.signature[5]>>
  BY <1>2 DEF width, precision
<1> QED BY <1>2, <1>4, <1>5, <1>6, <1>7, <1>8 DEF o, w, last, width, precision

Entries(c, next) == {<<Index(c, next, j), Wants(c)[j].type>> : j \in 1 .. Width(c)}

EntriesOf(o) == {<<o.position, o.type>>} \cup {<<n, "Int">> : n \in Components(o)}

LEMMA SameEntries ==
    ASSUME NEW c, IsSpecifier(c), ~IsReference(c), NEW next \in Nat
    PROVE  EntriesOf(Occurrence(c, next)) = Entries(c, next)
<1> DEFINE w == Takes(c.width)
           p == Takes(c.precision)
           last == Width(c)
           o == Occurrence(c, next)
           At(j) == <<Index(c, next, j), Wants(c)[j].type>>
<1>1. /\ w \in 0 .. 1 /\ p \in 0 .. 1 /\ last = w + p + 1
      /\ Wants(c)[last].type = argument_type(c)
      /\ c.width.dynamic => w = 1 /\ Wants(c)[1].type = "Int"
      /\ ~c.width.dynamic => w = 0
      /\ c.precision.dynamic => p = 1 /\ Wants(c)[w + 1].type = "Int"
      /\ ~c.precision.dynamic => p = 0
  <2>1. /\ w \in 0 .. 1 /\ p \in 0 .. 1
        /\ Wants(c)[last] = [position |-> c.position, type |-> argument_type(c)]
    BY WantsFacts
  <2>2. /\ c.width.dynamic =>
            w = 1 /\ Wants(c)[1] = [position |-> c.width.position, type |-> "Int"]
        /\ ~c.width.dynamic => w = 0
    BY WantsFacts
  <2>3. /\ c.precision.dynamic =>
            p = 1 /\ Wants(c)[w + 1] = [position |-> c.precision.position, type |-> "Int"]
        /\ ~c.precision.dynamic => p = 0
    BY WantsFacts
  <2>4. last = w + p + 1
    BY DEF Width
  <2> HIDE DEF w, p, last
  <2> QED BY <2>1, <2>2, <2>3, <2>4
<1>2. /\ o.position = Index(c, next, last) /\ o.type = argument_type(c)
      /\ o.signature[2].argument = IF c.width.dynamic THEN {Index(c, next, 1)} ELSE {}
      /\ o.signature[3].argument = IF c.precision.dynamic THEN {Index(c, next, w + 1)} ELSE {}
  BY OccurrenceFacts
<1>3. EntriesOf(o) = {At(last)} \cup (IF c.width.dynamic THEN {At(1)} ELSE {})
                     \cup (IF c.precision.dynamic THEN {At(w + 1)} ELSE {})
  <2>1. Components(o) = (IF c.width.dynamic THEN {Index(c, next, 1)} ELSE {})
                        \cup (IF c.precision.dynamic THEN {Index(c, next, w + 1)} ELSE {})
    BY <1>2 DEF Components
  <2>2. {<<n, "Int">> : n \in Components(o)}
            = (IF c.width.dynamic THEN {At(1)} ELSE {})
              \cup (IF c.precision.dynamic THEN {At(w + 1)} ELSE {})
    <3> HIDE DEF w, o
    <3> QED BY <1>1, <2>1
  <2> HIDE DEF o, last, w
  <2> QED BY <1>1, <1>2, <2>2 DEF EntriesOf
<1>4. Entries(c, next) = {At(j) : j \in 1 .. last}
  BY DEF Entries
<1> HIDE DEF At, o, w, p, last
<1>5. CASE c.width.dynamic /\ c.precision.dynamic
  <2>1. 1 .. last = {1, 2, 3} /\ w + 1 = 2 /\ last = 3
    BY <1>1, <1>5
  <2> QED BY <1>3, <1>4, <1>5, <2>1 DEF o
<1>6. CASE c.width.dynamic /\ ~c.precision.dynamic
  <2>1. 1 .. last = {1, 2} /\ last = 2
    BY <1>1, <1>6
  <2> QED BY <1>3, <1>4, <1>6, <2>1 DEF o
<1>7. CASE ~c.width.dynamic /\ c.precision.dynamic
  <2>1. 1 .. last = {1, 2} /\ w + 1 = 1 /\ last = 2
    BY <1>1, <1>7
  <2> QED BY <1>3, <1>4, <1>7, <2>1 DEF o
<1>8. CASE ~c.width.dynamic /\ ~c.precision.dynamic
  <2>1. 1 .. last = {1} /\ last = 1
    BY <1>1, <1>8
  <2> QED BY <1>3, <1>4, <1>8, <2>1 DEF o
<1> QED BY <1>5, <1>6, <1>7, <1>8

Shape(c, next) ==
    <<[j \in 1 .. Width(c) |-> Index(c, next, j)], c.flags, c.width.value, c.precision.value,
      c.length, c.conversion>>

(* What is compared of a specifier is what is printed of it.               *)
LEMMA SameShape ==
    ASSUME NEW c, IsSpecifier(c), ~IsReference(c), NEW next \in Nat,
           NEW d, IsSpecifier(d), ~IsReference(d), NEW after \in Nat
    PROVE  Occurrence(c, next) = Occurrence(d, after) <=> Shape(c, next) = Shape(d, after)
<1> DEFINE o == Occurrence(c, next)
           q == Occurrence(d, after)
           I == [j \in 1 .. Width(c) |-> Index(c, next, j)]
           J == [j \in 1 .. Width(d) |-> Index(d, after, j)]
           w == Takes(c.width)
           p == Takes(c.precision)
<1>1. /\ c.width.dynamic \in BOOLEAN /\ (c.width.dynamic <=> c.width.value = "*")
      /\ c.precision.dynamic \in BOOLEAN /\ (c.precision.dynamic <=> c.precision.value = "*")
      /\ d.width.dynamic \in BOOLEAN /\ (d.width.dynamic <=> d.width.value = "*")
      /\ d.precision.dynamic \in BOOLEAN /\ (d.precision.dynamic <=> d.precision.value = "*")
  BY ComponentFacts DEF IsSpecifier
<1>2. Shape(c, next) = Shape(d, after) <=>
            /\ I = J /\ c.flags = d.flags /\ c.width.value = d.width.value
            /\ c.precision.value = d.precision.value /\ c.length = d.length
            /\ c.conversion = d.conversion
  <2> HIDE DEF I, J
  <2> QED BY DEF Shape, I, J
<1>3. c.length = d.length /\ c.conversion = d.conversion => argument_type(c) = argument_type(d)
  BY DEF argument_type
<1>4. c.width.value = d.width.value /\ c.precision.value = d.precision.value =>
            /\ c.width.dynamic = d.width.dynamic /\ c.precision.dynamic = d.precision.dynamic
            /\ w = Takes(d.width) /\ p = Takes(d.precision) /\ Width(c) = Width(d)
  BY <1>1 DEF Takes, Width
<1>5. /\ w \in 0 .. 1 /\ p \in 0 .. 1 /\ Width(c) = w + p + 1
      /\ c.width.dynamic => w = 1
      /\ ~c.width.dynamic => w = 0
      /\ c.precision.dynamic => p = 1
      /\ ~c.precision.dynamic => p = 0
  <2> HIDE DEF o, q, I, J
  <2>1. w \in 0 .. 1 /\ p \in 0 .. 1
    BY WantsFacts
  <2>2. /\ c.width.dynamic => w = 1
        /\ ~c.width.dynamic => w = 0
    BY WantsFacts
  <2>3. /\ c.precision.dynamic => p = 1
        /\ ~c.precision.dynamic => p = 0
    BY WantsFacts
  <2> QED BY <2>1, <2>2, <2>3 DEF Width
<1>6. /\ o.position = Index(c, next, Width(c)) /\ o.type = argument_type(c)
      /\ o.signature[1] = c.flags
      /\ o.signature[2].value = c.width.value
      /\ o.signature[3].value = c.precision.value
      /\ o.signature[2].argument = IF c.width.dynamic THEN {Index(c, next, 1)} ELSE {}
      /\ o.signature[3].argument = IF c.precision.dynamic THEN {Index(c, next, w + 1)} ELSE {}
      /\ o.signature[4] = c.length /\ o.signature[5] = c.conversion
      /\ o = [position |-> o.position, type |-> o.type,
              signature |-> <<o.signature[1],
                   [value |-> o.signature[2].value, argument |-> o.signature[2].argument],
                   [value |-> o.signature[3].value, argument |-> o.signature[3].argument],
                   o.signature[4], o.signature[5]>>]
  BY OccurrenceFacts
<1>7. /\ q.position = Index(d, after, Width(d)) /\ q.type = argument_type(d)
      /\ q.signature[1] = d.flags
      /\ q.signature[2].value = d.width.value
      /\ q.signature[3].value = d.precision.value
      /\ q.signature[2].argument = IF d.width.dynamic THEN {Index(d, after, 1)} ELSE {}
      /\ q.signature[3].argument =
            IF d.precision.dynamic THEN {Index(d, after, Takes(d.width) + 1)} ELSE {}
      /\ q.signature[4] = d.length /\ q.signature[5] = d.conversion
      /\ q = [position |-> q.position, type |-> q.type,
              signature |-> <<q.signature[1],
                   [value |-> q.signature[2].value, argument |-> q.signature[2].argument],
                   [value |-> q.signature[3].value, argument |-> q.signature[3].argument],
                   q.signature[4], q.signature[5]>>]
  BY OccurrenceFacts
<1> HIDE DEF o, q, w, p
<1>8. ASSUME o = q PROVE Shape(c, next) = Shape(d, after)
  <2>1. /\ c.flags = d.flags /\ c.width.value = d.width.value
        /\ c.precision.value = d.precision.value /\ c.length = d.length
        /\ c.conversion = d.conversion
    BY <1>6, <1>7, <1>8
  <2>2. /\ c.width.dynamic = d.width.dynamic /\ c.precision.dynamic = d.precision.dynamic
        /\ w = Takes(d.width) /\ Width(c) = Width(d)
    BY <1>4, <2>1
  <2>3. Index(c, next, Width(c)) = Index(d, after, Width(c))
    BY <1>6, <1>7, <1>8, <2>2
  <2>4. c.width.dynamic => Index(c, next, 1) = Index(d, after, 1)
    BY <1>6, <1>7, <1>8, <2>2
  <2>5. c.precision.dynamic => Index(c, next, w + 1) = Index(d, after, w + 1)
    BY <1>6, <1>7, <1>8, <2>2
  <2>6. \A j \in 1 .. Width(c) :
            j = Width(c) \/ (c.width.dynamic /\ j = 1) \/ (c.precision.dynamic /\ j = w + 1)
    BY <1>1, <1>5
  <2>7. \A j \in 1 .. Width(c) : Index(c, next, j) = Index(d, after, j)
    BY <2>3, <2>4, <2>5, <2>6
  <2>8. I = J
    BY <2>2, <2>7
  <2> HIDE DEF I, J
  <2> QED BY <1>2, <2>1, <2>8
<1>9. ASSUME Shape(c, next) = Shape(d, after) PROVE o = q
  <2>1. /\ I = J /\ c.flags = d.flags /\ c.width.value = d.width.value
        /\ c.precision.value = d.precision.value /\ c.length = d.length
        /\ c.conversion = d.conversion
    <3> HIDE DEF I, J
    <3> QED BY <1>2, <1>9
  <2>2. /\ c.width.dynamic = d.width.dynamic /\ c.precision.dynamic = d.precision.dynamic
        /\ w = Takes(d.width) /\ Width(c) = Width(d)
    BY <1>4, <2>1
  <2>3. \A j \in 1 .. Width(c) : Index(c, next, j) = Index(d, after, j)
    <3>1. \A j \in 1 .. Width(c) : I[j] = Index(c, next, j)
      OBVIOUS
    <3>2. \A j \in 1 .. Width(c) : J[j] = Index(d, after, j)
      BY <2>2
    <3> HIDE DEF I, J
    <3> QED BY <2>1, <3>1, <3>2
  <2>4. /\ Width(c) \in 1 .. Width(c) /\ (c.width.dynamic => 1 \in 1 .. Width(c))
        /\ (c.precision.dynamic => w + 1 \in 1 .. Width(c))
    BY <1>1, <1>5
  <2>5. /\ o.position = q.position /\ o.type = q.type
        /\ o.signature[2].argument = q.signature[2].argument
        /\ o.signature[3].argument = q.signature[3].argument
    BY <1>3, <1>6, <1>7, <2>1, <2>2, <2>3, <2>4
  <2> QED BY <1>6, <1>7, <2>1, <2>5
<1> QED BY <1>8, <1>9 DEF o, q

-----------------------------------------------------------------------------
(* Texts with their references put in.                                     *)

IsText(text) == text \in Seq(ToSet(text)) /\ \A c \in ToSet(text) : IsSpecifier(c)

Expanded(text) == expand_references(Metadata, text)

PutIn(n) == [Plain EXCEPT !.position = {Metadata[n].position}, !.length = Metadata[n].length,
                        !.conversion = Metadata[n].conversion]

LEMMA PutInFacts ==
    ASSUME NEW c, IsSpecifier(c), IsReference(c), c.name \in DOMAIN Metadata,
           c.position \subseteq {Metadata[c.name].position}
    PROVE  LET e == PutIn(c.name)
           IN  /\ IsSpecifier(e) /\ ~IsReference(e) /\ ~InvalidPosition(e) /\ ~MayBeProse(e)
               /\ ~InvalidPosition(c) /\ valid_modifier_conversion(e) /\ Wants(c) = Wants(e)
               /\ Shown(c).flags = e.flags /\ Shown(c).width.value = e.width.value
               /\ Shown(c).precision.value = e.precision.value
               /\ Shown(c).length = e.length /\ Shown(c).conversion = e.conversion
<1> DEFINE m == Metadata[c.name]
           e == PutIn(c.name)
           f == [Plain EXCEPT !.length = m.length, !.conversion = m.conversion]
<1>1. m.position \in Nat \ {0} /\ valid_modifier_conversion(m)
  BY FormatsAssumption
<1>2. /\ e.position = {m.position} /\ e.flags = <<>> /\ e.width = Fixed("") /\ e.precision = Fixed("")
      /\ e.length = m.length /\ e.conversion = m.conversion /\ e.next = "other" /\ e.name = ""
  BY DEF PutIn, Plain
<1>3. /\ f.flags = <<>> /\ f.width = Fixed("") /\ f.precision = Fixed("")
      /\ f.length = m.length /\ f.conversion = m.conversion
  BY DEF Plain
<1>4. /\ Fixed("").dynamic = FALSE /\ Fixed("").position = {} /\ Fixed("").value = ""
      /\ IsComponent(Fixed(""))
  BY DEF Fixed, IsComponent
<1>5. Shown(c) = f
  BY DEF Shown
<1> HIDE DEF e, f, m
<1>6. IsPosition({m.position})
  BY <1>1 DEF IsPosition
<1>7. IsSpecifier(e) /\ ~IsReference(e)
  BY <1>2, <1>4, <1>6 DEF IsSpecifier, IsReference
<1>8. ~InvalidPosition(e)
  <2>1. Dynamic(e) = {}
    BY <1>2, <1>4 DEF Dynamic
  <2> QED BY <1>1, <1>2, <2>1 DEF InvalidPosition
<1>9. ~InvalidPosition(c)
  <2>1. Dynamic(c) = {}
    BY DEF Dynamic, IsSpecifier
  <2> QED BY <1>1, <2>1 DEF InvalidPosition, m
<1>10. ~MayBeProse(e)
  BY <1>2 DEF MayBeProse
<1>11. valid_modifier_conversion(e)
  BY <1>1, <1>2 DEF valid_modifier_conversion
<1>12. argument_type(f) = argument_type(e)
  BY <1>2, <1>3 DEF argument_type
<1>13. Wants(c) = Wants(e)
  <2> DEFINE r == [position |-> {m.position}, type |-> argument_type(e)]
  <2>1. Wants(c) = <<r>>
    BY <1>12 DEF Wants, m, f
  <2>2. Takes(e.width) = 0 /\ Takes(e.precision) = 0 /\ Width(e) = 1
    <3>1. e.width.dynamic = FALSE /\ e.precision.dynamic = FALSE
      BY <1>2, <1>4
    <3> QED BY <3>1 DEF Takes, Width
  <2>3. Wants(e)[1] = r
    <3>1. Wants(e)[Width(e)] = [position |-> e.position, type |-> argument_type(e)]
      BY <1>7, WantsFacts
    <3> QED BY <1>2, <2>2, <3>1
  <2>4. Len(Wants(e)) = 1
    <3>1. Len(Wants(e)) = Width(e)
      BY <1>7, WantsFacts
    <3> QED BY <2>2, <3>1
  <2>5. Wants(e) \in Seq({Wants(e)[j] : j \in 1 .. Width(e)})
    BY <1>7, WantsFacts
  <2> HIDE DEF r
  <2>6. Wants(e) = <<r>>
    BY <2>3, <2>4, <2>5
  <2> QED BY <2>1, <2>6
<1> QED BY <1>2, <1>3, <1>5, <1>7, <1>8, <1>9, <1>10, <1>11, <1>13 DEF e

LEMMA ExpandedFacts ==
    ASSUME NEW text, IsText(text), Ambiguous(text) = {}, validate_references(Metadata, text)
    PROVE  LET x == Expanded(text)
           IN  /\ Len(text) \in Nat /\ DOMAIN text = 1 .. Len(text)
               /\ DOMAIN x = 1 .. Len(text) /\ Len(x) = Len(text)
               /\ ToSet(text) = {text[k] : k \in 1 .. Len(text)}
               /\ ToSet(x) = {x[k] : k \in 1 .. Len(text)}
               /\ AllWants(text) = [k \in 1 .. Len(text) |-> Wants(x[k])]
               /\ \A k \in 1 .. Len(text) :
                    /\ IsSpecifier(x[k]) /\ ~IsReference(x[k])
                    /\ InvalidPosition(x[k]) <=> InvalidPosition(text[k])
                    /\ InvalidPosition(x[k]) \/ ~MayBeProse(x[k])
                    /\ IsReference(text[k]) => valid_modifier_conversion(x[k])
                    /\ ~IsReference(text[k]) => x[k] = text[k]
                    /\ Shown(text[k]).flags = x[k].flags
                    /\ Shown(text[k]).width.value = x[k].width.value
                    /\ Shown(text[k]).precision.value = x[k].precision.value
                    /\ Shown(text[k]).length = x[k].length
                    /\ Shown(text[k]).conversion = x[k].conversion
<1> DEFINE x == Expanded(text)
           N == Len(text)
<1>1. N \in Nat /\ DOMAIN text = 1 .. N
  BY DEF IsText
<1>2. /\ DOMAIN x = 1 .. N
      /\ \A k \in 1 .. N : x[k] = IF ~IsReference(text[k]) THEN text[k] ELSE PutIn(text[k].name)
  BY <1>1 DEF Expanded, expand_references, PutIn
<1>3. Len(x) = N
  <2>1. x = [k \in 1 .. N |-> x[k]]
    BY <1>1 DEF Expanded, expand_references
  <2> DEFINE y == x
  <2>2. y = [k \in 1 .. N |-> y[k]]
    BY <2>1
  <2> HIDE DEF y, N
  <2>3. Len(y) = N
    BY <1>1, <2>2
  <2> QED BY <2>3 DEF y
<1> HIDE DEF x, N
<1>4. ToSet(text) = {text[k] : k \in 1 .. N} /\ ToSet(x) = {x[k] : k \in 1 .. N}
  BY <1>1, <1>2 DEF ToSet
<1>5. ASSUME NEW k \in 1 .. N
      PROVE  /\ IsSpecifier(x[k]) /\ ~IsReference(x[k])
             /\ InvalidPosition(x[k]) <=> InvalidPosition(text[k])
             /\ InvalidPosition(x[k]) \/ ~MayBeProse(x[k])
             /\ IsReference(text[k]) => valid_modifier_conversion(x[k])
             /\ ~IsReference(text[k]) => x[k] = text[k]
             /\ Shown(text[k]).flags = x[k].flags
             /\ Shown(text[k]).width.value = x[k].width.value
             /\ Shown(text[k]).precision.value = x[k].precision.value
             /\ Shown(text[k]).length = x[k].length
             /\ Shown(text[k]).conversion = x[k].conversion
             /\ Wants(text[k]) = Wants(x[k])
  <2>1. text[k] \in ToSet(text) /\ IsSpecifier(text[k])
    BY <1>4 DEF IsText
  <2>2. InvalidPosition(text[k]) \/ ~MayBeProse(text[k])
    BY <2>1 DEF Ambiguous
  <2>3. CASE IsReference(text[k])
    <3>1. text[k].name \in DOMAIN Metadata /\ text[k].position \subseteq {Metadata[text[k].name].position}
      BY <2>1, <2>3 DEF validate_references, substitution_references
    <3>2. x[k] = PutIn(text[k].name)
      BY <1>2, <2>3
    <3> QED BY <2>1, <2>3, <3>1, <3>2, PutInFacts
  <2>4. CASE ~IsReference(text[k])
    <3>1. x[k] = text[k] /\ Shown(text[k]) = text[k]
      BY <1>2, <2>4 DEF Shown
    <3> QED BY <2>1, <2>2, <2>4, <3>1
  <2> QED BY <2>3, <2>4
<1>6. AllWants(text) = [k \in 1 .. N |-> Wants(x[k])]
  BY <1>1, <1>5 DEF AllWants
<1> QED BY <1>1, <1>2, <1>3, <1>4, <1>5, <1>6 DEF x, N

-----------------------------------------------------------------------------
(* A text that can be read to its end: what its specifiers read.           *)

Before(text, k) == Len(Joined(AllWants(text))[k - 1])
NextOf(text, k) == NextPosition(Expanded(text))[k - 1]

IsReadable(text) ==
    /\ IsText(text) /\ Ambiguous(text) = {} /\ validate_references(Metadata, text)
    /\ \A k \in 1 .. Len(text) : IsArgument(Expanded(text)[k])

LEMMA TextFacts ==
    ASSUME NEW text, IsReadable(text)
    PROVE  LET x == Expanded(text)
           IN  /\ Len(text) \in Nat /\ Arguments(x) = 1 .. Len(text)
               /\ \A k \in 1 .. Len(text) :
                    /\ IsSpecifier(x[k]) /\ ~IsReference(x[k]) /\ Wants(text[k]) = Wants(x[k])
                    /\ NextOf(text, k) \in Nat /\ Before(text, k) \in Nat
                    /\ NextOf(text, k) = Before(text, k) + 1
                    /\ \A j \in 1 .. Width(x[k]) :
                        /\ Before(text, k) + j \in 1 .. Len(Reads(text))
                        /\ Reads(text)[Before(text, k) + j] = Wants(x[k])[j]
                        /\ IndexOf(Reads(text), Before(text, k) + j) = Index(x[k], NextOf(text, k), j)
               /\ DOMAIN Reads(text) = 1 .. Len(Reads(text)) /\ Len(Reads(text)) \in Nat
               /\ \A i \in 1 .. Len(Reads(text)) :
                    \E k \in 1 .. Len(text) : \E j \in 1 .. Width(x[k]) : i = Before(text, k) + j
<1> DEFINE x == Expanded(text)
           N == Len(text)
           lists == AllWants(text)
           joined == Joined(lists)
           next == NextPosition(x)
           S == UNION {{Wants(x[k])[j] : j \in 1 .. Width(x[k])} : k \in 1 .. N}
<1>1. /\ N \in Nat /\ DOMAIN x = 1 .. N /\ Len(x) = N
      /\ lists = [k \in 1 .. N |-> Wants(x[k])]
      /\ \A k \in 1 .. N : IsSpecifier(x[k]) /\ ~IsReference(x[k])
  BY ExpandedFacts DEF IsReadable
<1>2. DOMAIN text = 1 .. N
  BY ExpandedFacts DEF IsReadable
<1> HIDE DEF x, N
<1>3. Arguments(x) = 1 .. N
  BY <1>1 DEF Arguments, IsReadable, x, N
<1>4. \A k \in 1 .. N : Wants(text[k]) = Wants(x[k])
  <2>1. lists = [k \in 1 .. N |-> Wants(text[k])]
    BY <1>2 DEF AllWants
  <2>2. \A k \in 1 .. N : lists[k] = Wants(text[k])
    BY <2>1, Zenon
  <2>3. \A k \in 1 .. N : lists[k] = Wants(x[k])
    BY <1>1, Zenon
  <2> QED BY <2>2, <2>3
<1>5. Len(lists) = N /\ \A k \in 1 .. N : lists[k] = Wants(x[k])
  <2> DEFINE l == lists
  <2>1. l = [k \in 1 .. N |-> Wants(x[k])]
    BY <1>1
  <2> HIDE DEF l
  <2>2. Len(l) = N
    BY <1>1, <2>1
  <2> QED BY <2>1, <2>2 DEF l
<1>6. \A k \in 1 .. N :
        /\ Width(x[k]) \in 1 .. 3 /\ Len(lists[k]) = Width(x[k])
        /\ lists[k] \in Seq({Wants(x[k])[j] : j \in 1 .. Width(x[k])})
  <2>1. ASSUME NEW k \in 1 .. N
        PROVE  /\ Width(x[k]) \in 1 .. 3 /\ Len(Wants(x[k])) = Width(x[k])
               /\ Wants(x[k]) \in Seq({Wants(x[k])[j] : j \in 1 .. Width(x[k])})
    <3>1. IsSpecifier(x[k]) /\ ~IsReference(x[k])
      BY <1>1
    <3> DEFINE c == x[k]
    <3> HIDE DEF c
    <3>2. Width(c) \in 1 .. 3 /\ Len(Wants(c)) = Width(c)
      BY <3>1, WantsFacts DEF c
    <3>3. Wants(c) \in Seq({Wants(c)[j] : j \in 1 .. Width(c)})
      BY <3>1, WantsFacts DEF c
    <3> QED BY <3>2, <3>3 DEF c
  <2> QED BY <1>5, <2>1
<1>7. \A k \in 1 .. N : lists[k] \in Seq(S)
  <2>1. ASSUME NEW k \in 1 .. N PROVE lists[k] \in Seq(S)
    <3> DEFINE T == {Wants(x[k])[j] : j \in 1 .. Width(x[k])}
    <3>1. T \subseteq S
      BY Zenon
    <3>2. lists[k] \in Seq(T)
      BY <1>6
    <3> HIDE DEF T, S
    <3> QED BY <3>1, <3>2
  <2> QED BY <2>1
<1> HIDE DEF S, lists
<1>8. /\ joined \in [0 .. N -> Seq(S)] /\ joined[0] = <<>>
      /\ \A k \in 1 .. N : joined[k] = joined[k - 1] \o lists[k]
  BY <1>1, <1>5, <1>7, JoinedRuns
<1>9. /\ joined[N] \in Seq(S)
      /\ \A k \in 1 .. N : \A j \in 1 .. Len(lists[k]) :
            /\ Len(joined[k - 1]) + j \in 1 .. Len(joined[N])
            /\ joined[N][Len(joined[k - 1]) + j] = lists[k][j]
      /\ \A i \in 1 .. Len(joined[N]) : \E k \in 1 .. N : \E j \in 1 .. Len(lists[k]) :
            i = Len(joined[k - 1]) + j
  <2>1. Len(lists) \in Nat /\ \A k \in 1 .. Len(lists) : lists[k] \in Seq(S)
    BY <1>1, <1>5, <1>7
  <2>2. IsJoined(S, lists)
    BY <2>1, JoinedPlaces
  <2> QED BY <1>5, <2>2 DEF IsJoined
<1> HIDE DEF joined
<1>10. /\ next \in [0 .. N -> Nat] /\ next[0] = 1
       /\ \A k \in 1 .. N : next[k] = next[k - 1] + Width(x[k])
  <2>1. \A k \in 1 .. N : Takes(x[k].width) + Takes(x[k].precision) + 1 \in Nat
    <3>1. \A k \in 1 .. N : Width(x[k]) \in Nat
      <4>1. \A k \in 1 .. N : Width(x[k]) \in 1 .. 3
        BY <1>6
      <4> QED BY <4>1
    <3> QED BY <3>1 DEF Width
  <2>2. /\ next \in [0 .. N -> Nat] /\ next[0] = 1
        /\ \A k \in 1 .. N : next[k] = IF k \in Arguments(x)
                THEN next[k - 1] + Takes(x[k].width) + Takes(x[k].precision) + 1
                ELSE next[k - 1]
    BY <1>1, <2>1, NextFacts
  <2>3. ASSUME NEW k \in 1 .. N PROVE next[k] = next[k - 1] + Width(x[k])
    <3>1. next[k - 1] \in Nat /\ Takes(x[k].width) \in 0 .. 1 /\ Takes(x[k].precision) \in 0 .. 1
      <4>1. Takes(x[k].width) \in 0 .. 1 /\ Takes(x[k].precision) \in 0 .. 1
        BY DEF Takes
      <4>2. k - 1 \in 0 .. N
        BY <1>1
      <4> QED BY <2>2, <4>1, <4>2
    <3>2. next[k] = next[k - 1] + Takes(x[k].width) + Takes(x[k].precision) + 1
      BY <1>3, <2>2
    <3> QED BY <3>1, <3>2 DEF Width
  <2> QED BY <2>2, <2>3
<1> HIDE DEF next
<1>11. \A k \in 0 .. N : next[k] = Len(joined[k]) + 1
  <2> DEFINE D == {k \in Nat : k <= N => next[k] = Len(joined[k]) + 1}
  <2>1. 0 \in D
    <3>1. Len(<<>>) = 0
      OBVIOUS
    <3> QED BY <1>8, <1>10, <3>1
  <2>2. ASSUME NEW k \in D PROVE k + 1 \in D
    <3>1. k \in Nat
      OBVIOUS
    <3>2. CASE ~(k + 1 <= N)
      BY <3>1, <3>2
    <3>3. CASE k + 1 <= N
      <4>1. k + 1 \in 1 .. N /\ k \in 0 .. N /\ k + 1 - 1 = k
        BY <1>1, <3>1, <3>3
      <4>2. joined[k] \in Seq(S) /\ lists[k + 1] \in Seq(S) /\ joined[k + 1] = joined[k] \o lists[k + 1]
        <5>1. joined[k] \in Seq(S)
          BY <1>8, <4>1
        <5>2. lists[k + 1] \in Seq(S)
          BY <1>7, <4>1
        <5>3. joined[k + 1] = joined[k] \o lists[k + 1]
          <6>1. \A n \in 1 .. N : joined[n] = joined[n - 1] \o lists[n]
            BY <1>8
          <6> DEFINE m == k + 1
          <6>2. m \in 1 .. N /\ m - 1 = k /\ m = k + 1
            BY <4>1
          <6> HIDE DEF joined, m, D
          <6>3. joined[m] = joined[m - 1] \o lists[m]
            BY <6>1, <6>2
          <6> QED BY <6>2, <6>3, Zenon
        <5> QED BY <4>1, <5>1, <5>2, <5>3
      <4>3. Len(joined[k + 1]) = Len(joined[k]) + Width(x[k + 1]) /\ Len(joined[k]) \in Nat
        <5>1. Len(joined[k] \o lists[k + 1]) = Len(joined[k]) + Len(lists[k + 1]) /\ Len(joined[k]) \in Nat
          BY <4>2, ConcatPlaces
        <5> QED BY <1>6, <4>1, <4>2, <5>1
      <4>4. next[k + 1] = next[k] + Width(x[k + 1]) /\ next[k] = Len(joined[k]) + 1
            /\ Width(x[k + 1]) \in 1 .. 3
        <5>1. next[k + 1] = next[k + 1 - 1] + Width(x[k + 1])
          BY <1>10, <4>1
        <5>2. next[k] = Len(joined[k]) + 1
          BY <4>1
        <5>3. Width(x[k + 1]) \in 1 .. 3
          BY <1>6, <4>1
        <5> QED BY <4>1, <5>1, <5>2, <5>3
      <4> QED BY <3>1, <4>3, <4>4
    <3> QED BY <3>2, <3>3
  <2> HIDE DEF D
  <2>3. D = Nat
    <3>1. D \subseteq Nat
      BY DEF D
    <3> QED BY <2>1, <2>2, <3>1, SetInduction
  <2> QED BY <1>1, <2>3 DEF D
<1>12. Reads(text) = joined[N]
  BY DEF Reads, joined, lists, N
<1>13. Len(joined[N]) \in Nat /\ DOMAIN joined[N] = 1 .. Len(joined[N])
  BY <1>9
<1>14. ASSUME NEW k \in 1 .. N
       PROVE  /\ NextOf(text, k) \in Nat /\ Before(text, k) \in Nat
              /\ NextOf(text, k) = Before(text, k) + 1
              /\ Before(text, k) = Len(joined[k - 1])
  <2>1. k - 1 \in 0 .. N
    BY <1>1
  <2>2. NextOf(text, k) = next[k - 1] /\ Before(text, k) = Len(joined[k - 1])
    BY DEF NextOf, Before, next, joined, lists, x
  <2>3. Len(joined[k - 1]) \in Nat
    BY <1>8, <2>1
  <2> QED BY <1>11, <2>1, <2>2, <2>3
<1>15. ASSUME NEW k \in 1 .. N, NEW j \in 1 .. Width(x[k])
       PROVE  /\ Before(text, k) + j \in 1 .. Len(Reads(text))
              /\ Reads(text)[Before(text, k) + j] = Wants(x[k])[j]
              /\ IndexOf(Reads(text), Before(text, k) + j) = Index(x[k], NextOf(text, k), j)
  <2>1. /\ Before(text, k) + j \in 1 .. Len(Reads(text))
        /\ Reads(text)[Before(text, k) + j] = Wants(x[k])[j]
    <3>1. j \in 1 .. Len(lists[k]) /\ lists[k] = Wants(x[k])
      BY <1>5, <1>6
    <3>2. /\ Len(joined[k - 1]) + j \in 1 .. Len(joined[N])
          /\ joined[N][Len(joined[k - 1]) + j] = lists[k][j]
      BY <1>9, <3>1
    <3> QED BY <1>12, <1>14, <3>1, <3>2
  <2>2. NextOf(text, k) + j - 1 = Before(text, k) + j
    <3>1. j \in Int
      BY <1>6
    <3> QED BY <1>14, <3>1
  <2> QED BY <2>1, <2>2 DEF IndexOf, Index
<1>16. ASSUME NEW i \in 1 .. Len(Reads(text))
       PROVE  \E k \in 1 .. N : \E j \in 1 .. Width(x[k]) : i = Before(text, k) + j
  <2>1. PICK k \in 1 .. N : \E j \in 1 .. Len(lists[k]) : i = Len(joined[k - 1]) + j
    BY <1>9, <1>12
  <2> QED BY <1>6, <1>14, <2>1
<1> QED BY <1>1, <1>3, <1>4, <1>12, <1>13, <1>14, <1>15, <1>16 DEF x, N


LEMMA PictureFacts ==
    ASSUME NEW text, IsReadable(text), NEW k \in 1 .. Len(text)
    PROVE  Picture(text, k) = Shape(Expanded(text)[k], NextOf(text, k))
<1> DEFINE x == Expanded(text)
           I == [j \in DOMAIN Wants(text[k]) |-> IndexOf(Reads(text), Before(text, k) + j)]
           J == [j \in 1 .. Width(x[k]) |-> Index(x[k], NextOf(text, k), j)]
<1>1. /\ Shown(text[k]).flags = x[k].flags
      /\ Shown(text[k]).width.value = x[k].width.value
      /\ Shown(text[k]).precision.value = x[k].precision.value
      /\ Shown(text[k]).length = x[k].length
      /\ Shown(text[k]).conversion = x[k].conversion
  BY ExpandedFacts DEF IsReadable
<1>2. /\ IsSpecifier(x[k]) /\ ~IsReference(x[k]) /\ Wants(text[k]) = Wants(x[k])
  BY TextFacts
<1>3. \A j \in 1 .. Width(x[k]) :
        IndexOf(Reads(text), Before(text, k) + j) = Index(x[k], NextOf(text, k), j)
  BY TextFacts
<1> HIDE DEF x
<1>4. DOMAIN Wants(text[k]) = 1 .. Width(x[k])
  <2>1. DOMAIN Wants(x[k]) = 1 .. Width(x[k])
    BY <1>2, WantsFacts
  <2> QED BY <1>2, <2>1
<1>5. I = J
  BY <1>3, <1>4
<1>6. Picture(text, k) = <<I, Shown(text[k]).flags, Shown(text[k]).width.value,
            Shown(text[k]).precision.value, Shown(text[k]).length, Shown(text[k]).conversion>>
  BY DEF Picture, Before
<1>7. Shape(x[k], NextOf(text, k)) = <<J, x[k].flags, x[k].width.value, x[k].precision.value,
            x[k].length, x[k].conversion>>
  BY DEF Shape
<1> HIDE DEF I, J
<1> QED BY <1>1, <1>5, <1>6, <1>7 DEF x

LEMMA OccurrencesOf ==
    ASSUME NEW text, IsReadable(text)
    PROVE  Occurrences(Expanded(text)) =
                [k \in 1 .. Len(text) |-> Occurrence(Expanded(text)[k], NextOf(text, k))]
<1>1. Arguments(Expanded(text)) = 1 .. Len(text)
  BY TextFacts
<1> QED BY <1>1 DEF Occurrences, NextOf

(* What a text is registered with is what it reads.                        *)
LEMMA RegisteredFacts ==
    ASSUME NEW text, IsReadable(text)
    PROVE  /\ Registered(Expanded(text)) = Passed(text)
           /\ Passed(text) = {<<IndexOf(Reads(text), i), Reads(text)[i].type>> :
                              i \in 1 .. Len(Reads(text))}
<1> DEFINE x == Expanded(text)
           R == Reads(text)
           E(k) == Entries(x[k], NextOf(text, k))
           O == [k \in 1 .. Len(text) |-> Occurrence(x[k], NextOf(text, k))]
           Entry(i) == <<IndexOf(R, i), R[i].type>>
<1>1. Passed(text) = {Entry(i) : i \in 1 .. Len(R)}
  <2>1. DOMAIN R = 1 .. Len(R)
    BY TextFacts
  <2> QED BY <2>1 DEF Passed
<1>2. Range(O) = {O[k] : k \in 1 .. Len(text)}
  BY DEF Range
<1>3. Registered(x) = UNION {EntriesOf(o) : o \in Range(O)}
  BY OccurrencesOf DEF Registered, EntriesOf
<1>4. \A k \in 1 .. Len(text) : EntriesOf(O[k]) = E(k)
  <2>1. ASSUME NEW k \in 1 .. Len(text) PROVE EntriesOf(Occurrence(x[k], NextOf(text, k))) = E(k)
    <3>1. IsSpecifier(x[k]) /\ ~IsReference(x[k]) /\ NextOf(text, k) \in Nat
      BY TextFacts
    <3> HIDE DEF x
    <3> QED BY <3>1, SameEntries
  <2> QED BY <2>1
<1> HIDE DEF O
<1>5. Registered(x) = UNION {E(k) : k \in 1 .. Len(text)}
  BY <1>2, <1>3, <1>4
<1>6. ASSUME NEW k \in 1 .. Len(text), NEW j \in 1 .. Width(x[k])
      PROVE  /\ Before(text, k) + j \in 1 .. Len(R)
             /\ Entry(Before(text, k) + j) = <<Index(x[k], NextOf(text, k), j), Wants(x[k])[j].type>>
  <2>1. /\ Before(text, k) + j \in 1 .. Len(R)
        /\ R[Before(text, k) + j] = Wants(x[k])[j]
        /\ IndexOf(R, Before(text, k) + j) = Index(x[k], NextOf(text, k), j)
    BY TextFacts
  <2> HIDE DEF R, x
  <2> QED BY <2>1
<1>7. ASSUME NEW i \in 1 .. Len(R)
      PROVE  \E k \in 1 .. Len(text) : \E j \in 1 .. Width(x[k]) : i = Before(text, k) + j
  BY TextFacts
<1> HIDE DEF R, x
<1>8. UNION {E(k) : k \in 1 .. Len(text)} \subseteq {Entry(i) : i \in 1 .. Len(R)}
  <2>1. ASSUME NEW k \in 1 .. Len(text), NEW e \in E(k) PROVE e \in {Entry(i) : i \in 1 .. Len(R)}
    <3>1. PICK j \in 1 .. Width(x[k]) : e = <<Index(x[k], NextOf(text, k), j), Wants(x[k])[j].type>>
      BY DEF Entries
    <3>2. e = Entry(Before(text, k) + j) /\ Before(text, k) + j \in 1 .. Len(R)
      BY <1>6, <3>1
    <3> HIDE DEF Entry
    <3> QED BY <3>2
  <2> HIDE DEF E, Entry
  <2> QED BY <2>1
<1>9. {Entry(i) : i \in 1 .. Len(R)} \subseteq UNION {E(k) : k \in 1 .. Len(text)}
  <2>1. ASSUME NEW i \in 1 .. Len(R) PROVE \E k \in 1 .. Len(text) : Entry(i) \in E(k)
    <3>1. PICK k \in 1 .. Len(text) : \E j \in 1 .. Width(x[k]) : i = Before(text, k) + j
      BY <1>7
    <3>2. PICK j \in 1 .. Width(x[k]) : i = Before(text, k) + j
      BY <3>1
    <3>3. Entry(i) = <<Index(x[k], NextOf(text, k), j), Wants(x[k])[j].type>>
      BY <1>6, <3>2
    <3> HIDE DEF Entry
    <3>4. Entry(i) \in E(k)
      BY <3>3 DEF Entries
    <3> QED BY <3>4
  <2> HIDE DEF E, Entry
  <2> QED BY <2>1
<1> HIDE DEF E
<1> QED BY <1>1, <1>5, <1>8, <1>9 DEF R, x


(* The positions of what a specifier reads are those of its parts.         *)
LEMMA ReadCases ==
    ASSUME NEW c, IsSpecifier(c), ~IsReference(c)
    PROVE  /\ c.width.dynamic \in BOOLEAN /\ c.precision.dynamic \in BOOLEAN
           /\ \A j \in 1 .. Width(c) :
                \/ Wants(c)[j].position = c.position
                \/ c.width.dynamic /\ Wants(c)[j].position = c.width.position
                \/ c.precision.dynamic /\ Wants(c)[j].position = c.precision.position
           /\ \E j \in 1 .. Width(c) : Wants(c)[j].position = c.position
           /\ c.width.dynamic => \E j \in 1 .. Width(c) : Wants(c)[j].position = c.width.position
           /\ c.precision.dynamic =>
                \E j \in 1 .. Width(c) : Wants(c)[j].position = c.precision.position
<1> DEFINE w == Takes(c.width)
           p == Takes(c.precision)
           P(j) == Wants(c)[j].position
<1>1. /\ c.width.dynamic \in BOOLEAN /\ c.precision.dynamic \in BOOLEAN
  BY ComponentFacts DEF IsSpecifier
<1>2. w \in 0 .. 1 /\ p \in 0 .. 1 /\ Width(c) = w + p + 1 /\ P(Width(c)) = c.position
  <2>1. /\ w \in 0 .. 1 /\ p \in 0 .. 1
        /\ Wants(c)[Width(c)] = [position |-> c.position, type |-> argument_type(c)]
    BY WantsFacts
  <2>2. Width(c) = w + p + 1
    BY DEF Width
  <2> QED BY <2>1, <2>2
<1>3. /\ c.width.dynamic => w = 1 /\ P(1) = c.width.position
      /\ ~c.width.dynamic => w = 0
  <2>1. /\ c.width.dynamic =>
            w = 1 /\ Wants(c)[1] = [position |-> c.width.position, type |-> "Int"]
        /\ ~c.width.dynamic => w = 0
    BY WantsFacts
  <2> QED BY <2>1
<1>4. /\ c.precision.dynamic => p = 1 /\ P(w + 1) = c.precision.position
      /\ ~c.precision.dynamic => p = 0
  <2>1. /\ c.precision.dynamic =>
            p = 1 /\ Wants(c)[w + 1] = [position |-> c.precision.position, type |-> "Int"]
        /\ ~c.precision.dynamic => p = 0
    BY WantsFacts
  <2> QED BY <2>1
<1> HIDE DEF w, p, P
<1>5. \A j \in 1 .. Width(c) :
            j = Width(c) \/ (c.width.dynamic /\ j = 1) \/ (c.precision.dynamic /\ j = w + 1)
  BY <1>1, <1>2, <1>3, <1>4
<1>6. /\ Width(c) \in 1 .. Width(c) /\ (c.width.dynamic => 1 \in 1 .. Width(c))
      /\ (c.precision.dynamic => w + 1 \in 1 .. Width(c))
  BY <1>1, <1>2, <1>3, <1>4
<1>7. \A j \in 1 .. Width(c) :
            \/ P(j) = c.position
            \/ c.width.dynamic /\ P(j) = c.width.position
            \/ c.precision.dynamic /\ P(j) = c.precision.position
  BY <1>2, <1>3, <1>4, <1>5
<1>8. /\ \E j \in 1 .. Width(c) : P(j) = c.position
      /\ c.width.dynamic => \E j \in 1 .. Width(c) : P(j) = c.width.position
      /\ c.precision.dynamic => \E j \in 1 .. Width(c) : P(j) = c.precision.position
  BY <1>2, <1>3, <1>4, <1>6
<1> QED BY <1>1, <1>7, <1>8 DEF P

(* A specifier with its arguments from positions or from the next ones.    *)
LEMMA KindFacts ==
    ASSUME NEW c, IsSpecifier(c), ~IsReference(c)
    PROVE  /\ has_any_position(c) <=> \E j \in 1 .. Width(c) : Wants(c)[j].position # {}
           /\ has_any_sequential_argument(c) <=> \E j \in 1 .. Width(c) : Wants(c)[j].position = {}
<1>1. \A d \in Dynamic(c) : (d = c.width /\ c.width.dynamic) \/ (d = c.precision /\ c.precision.dynamic)
  BY DEF Dynamic
<1>2. (c.width.dynamic => c.width \in Dynamic(c)) /\ (c.precision.dynamic => c.precision \in Dynamic(c))
  BY DEF Dynamic
<1>3. /\ has_any_position(c) <=>
            \/ c.position # {}
            \/ c.width.dynamic /\ c.width.position # {}
            \/ c.precision.dynamic /\ c.precision.position # {}
      /\ has_any_sequential_argument(c) <=>
            \/ c.position = {}
            \/ c.width.dynamic /\ c.width.position = {}
            \/ c.precision.dynamic /\ c.precision.position = {}
  BY <1>1, <1>2 DEF has_any_position, has_any_sequential_argument
<1> QED BY <1>3, ReadCases

LEMMA MixedFacts ==
    ASSUME NEW text, IsReadable(text)
    PROVE  LET x == Expanded(text)
               R == Reads(text)
           IN  ~(Positional(x) /\ Sequential(x)) <=>
                    \A i, j \in 1 .. Len(R) : (R[i].position = {}) = (R[j].position = {})
<1> DEFINE x == Expanded(text)
           R == Reads(text)
           N == Len(text)
<1>1. ASSUME NEW k \in 1 .. N
      PROVE  /\ has_any_position(x[k]) <=> \E j \in 1 .. Width(x[k]) : Wants(x[k])[j].position # {}
             /\ has_any_sequential_argument(x[k]) <=>
                    \E j \in 1 .. Width(x[k]) : Wants(x[k])[j].position = {}
  <2>1. IsSpecifier(x[k]) /\ ~IsReference(x[k])
    BY TextFacts
  <2> HIDE DEF x, R, N
  <2> QED BY <2>1, KindFacts
<1>2. Arguments(x) = 1 .. N
  BY TextFacts
<1>3. ASSUME NEW k \in 1 .. N, NEW j \in 1 .. Width(x[k])
      PROVE  Before(text, k) + j \in 1 .. Len(R) /\ R[Before(text, k) + j] = Wants(x[k])[j]
  BY TextFacts
<1>4. ASSUME NEW i \in 1 .. Len(R)
      PROVE  \E k \in 1 .. N : \E j \in 1 .. Width(x[k]) : i = Before(text, k) + j
  BY TextFacts
<1> HIDE DEF x, R, N
<1>5. Positional(x) <=> \E i \in 1 .. Len(R) : R[i].position # {}
  <2>1. Positional(x) <=> \E k \in 1 .. N : \E j \in 1 .. Width(x[k]) : Wants(x[k])[j].position # {}
    BY <1>1, <1>2 DEF Positional
  <2> QED BY <1>3, <1>4, <2>1
<1>6. Sequential(x) <=> \E i \in 1 .. Len(R) : R[i].position = {}
  <2>0. \A k \in 1 .. N : has_any_sequential_argument(x[k]) <=>
            \E j \in 1 .. Width(x[k]) : Wants(x[k])[j].position = {}
    BY <1>1
  <2>1. Sequential(x) <=> \E k \in 1 .. N : \E j \in 1 .. Width(x[k]) : Wants(x[k])[j].position = {}
    BY <1>2, <2>0 DEF Sequential
  <2>2. ASSUME NEW k \in 1 .. N, NEW j \in 1 .. Width(x[k]), Wants(x[k])[j].position = {}
        PROVE  \E i \in 1 .. Len(R) : R[i].position = {}
    BY <1>3, <2>2
  <2>3. ASSUME NEW i \in 1 .. Len(R), R[i].position = {}
        PROVE  \E k \in 1 .. N : \E j \in 1 .. Width(x[k]) : Wants(x[k])[j].position = {}
    <3>1. PICK k \in 1 .. N : \E j \in 1 .. Width(x[k]) : i = Before(text, k) + j
      BY <1>4
    <3>2. PICK j \in 1 .. Width(x[k]) : i = Before(text, k) + j
      BY <3>1
    <3> QED BY <1>3, <2>3, <3>2
  <2> QED BY <2>1, <2>2, <2>3
<1> QED BY <1>5, <1>6 DEF x, R

(* Positions without a gap are all the positions up to how many there are. *)
LEMMA NoGap ==
    ASSUME NEW P \in SUBSET Nat, IsFiniteSet(P), 0 \notin P
    PROVE  P = 1 .. Cardinality(P) <=> \A n \in P : 1 .. n \subseteq P
<1> DEFINE size == Cardinality(P)
<1>1. size \in Nat
  BY FS_CardinalityType
<1>2. P = 1 .. size => \A n \in P : 1 .. n \subseteq P
  <2> HIDE DEF size
  <2> QED BY <1>1
<1>3. ASSUME \A n \in P : 1 .. n \subseteq P PROVE P = 1 .. size
  <2> DEFINE Out == {n \in Nat : n # 0 /\ n \notin P}
  <2>1. Out # {}
    <3>1. SUFFICES ASSUME Out = {} PROVE FALSE
      OBVIOUS
    <3>2. 1 .. size + 1 \subseteq P
      BY <1>1, <3>1
    <3>3. Cardinality(1 .. size + 1) = size + 1
      <4>1. 1 \in Int /\ size + 1 \in Int /\ 1 <= size + 1
        BY <1>1
      <4> DEFINE top == size + 1
      <4>2. top \in Int
        BY <4>1
      <4> HIDE DEF top
      <4>3. Cardinality(1 .. top) = IF 1 > top THEN 0 ELSE top - 1 + 1
        BY <4>1, <4>2, FS_Interval
      <4>4. top = size + 1
        BY DEF top
      <4> HIDE DEF size
      <4> QED BY <1>1, <4>3, <4>4
    <3>4. Cardinality(1 .. size + 1) <= size
      BY <3>2, FS_Subset
    <3> HIDE DEF size
    <3> QED BY <1>1, <3>3, <3>4
  <2>2. PICK least \in Out : \A n \in Out : least <= n
    <3> HIDE DEF Out
    <3>1. Out \subseteq Nat
      BY DEF Out
    <3> QED BY <2>1, <3>1, LeastIndex
  <2>3. least \in Nat /\ least # 0 /\ least \notin P
    OBVIOUS
  <2>4. P = 1 .. least - 1
    <3>1. ASSUME NEW n \in 1 .. least - 1 PROVE n \in P
      BY <2>2, <2>3
    <3>2. ASSUME NEW n \in P PROVE n \in 1 .. least - 1
      <4>1. n \in Nat /\ n # 0 /\ least \notin 1 .. n
        BY <1>3, <2>3
      <4> QED BY <2>3, <4>1
    <3> QED BY <3>1, <3>2
  <2>5. size = least - 1
    <3>1. 1 \in Int /\ least - 1 \in Int
      BY <2>3
    <3>2. Cardinality(1 .. least - 1) = IF 1 > least - 1 THEN 0 ELSE least - 1 - 1 + 1
      BY <3>1, FS_Interval
    <3>3. size = Cardinality(1 .. least - 1)
      BY <2>4
    <3> HIDE DEF size, Out
    <3> QED BY <2>3, <3>2, <3>3
  <2> QED BY <2>4, <2>5
<1> QED BY <1>2, <1>3 DEF size


(* Where a read has its position from.                                     *)
LEMMA ReadPositions ==
    ASSUME NEW c, IsSpecifier(c), ~IsReference(c), NEW j \in 1 .. Width(c)
    PROVE  /\ IsPosition(Wants(c)[j].position)
           /\ ~InvalidPosition(c) => Wants(c)[j].position \subseteq Nat \ {0}
<1>1. /\ IsPosition(c.position) /\ IsPosition(c.width.position) /\ IsPosition(c.precision.position)
  BY ComponentFacts DEF IsSpecifier
<1>2. \/ Wants(c)[j].position = c.position
      \/ c.width.dynamic /\ Wants(c)[j].position = c.width.position
      \/ c.precision.dynamic /\ Wants(c)[j].position = c.precision.position
  BY ReadCases
<1>3. ASSUME ~InvalidPosition(c) PROVE Wants(c)[j].position \subseteq Nat \ {0}
  <2>1. (c.width.dynamic => c.width \in Dynamic(c)) /\ (c.precision.dynamic => c.precision \in Dynamic(c))
    BY DEF Dynamic
  <2>2. /\ 0 \notin c.position
        /\ c.width.dynamic => 0 \notin c.width.position
        /\ c.precision.dynamic => 0 \notin c.precision.position
    BY <1>3, <2>1 DEF InvalidPosition
  <2> QED BY <1>1, <1>2, <2>2 DEF IsPosition
<1> QED BY <1>1, <1>2, <1>3

LEMMA ReadFacts ==
    ASSUME NEW text, IsReadable(text)
    PROVE  LET R == Reads(text)
               P == {IndexOf(R, i) : i \in 1 .. Len(R)}
           IN  /\ P = Positions(Expanded(text))
               /\ P \in SUBSET Nat /\ 0 \notin P /\ IsFiniteSet(P)
<1> DEFINE x == Expanded(text)
           R == Reads(text)
           P == {IndexOf(R, i) : i \in 1 .. Len(R)}
<1>1. P = Positions(x)
  <2>1. Registered(x) = {<<IndexOf(R, i), R[i].type>> : i \in 1 .. Len(R)}
    BY RegisteredFacts
  <2> DEFINE E(i) == <<IndexOf(R, i), R[i].type>>
  <2>2. \A i : E(i)[1] = IndexOf(R, i)
    OBVIOUS
  <2>3. Positions(x) = {e[1] : e \in {E(i) : i \in 1 .. Len(R)}}
    BY <2>1 DEF Positions
  <2> HIDE DEF x, R, E
  <2>4. {e[1] : e \in {E(i) : i \in 1 .. Len(R)}} = {E(i)[1] : i \in 1 .. Len(R)}
    OBVIOUS
  <2> QED BY <2>2, <2>3, <2>4
<1>2. ASSUME NEW i \in 1 .. Len(R) PROVE IndexOf(R, i) \in Nat \ {0}
  <2>1. PICK k \in 1 .. Len(text) : \E j \in 1 .. Width(x[k]) : i = Before(text, k) + j
    BY TextFacts
  <2>2. PICK j \in 1 .. Width(x[k]) : i = Before(text, k) + j
    BY <2>1
  <2> DEFINE c == x[k]
  <2>3. IsSpecifier(c) /\ ~IsReference(c) /\ R[i] = Wants(c)[j]
    <3>1. IsSpecifier(c) /\ ~IsReference(c)
      BY TextFacts
    <3>2. R[Before(text, k) + j] = Wants(c)[j]
      BY TextFacts
    <3> HIDE DEF R, c
    <3> QED BY <2>2, <3>1, <3>2
  <2>4. Len(R) \in Nat
    BY TextFacts
  <2>5. ~InvalidPosition(c)
    BY DEF IsReadable, IsArgument
  <2> HIDE DEF c, R, x
  <2>6. R[i].position = {} \/ IndexOf(R, i) \in R[i].position
    <3>1. IsPosition(R[i].position)
      BY <2>2, <2>3, ReadPositions DEF c
    <3>2. CASE R[i].position # {}
      <4>1. Number(R[i].position) \in R[i].position
        BY <3>1, <3>2, NumberFacts
      <4> QED BY <3>2, <4>1 DEF IndexOf
    <3> QED BY <3>2
  <2>7. R[i].position \subseteq Nat \ {0}
    BY <2>2, <2>3, <2>5, ReadPositions DEF c
  <2>8. R[i].position = {} => IndexOf(R, i) = i
    BY DEF IndexOf
  <2> QED BY <2>4, <2>6, <2>7, <2>8
<1>3. Len(R) \in Nat
  BY TextFacts
<1> HIDE DEF R, x
<1>4. IsFiniteSet(P)
  <2> DEFINE f == [i \in 1 .. Len(R) |-> IndexOf(R, i)]
  <2>1. IsFiniteSet(1 .. Len(R))
    BY <1>3, FS_Interval
  <2>2. f \in Surjection(1 .. Len(R), P)
    BY DEF Surjection
  <2> HIDE DEF f, P
  <2> QED BY <2>1, <2>2, FS_Surjection
<1> QED BY <1>1, <1>2, <1>4 DEF R, x

(* A text that can be read is compared just when it prints with what it    *)
(* reads itself.                                                           *)
LEMMA LogicalPrints ==
    ASSUME NEW text, IsReadable(text)
    PROVE  Logical(Expanded(text), FALSE) <=> Prints(text, Passed(text))
<1> DEFINE x == Expanded(text)
           R == Reads(text)
           P == {IndexOf(R, i) : i \in 1 .. Len(R)}
           Entry(i) == <<IndexOf(R, i), R[i].type>>
           Fine == \A c \in ToSet(text) :
                    /\ IF IsReference(c)
                       THEN c.name \in DOMAIN Metadata /\ c.position \subseteq {Metadata[c.name].position}
                       ELSE valid_modifier_conversion(c)
                    /\ ~InvalidPosition(c)
           OneKind == \A i, j \in 1 .. Len(R) : (R[i].position = {}) = (R[j].position = {})
           Gapless == \A n \in P : 1 .. n \subseteq P
           OneType == \A i \in 1 .. Len(R) : {a \in Passed(text) : a[1] = IndexOf(R, i)} = {Entry(i)}
<1>1. DOMAIN R = 1 .. Len(R)
  BY TextFacts
<1>2. Prints(text, Passed(text)) <=> Fine /\ OneKind /\ Gapless /\ OneType
  <2> HIDE DEF R
  <2> QED BY <1>1 DEF Prints, R
<1>3. Fine
  <2>1. ToSet(text) = {text[k] : k \in 1 .. Len(text)}
    BY ExpandedFacts DEF IsReadable
  <2>2. ASSUME NEW k \in 1 .. Len(text)
        PROVE  /\ InvalidPosition(x[k]) <=> InvalidPosition(text[k])
               /\ ~IsReference(text[k]) => x[k] = text[k]
    BY ExpandedFacts DEF IsReadable
  <2>3. ASSUME NEW k \in 1 .. Len(text) PROVE ~InvalidPosition(x[k]) /\ valid_modifier_conversion(x[k])
    BY DEF IsReadable, IsArgument
  <2>4. \A c \in ToSet(text) : IsReference(c) =>
            c.name \in DOMAIN Metadata /\ c.position \subseteq {Metadata[c.name].position}
    BY DEF IsReadable, validate_references, substitution_references
  <2> HIDE DEF x
  <2> QED BY <2>1, <2>2, <2>3, <2>4
<1>4. ~HasProblem(x)
  <2>1. ToSet(x) = {x[k] : k \in 1 .. Len(text)}
    BY ExpandedFacts DEF IsReadable
  <2>2. ASSUME NEW k \in 1 .. Len(text) PROVE ~InvalidPosition(x[k]) /\ valid_modifier_conversion(x[k])
    BY DEF IsReadable, IsArgument
  <2> HIDE DEF x
  <2> QED BY <2>1, <2>2 DEF HasProblem
<1>5. ~(Positional(x) /\ Sequential(x)) <=> OneKind
  BY MixedFacts
<1>6. Registered(x) = {Entry(i) : i \in 1 .. Len(R)} /\ Passed(text) = {Entry(i) : i \in 1 .. Len(R)}
  BY RegisteredFacts
<1>7. P = Positions(x) /\ P \in SUBSET Nat /\ 0 \notin P /\ IsFiniteSet(P)
  BY ReadFacts
<1> HIDE DEF x, R, P
<1>8. (\A a, b \in Registered(x) : a[1] = b[1] => a = b) <=> OneType
  <2>1. \A i \in 1 .. Len(R) : Entry(i)[1] = IndexOf(R, i)
    OBVIOUS
  <2> DEFINE A == {Entry(i) : i \in 1 .. Len(R)}
  <2>2. ASSUME \A a, b \in A : a[1] = b[1] => a = b, NEW i \in 1 .. Len(R)
        PROVE  {a \in A : a[1] = IndexOf(R, i)} = {Entry(i)}
    <3>1. Entry(i) \in A
      OBVIOUS
    <3> HIDE DEF A, Entry
    <3> QED BY <2>1, <2>2, <3>1
  <2>3. ASSUME \A i \in 1 .. Len(R) : {a \in A : a[1] = IndexOf(R, i)} = {Entry(i)},
               NEW a \in A, NEW b \in A, a[1] = b[1]
        PROVE  a = b
    <3>1. PICK i \in 1 .. Len(R) : a = Entry(i)
      OBVIOUS
    <3>2. a[1] = IndexOf(R, i)
      BY <2>1, <3>1
    <3> HIDE DEF A, Entry
    <3>3. b \in {q \in A : q[1] = IndexOf(R, i)}
      BY <2>3, <3>2
    <3> QED BY <2>3, <3>1, <3>3
  <2> HIDE DEF Entry
  <2> QED BY <1>6, <2>2, <2>3
<1>9. validate_positions(x, FALSE) <=> Gapless
  <2>1. P = 1 .. Cardinality(P) <=> Gapless
    BY <1>7, NoGap
  <2> QED BY <1>7, <2>1 DEF validate_positions
<1> HIDE DEF OneKind, Gapless, OneType, Fine
<1>10. Logical(x, FALSE) <=> OneKind /\ OneType /\ Gapless
  BY <1>4, <1>5, <1>8, <1>9 DEF Logical
<1> QED BY <1>2, <1>3, <1>10 DEF x


(* What is accepted can be read, and so can what is printed.               *)
LEMMA AcceptedReadable ==
    ASSUME NEW text, IsText(text), Ambiguous(text) = {},
           \/ validate_references(Metadata, text) /\ ~HasProblem(Expanded(text))
           \/ \E arguments : Prints(text, arguments)
    PROVE  IsReadable(text)
<1> DEFINE x == Expanded(text)
<1>1. validate_references(Metadata, text)
  <2>1. ASSUME NEW arguments, Prints(text, arguments) PROVE validate_references(Metadata, text)
    BY <2>1 DEF Prints, validate_references, substitution_references
  <2> QED BY <2>1
<1>2. /\ ToSet(text) = {text[k] : k \in 1 .. Len(text)}
      /\ ToSet(x) = {x[k] : k \in 1 .. Len(text)}
  BY <1>1, ExpandedFacts
<1>3. ASSUME NEW k \in 1 .. Len(text) PROVE IsArgument(x[k])
  <2>1. /\ InvalidPosition(x[k]) <=> InvalidPosition(text[k])
        /\ InvalidPosition(x[k]) \/ ~MayBeProse(x[k])
        /\ IsReference(text[k]) => valid_modifier_conversion(x[k])
        /\ ~IsReference(text[k]) => x[k] = text[k]
    BY <1>1, ExpandedFacts
  <2>2. text[k] \in ToSet(text) /\ x[k] \in ToSet(x)
    BY <1>2
  <2> HIDE DEF x
  <2>3. CASE ~HasProblem(x)
    BY <2>1, <2>2, <2>3 DEF HasProblem, IsArgument
  <2>4. ASSUME NEW arguments, Prints(text, arguments) PROVE IsArgument(x[k])
    <3>1. ~InvalidPosition(text[k]) /\ (~IsReference(text[k]) => valid_modifier_conversion(text[k]))
      BY <2>2, <2>4 DEF Prints
    <3> QED BY <2>1, <3>1 DEF IsArgument
  <2> QED BY <2>3, <2>4 DEF x
<1> QED BY <1>1, <1>3 DEF IsReadable

LEMMA PrintedAlike ==
    ASSUME NEW s, IsReadable(s), NEW t, IsReadable(t)
    PROVE  ToBag(Occurrences(Expanded(s))) = ToBag(Occurrences(Expanded(t))) <=> Printed(s) = Printed(t)
<1> DEFINE f == [k \in 1 .. Len(s) |-> Occurrence(Expanded(s)[k], NextOf(s, k))]
           u == [k \in 1 .. Len(t) |-> Occurrence(Expanded(t)[k], NextOf(t, k))]
           g == [k \in 1 .. Len(s) |-> Picture(s, k)]
           v == [k \in 1 .. Len(t) |-> Picture(t, k)]
<1>1. Occurrences(Expanded(s)) = f /\ Occurrences(Expanded(t)) = u
  BY OccurrencesOf
<1>2. Printed(s) = ToBag(g) /\ Printed(t) = ToBag(v)
  <2>1. DOMAIN s = 1 .. Len(s) /\ DOMAIN t = 1 .. Len(t)
    BY ExpandedFacts DEF IsReadable
  <2> QED BY <2>1 DEF Printed
<1>3. ASSUME NEW a, IsReadable(a), NEW b, IsReadable(b), NEW i \in 1 .. Len(a), NEW j \in 1 .. Len(b)
      PROVE  Occurrence(Expanded(a)[i], NextOf(a, i)) = Occurrence(Expanded(b)[j], NextOf(b, j))
                <=> Picture(a, i) = Picture(b, j)
  <2> DEFINE c == Expanded(a)[i]
             d == Expanded(b)[j]
  <2>1. IsSpecifier(c) /\ ~IsReference(c) /\ NextOf(a, i) \in Nat
    BY <1>3, TextFacts
  <2>2. IsSpecifier(d) /\ ~IsReference(d) /\ NextOf(b, j) \in Nat
    BY <1>3, TextFacts
  <2>3. Picture(a, i) = Shape(c, NextOf(a, i)) /\ Picture(b, j) = Shape(d, NextOf(b, j))
    BY <1>3, PictureFacts
  <2> HIDE DEF c, d
  <2>4. Occurrence(c, NextOf(a, i)) = Occurrence(d, NextOf(b, j))
            <=> Shape(c, NextOf(a, i)) = Shape(d, NextOf(b, j))
    BY <2>1, <2>2, SameShape
  <2> QED BY <2>3, <2>4 DEF c, d
<1>4. /\ DOMAIN f = 1 .. Len(s) /\ DOMAIN g = 1 .. Len(s)
      /\ DOMAIN u = 1 .. Len(t) /\ DOMAIN v = 1 .. Len(t)
  OBVIOUS
<1>5. /\ \A i, j \in 1 .. Len(s) : f[i] = f[j] <=> g[i] = g[j]
      /\ \A i \in 1 .. Len(s), j \in 1 .. Len(t) : f[i] = u[j] <=> g[i] = v[j]
      /\ \A i, j \in 1 .. Len(t) : u[i] = u[j] <=> v[i] = v[j]
  <2>1. \A i, j \in 1 .. Len(s) : f[i] = f[j] <=> g[i] = g[j]
    BY <1>3
  <2>2. \A i \in 1 .. Len(s), j \in 1 .. Len(t) : f[i] = u[j] <=> g[i] = v[j]
    BY <1>3
  <2>3. \A i, j \in 1 .. Len(t) : u[i] = u[j] <=> v[i] = v[j]
    BY <1>3
  <2> QED BY <2>1, <2>2, <2>3
<1> HIDE DEF f, g, u, v
<1>6. TellAlike(f, g, u, v) /\ TellAlike(g, f, v, u)
  BY <1>4, <1>5 DEF TellAlike
<1>7. ToBag(f) = ToBag(u) => ToBag(g) = ToBag(v)
  BY <1>6, BagsAgree
<1>8. ToBag(g) = ToBag(v) => ToBag(f) = ToBag(u)
  BY <1>6, BagsAgree
<1> QED BY <1>1, <1>2, <1>7, <1>8

LEMMA BagRange ==
    ASSUME NEW f, NEW u, ToBag(f) = ToBag(u)
    PROVE  Range(f) = Range(u)
<1>1. DOMAIN ToBag(f) = Range(f) /\ DOMAIN ToBag(u) = Range(u)
  BY DEF ToBag
<1> QED BY <1>1

LEMMA AcceptedIsKept ==
    ASSUME NEW s, IsText(s), Ambiguous(s) = {}, NEW t, IsText(t), Ambiguous(t) = {}
    PROVE  LET accepted == TakesArguments(Metadata, Metadata, s, t, FALSE)
           IN  /\ accepted <=>
                    Prints(s, Passed(s)) /\ Prints(t, Passed(s)) /\ Printed(t) = Printed(s)
               /\ accepted => Observed(Expanded(t)) = Observed(Expanded(s))
<1> DEFINE accepted == TakesArguments(Metadata, Metadata, s, t, FALSE)
           x == Expanded(s)
           y == Expanded(t)
           kept == Prints(s, Passed(s)) /\ Prints(t, Passed(s)) /\ Printed(t) = Printed(s)
<1>1. Known(Metadata, Metadata) = Metadata
  BY FormatsAssumption DEF Known
<1>2. accepted <=>
            /\ validate_references(Metadata, s) /\ validate_references(Metadata, t)
            /\ Logical(x, FALSE) /\ Logical(y, FALSE) /\ Registered(x) = Registered(y)
            /\ ToBag(Occurrences(x)) = ToBag(Occurrences(y))
  BY <1>1 DEF TakesArguments, compare_formats, Expanded
<1>3. accepted => IsReadable(s) /\ IsReadable(t)
  BY <1>2, AcceptedReadable DEF Logical
<1>4. kept => IsReadable(s) /\ IsReadable(t)
  BY AcceptedReadable
<1>5. ASSUME IsReadable(s), IsReadable(t)
      PROVE  /\ accepted <=> kept
             /\ accepted => Observed(y) = Observed(x)
  <2>1. validate_references(Metadata, s) /\ validate_references(Metadata, t)
    BY <1>5 DEF IsReadable
  <2>2. Registered(x) = Passed(s) /\ Registered(y) = Passed(t)
    BY <1>5, RegisteredFacts
  <2>3. Logical(x, FALSE) <=> Prints(s, Passed(s))
    BY <1>5, LogicalPrints
  <2>4. Logical(y, FALSE) <=> Prints(t, Passed(t))
    BY <1>5, LogicalPrints
  <2>5. ToBag(Occurrences(x)) = ToBag(Occurrences(y)) <=> Printed(s) = Printed(t)
    BY <1>5, PrintedAlike
  <2>6. ASSUME ToBag(Occurrences(x)) = ToBag(Occurrences(y))
        PROVE  Registered(x) = Registered(y) /\ Observed(x) = Observed(y)
    <3>1. Range(Occurrences(x)) = Range(Occurrences(y))
      BY <2>6, BagRange
    <3> QED BY <3>1 DEF Registered, Observed
  <2> HIDE DEF x, y, accepted
  <2> QED BY <1>2, <2>1, <2>2, <2>3, <2>4, <2>5, <2>6
<1> HIDE DEF kept, accepted
<1>6. (accepted <=> kept) /\ (accepted => Observed(y) = Observed(x))
  BY <1>3, <1>4, <1>5
<1> QED BY <1>6 DEF kept, accepted, x, y

(* A translation is accepted just when it is safe to print with the        *)
(* arguments its source is printed with and shows each of them as the      *)
(* source does (TakesArguments, validate_translation_formats), for texts   *)
(* of any length with any positions, dynamic widths and references.        *)
THEOREM FormatsKept == FormatsSpec => []FormatsAreKept
<1> DEFINE FromTexts == compared \subseteq FormatTexts
<1>1. FormatsInit => FromTexts
  BY DEF FormatsInit
<1>2. FromTexts /\ [Compare \/ PutAway]_compared => FromTexts'
  <2>1. FromTexts /\ Compare => FromTexts'
    BY DEF Compare
  <2>2. FromTexts /\ PutAway => FromTexts'
    BY DEF PutAway
  <2> QED BY <2>1, <2>2
<1>3. FromTexts => FormatsAreKept
  <2> SUFFICES ASSUME FromTexts, NEW s \in compared, Ambiguous(s) = {},
                      NEW t \in FormatTexts, Ambiguous(t) = {}
               PROVE  /\ TakesArguments(Metadata, Metadata, s, t, FALSE) <=>
                            Prints(s, Passed(s)) /\ Prints(t, Passed(s)) /\ Printed(t) = Printed(s)
                      /\ TakesArguments(Metadata, Metadata, s, t, FALSE) =>
                            Observed(expand_references(Metadata, t)) =
                                Observed(expand_references(Metadata, s))
    BY DEF FormatsAreKept
  <2>1. IsText(s) /\ IsText(t)
    BY FormatsAssumption DEF IsText
  <2> QED BY <2>1, AcceptedIsKept DEF Expanded
<1> QED BY <1>1, <1>2, <1>3, PTL DEF FormatsSpec
=============================================================================
