---------------------------- MODULE LegacyStrings ----------------------------
(***************************************************************************)
(* What import_strings and the migrate command make of .strings and        *)
(* .stringsdict files (service/migrate.rs).                                *)
(*                                                                         *)
(* A text file gives keys texts, a rule file gives them rules: a format    *)
(* and, for each of its variables, a text per plural category, of which    *)
(* other is never missing.  Of several entries for a key in one locale's   *)
(* files of one kind the last counts, so that a table has one of each.     *)
(***************************************************************************)
EXTENDS TranslationTree

CONSTANT
    Argument(_)    \* a text with the variable's specifier written as %arg

PluralTexts == UNION {[cs -> Texts] : cs \in {ds \in SUBSET Plurals : AnyPlural \in ds}}

(* A format may be nothing but one reference.                              *)
IsRule(r) ==
    /\ r \in [single : BOOLEAN, format : Texts \ {Blank}, variables : {r.variables}]
    /\ DOMAIN r.variables \subseteq Names /\ DOMAIN r.variables # {}
    /\ r.variables \in [DOMAIN r.variables -> PluralTexts]

IsTable(t, keys) ==
    /\ t \in [texts : {t.texts}, rules : {t.rules}]
    /\ DOMAIN t.texts \subseteq keys /\ t.texts \in [DOMAIN t.texts -> Texts]
    /\ DOMAIN t.rules \subseteq keys /\ \A k \in DOMAIN t.rules : IsRule(t.rules[k])

(* The language the caller names, and a table for each locale found.       *)
IsLegacy(legacy, keys) ==
    /\ legacy \in [source : Locales, tables : {legacy.tables}]
    /\ DOMAIN legacy.tables \subseteq Locales
    /\ \A l \in DOMAIN legacy.tables : IsTable(legacy.tables[l], keys)

ASSUME LegacyTextsAssumption == \A t \in Texts : Argument(t) \in Texts

Translated(text) == [state |-> "translated", text |-> text]

FromText(text) ==
    [p \in {RootPlace} |-> IF text = Blank THEN New(Blank) ELSE Translated(text)]

OnlyVariable(r) == r.variables[CHOOSE n \in DOMAIN r.variables : TRUE]

IsSimplePlural(r) == r.single /\ \E n \in Names : DOMAIN r.variables = {n}

(* A simple plural keeps its texts as they are.                            *)
FromSimple(r) ==
    [p \in {q \in Place : q.at = Root /\ q.plural \in DOMAIN OnlyVariable(r)} |->
        Translated(OnlyVariable(r)[p.plural])]

(* build_substitutions beside the format.                                  *)
FromComplex(r) ==
    [p \in {q \in Place :
            q = RootPlace \/ (q.at \in DOMAIN r.variables /\ q.plural \in DOMAIN r.variables[q.at])} |->
        IF p = RootPlace THEN Translated(r.format)
        ELSE Translated(Argument(r.variables[p.at][p.plural]))]

FromRule(r) == IF IsSimplePlural(r) THEN FromSimple(r) ELSE FromComplex(r)

HasKey(t, k) == k \in DOMAIN t.texts \cup DOMAIN t.rules

(* A rule overrides a text for the same key.                               *)
FromTable(t, k) == IF k \in DOMAIN t.rules THEN FromRule(t.rules[k]) ELSE FromText(t.texts[k])

LegacyKeys(legacy) ==
    UNION {DOMAIN legacy.tables[l].texts \cup DOMAIN legacy.tables[l].rules :
                l \in DOMAIN legacy.tables}

Found(legacy, k) == {l \in DOMAIN legacy.tables : HasKey(legacy.tables[l], k)}

(* A key its source files do not have gets an empty source.                *)
LegacyEntry(legacy, k) ==
    [shouldTranslate |-> TRUE,
     localizations |-> [l \in Found(legacy, k) \cup {legacy.source} |->
        IF l \in Found(legacy, k) THEN FromTable(legacy.tables[l], k)
        ELSE [p \in {RootPlace} |-> New(Blank)]]]
=============================================================================
