------------------------------ MODULE MCGuidance ------------------------------
(***************************************************************************)
(* One locale pair, the words dark, mode and app.  Two clients of two      *)
(* servers edit a small glossary of three rules that a person may also     *)
(* replace by the legacy map or break.  Records of two keys are edited     *)
(* while the catalog changes; reports are asked for every glossary of      *)
(* seven rules, with the screen or the role of a leaf known or not.        *)
(***************************************************************************)
EXTENDS Guidance

CONSTANTS c1, c2

Word(w) == <<w>>

Simple1(source, preferred) == legacy_term("en-de", source, preferred)

On(screen) == [Unscoped EXCEPT !.screens = {screen}]

Dark == Simple1(Word("dark"), Word("dunkel"))
NeverDark == [Dark EXCEPT !.preferred = {}, !.forbidden = {Word("dunkel")}]

(* The seven rules: a short one, a longer one for one screen, a rival, a   *)
(* prohibition, a name to keep, one with an exception for buttons, and one *)
(* that matches within words.                                              *)
MCRules ==
    [dark |-> Dark,
     darkmode |-> [Simple1(<<"dark", " ", "mode">>, Word("nachtmodus"))
                    EXCEPT !.scope = On("settings"), !.accepted = {Word("nacht")}],
     rival |-> [Dark EXCEPT !.preferred = {Word("finster")}, !.accepted = {Word("dunkel")}],
     never |-> NeverDark,
     keep |-> [Simple1(Word("app"), Word("app"))
                EXCEPT !.do_not_translate = TRUE, !.source_variants = {Word("mode")}],
     button |-> [Simple1(Word("mode"), Word("modus"))
                  EXCEPT !.forbidden = {Word("art")},
                         !.exceptions = {[scope |-> [Unscoped EXCEPT !.roles = {"button"}],
                                          accepted |-> {Word("art")}, ignore |-> {"forbidden"},
                                          extra |-> FALSE]}],
     within |-> [Simple1(Word("dark"), Word("schwarz")) EXCEPT !.mode = "literal"]]

MCDocuments == {[id \in ids |-> MCRules[id]] : ids \in SUBSET DOMAIN MCRules}

Space == " "
Use(source, target) ==
    [key |-> "key", path |-> RootPlace, locales |-> "en-de", source |-> source,
     target |-> target, context |-> NoFields]

MCUses ==
    {Use(source, target) :
        source \in {<<"dark", Space, "mode">>, <<"%@", "dark">>, <<"dark", "s", Space, "dark", Space, "mode">>,
                    <<"app", Space, "dark">>},
        target \in {<<"dunkel">>, <<"nacht", Space, "art">>, <<"%@", "app", Space, "finster">>,
                    <<"dunkel", "er", Space, "modus">>}}

P(at, plural) == [at |-> at, plural |-> plural]
Facts(screen, role) == [NoFields EXCEPT !.screen = screen, !.role = role]
Binds(bindings) == [NoFields EXCEPT !.variables = bindings]
OfLeaf(path, fields) == [NoRecord EXCEPT !.leaves = [p \in {path} |-> fields]]

OfButton == [NoRecord EXCEPT !.context = [Facts(None, "button") EXCEPT !.neighbors = {"other"}]]
Leaf1 == OfLeaf(RootPlace, Binds({Argument(1)}))

(* Facts of a key, a leaf with its own, a neighbour, variables of the key  *)
(* and of leaves that only fallbacks of the source stand for.              *)
MCRecords ==
    {NoRecord, OfButton,
     [NoRecord EXCEPT !.context = [Facts("settings", None)
                            EXCEPT !.variables = {Substitution("count"), Argument(2)}]],
     [OfLeaf(RootPlace, [Facts("home", "label") EXCEPT !.variables = {Argument(1)}])
        EXCEPT !.context = Facts("settings", None)],
     OfLeaf(P("count", "one"), Binds({Argument(2)})),
     OfLeaf(P("iphone", "other"), Binds({Argument(1)})), Leaf1}

Batch1(key, record) == [k \in {key} |-> record]
Both(a, b) == [k \in {"key", "other"} |-> IF k = "key" THEN a ELSE b]
MCBatches ==
    {Batch1("key", record) : record \in (MCRecords \ {Leaf1}) \cup {None}}
    \cup {Batch1("other", record) : record \in {None, Leaf1}}
    \cup {Both(None, None), Both(OfLeaf(P("count", "one"), Binds({Argument(2)})), None),
          Both(OfButton, Leaf1)}

(* A key without localizations; a text with a substitution; plurals; a     *)
(* substitution that only a translation has; devices, of which one mixes   *)
(* arguments with and without positions.                                   *)
At(n, conversion) == [Formats!Plain EXCEPT !.position = n, !.conversion = conversion]
Refers == Formats!Reference("count", {})
NoSubstitutions == [n \in {} |-> None]
Count == [n \in {"count"} |-> [position |-> 2, length |-> "l", conversion |-> "d"]]

Unlocalized ==
    [source |-> None, substitutions |-> NoSubstitutions, targets |-> {}, key_text |-> <<At({}, "@")>>]
Substituted ==
    [source |-> [p \in {RootPlace, P("count", "other")} |->
                    IF p = RootPlace THEN <<At({1}, "@"), Refers>> ELSE <<Formats!ArgToken>>],
     substitutions |-> Count, targets |-> {RootPlace}, key_text |-> <<>>]
Counted ==
    [source |-> [p \in {P("root", "one"), P("root", "other")} |->
                    IF p.plural = "one" THEN <<>> ELSE <<At({}, "d")>>],
     substitutions |-> NoSubstitutions, targets |-> {}, key_text |-> <<>>]
Undefined ==
    [source |-> [p \in {RootPlace} |-> <<Refers>>],
     substitutions |-> NoSubstitutions, targets |-> {P("count", "one")}, key_text |-> <<>>]
Mixed ==
    [source |-> [p \in {P("iphone", "whole"), P("anydevice", "whole")} |->
                    IF p.at = "iphone" THEN <<At({1}, "@"), At({}, "d")>> ELSE <<At({}, "@")>>],
     substitutions |-> NoSubstitutions, targets |-> {}, key_text |-> <<>>]
Unended == [Counted EXCEPT !.source = [p \in {RootPlace} |-> Unparsed]]

Entries == {Unlocalized, Substituted, Counted, Undefined, Mixed, Unended}
MCCatalogs ==
    {[k \in keys |-> IF k = "key" THEN entry ELSE Unlocalized] :
        entry \in Entries, keys \in {{"key"}, {"other"}, {"key", "other"}}}
MCReviewed == [key \in {"key"} |-> Substituted]

Upsert(id, term) == [kind |-> "rules", upsert |-> [i \in {id} |-> term], remove |-> {}]
Stranger == legacy_id("en-de", Word("mode"))
MCEdits ==
    {Upsert(<<"never">>, NeverDark), Upsert(Stranger, Dark),
     [kind |-> "rules", upsert |-> [i \in {<<"never">>} |-> Dark], remove |-> {legacy_id("en-de", Word("dark"))}],
     [kind |-> "entries", locales |-> "en-de",
      entries |-> [source \in {Word("mode")} |-> Word("modus")]],
     [kind |-> "entries", locales |-> "en-de",
      entries |-> [source \in {Word("dark"), Word("mode")} |-> Word("art")]]}

MCEditorFiles ==
    {Unusable, Legacy([locales \in {"en-de"} |->
        [source \in {Word("dark"), Word("mode")} |-> IF source = Word("dark") THEN Word("dunkel") ELSE Word("modus")]])}

MCServer == [c \in {c1, c2} |-> c]
MCSymmetry == Permutations({c1, c2})
=============================================================================
