------------------------ MODULE MCTranslationTools ------------------------
(***************************************************************************)
(* One locale with the categories one and other, a substitution, a device  *)
(* and its default; texts with no argument, with one, with a reference.    *)
(***************************************************************************)
EXTENDS TranslationTools, FormatArguments, TLC

(* Every text of two of the specifiers, and of three of a few of them.     *)
With(conversion) == [Plain EXCEPT !.conversion = conversion]
AtPosition(n, c) == [c EXCEPT !.position = {n}]
Decimal == With("d")
LongDecimal == [Decimal EXCEPT !.length = "l"]
Dynamic1 == [Decimal EXCEPT !.width = Star({})]
WidthFirst == [AtPosition(2, Decimal) EXCEPT !.width = Star({1})]

FewSpecifiers ==
    {Decimal, AtPosition(1, Decimal), AtPosition(2, Decimal), Dynamic1, WidthFirst, LongDecimal,
     Reference("count", {})}

Specifiers ==
    FewSpecifiers
    \cup {Plain, AtPosition(2, Plain), AtPosition(1, LongDecimal), AtPosition(0, Decimal),
          With("c"), [Decimal EXCEPT !.width = Fixed("5")], [Plain EXCEPT !.length = "l"],
          [Dynamic1 EXCEPT !.precision = Star({})],
          [AtPosition(1, Decimal) EXCEPT !.width = Star({2})],
          [AtPosition(1, Decimal) EXCEPT !.width = Star({})],
          [Decimal EXCEPT !.flags = <<" ">>, !.next = "word"],
          [LongDecimal EXCEPT !.next = "word"],
          Reference("count", {1}), Reference("count", {2}), Reference("other", {}), ArgToken}

UpTo(S, length) == UNION {[1..n -> S] : n \in 0..length}
MCFormatTexts == UpTo(Specifiers, 2) \cup UpTo(FewSpecifiers, 3)
MCMetadata == [n \in {"count"} |-> [position |-> 1, length |-> "l", conversion |-> "d"]]

(* The texts of the catalogs: %ld and %#@count@.                           *)
Parsed ==
    [t \in {"", "plain", "number", "refers"} |->
        CASE t = "number" -> <<LongDecimal>>
          [] t = "refers" -> <<Reference("count", {})>>
          [] OTHER -> <<>>]

MCCategories(l) == IF l = "ja" THEN {"other"} ELSE {"one", "other"}
MCReferences(t) == {c.name : c \in substitution_references(Parsed[t])}
MCCompatible(s, t) == TakesArguments(MCMetadata, MCMetadata, Parsed[s], Parsed[t], FALSE)
MCCompatiblePart(s, t) == TakesArguments(MCMetadata, MCMetadata, Parsed[s], Parsed[t], TRUE)

P(at, plural) == [at |-> at, plural |-> plural]
Unit1(state, text) == [state |-> state, text |-> text]

(* Source shapes.                                                          *)
Done(places, text) == [p \in places |-> Unit1("translated", text)]
Simple(text) == Done({P("root", "whole")}, text)
Forms(at, text) == Done({P(at, "one"), P(at, "other")}, text)
ByDevice(text) == Done({P("iphone", "whole"), P("anydevice", "whole")}, text)
DeviceForms(text) == Forms("iphone", text) @@ Done({P("anydevice", "whole")}, text)
Substituted(parent(_)) == parent("refers") @@ Forms("count", "number")

MCSources ==
    {Simple("plain"), Forms("root", "number"), DeviceForms("number"),
     Substituted(Simple), Substituted(ByDevice)}

SourceOnly(s) == [l \in {"en"} |-> s]
WithTarget(s, t) == ("en" :> s) @@ ("de" :> t)

Entry(locs) == [shouldTranslate |-> TRUE, localizations |-> locs]

MCDrafts ==
    {Entry(SourceOnly(s)) : s \in MCSources}
    \cup {Entry([l \in {"de"} |-> [p \in {P("root", "whole")} |-> Unit1("needs_review", "number")]])}
    \cup {Entry([l \in {} |-> Simple("plain")])}

(* Legacy files: texts in both locales, a rule in the source alone or in   *)
(* the translation alone, a rule with text around it, and files whose      *)
(* language is not the catalog's.                                          *)
NoTexts == [k \in {} |-> "plain"]
NoRules == [k \in {} |-> [single |-> TRUE]]
OfText(text) == [texts |-> [k \in {"key"} |-> text], rules |-> NoRules]
OfRule(single, categories) ==
    [texts |-> NoTexts,
     rules |-> [k \in {"key"} |->
        [single |-> single, format |-> "refers",
         variables |-> [n \in {"count"} |-> [c \in categories |-> "number"]]]]]
From(source, en, de) == [source |-> source, tables |-> ("en" :> en) @@ ("de" :> de)]
Nothing == [texts |-> NoTexts, rules |-> NoRules]

MCImports ==
    {From("en", OfText("plain"), OfText("plain")), From("en", OfText(""), OfText("number")),
     From("en", OfRule(TRUE, {"one", "other"}), OfText("number")),
     From("en", Nothing, OfRule(TRUE, {"other"})),
     From("en", OfRule(FALSE, {"one", "other"}), OfRule(FALSE, {"other"})),
     From("de", Nothing, OfRule(FALSE, {"one", "other"}))}

MCArgument(t) == t

One(explicit, p, text) ==
    [key |-> "key", locale |-> "de", explicit |-> explicit, texts |-> [q \in {p} |-> text]]

Forms2(at, text) ==
    [key |-> "key", locale |-> "de", explicit |-> FALSE,
     texts |-> [q \in {P(at, "one"), P(at, "other")} |-> text]]

MCRequests ==
    {One(TRUE, P("root", "whole"), t) : t \in {"plain", "refers", ""}}
    \cup {One(TRUE, P("root", "one"), "number"), One(TRUE, P("count", "one"), "number"),
          One(TRUE, P("iphone", "one"), "number"), One(TRUE, P("iphone", "whole"), "refers"),
          Forms2("root", "number"), Forms2("count", "number")}
    \cup {One(TRUE, P("anydevice", "whole"), t) : t \in {"refers", "number", ""}}

MCBatches == {<<r>> : r \in MCRequests} \cup {<<r, s>> : r, s \in MCRequests}

(* Texts are compared beside a catalog without keys: what a comparison     *)
(* says depends on nothing in the catalog.                                 *)
Beside == DOMAIN catalog = {} /\ pc = "idle"

MCInit == Init /\ FormatsInit
MCNext ==
    \/ compared = {} /\ Next /\ UNCHANGED compared
    \/ Beside /\ Compare /\ UNCHANGED vars
    \/ PutAway /\ UNCHANGED vars
MCSpec == MCInit /\ [][MCNext]_<<vars, compared>>
=============================================================================
