-------------------------- MODULE MCXliffExchange --------------------------
(***************************************************************************)
(* One key and one locale with the categories one and other; simple texts, *)
(* plurals, devices and a substitution on either side.                     *)
(***************************************************************************)
EXTENDS XliffExchange, TLC

MCCategories(l) == {"one", "other"}
MCReferences(t) == IF t \in {"refers", "refers1"} THEN {"count"} ELSE {}
MCPositioned(t) == IF t = "refers1" THEN {"count"} ELSE {}
MCArgumentOf(n) == "number"

(* Arguments are compared with references replaced by theirs.              *)
Takes(t) == CASE t \in {"", "plain"} -> 0 [] t = "arg" -> 1 [] OTHER -> 2
MCCompatible(s, t) == Takes(s) = Takes(t)

MCOutward(in, t) ==
    CASE in /\ t = "arg" -> "number" [] ~in /\ t = "refers" -> "refers1" [] OTHER -> t
MCInward(in, t) ==
    CASE in /\ t = "number" -> "arg" [] ~in /\ t = "refers1" -> "refers" [] OTHER -> t

P(at, plural) == [at |-> at, plural |-> plural]
At(places, state, text) == [p \in places |-> [state |-> state, text |-> text]]
Simple(state, text) == At({P("root", "whole")}, state, text)
Forms(at, state, text) == At({P(at, "one"), P(at, "other")}, state, text)
ByDevice(state, text) == At({P("iphone", "whole"), P("anydevice", "whole")}, state, text)
DeviceForms(state, text) ==
    Forms("iphone", state, text) @@ At({P("anydevice", "whole")}, state, text)
Counted(state, parent(_, _)) == parent(state, "refers") @@ Forms("count", state, "arg")

MCSources ==
    {Simple("translated", "plain"), Forms("root", "translated", "number"),
     DeviceForms("translated", "number"), Counted("translated", Simple)}

SourceOnly(s) == [l \in {"en"} |-> s]
Both(s, t) == ("en" :> s) @@ ("de" :> t)
Entry(locs) == [shouldTranslate |-> TRUE, localizations |-> locs]

MCEntries ==
    {Entry(SourceOnly(s)) : s \in MCSources}
    \cup {Entry(Both(Simple("translated", "plain"), Simple("translated", "plain"))),
          Entry(Both(Simple("translated", "number"), At({P("root", "one")}, "needs_review", "number"))),
          Entry(Both(Forms("root", "translated", "number"), Simple("new", ""))),
          Entry(Both(Counted("translated", Simple),
                     Simple("new", "refers") @@ Forms("count", "translated", "arg"))),
          Entry(Both(Counted("translated", ByDevice), Counted("translated", ByDevice))),
          Entry(Both(Counted("translated", Simple), Counted("translated", ByDevice))),
          Entry([l \in {} |-> Simple("new", "")]),
          [shouldTranslate |-> FALSE, localizations |-> SourceOnly(Simple("translated", "plain"))]}

MCAnswers ==
    {[target |-> "plain", state |-> "final"], [target |-> "number", state |-> "needs-review-l10n"],
     [target |-> "refers1", state |-> "none"], [target |-> "", state |-> "new"],
     [target |-> "none", state |-> "none"], [target |-> "plain", state |-> "unsupported"]}

MCSymmetry == Permutations(Contexts)
=============================================================================
