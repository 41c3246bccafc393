-------------------------- MODULE MCMergeSession --------------------------
(***************************************************************************)
(* One key with a source text and a German translation, a stringUnit of    *)
(* state and value, a catalog version and one future field.                *)
(***************************************************************************)
EXTENDS MergeSession

MCAtoms == {"en", "fr", "1.0", "1.1", "new", "done", "plain", "number"}

Strings == <<"strings">>
Entry == Append(Strings, "key")
Localizations == Append(Entry, "localizations")
Unit(l) == Localizations \o <<l, "stringUnit">>
Version == <<"version">>
Future == <<"future">>

MCPointers ==
    {<<>>, Language, Version, Future, Append(Future, "left"), Append(Future, "right"),
     Strings, Entry, Localizations}
    \cup {Append(Localizations, l) : l \in {"en", "de"}}
    \cup {Unit(l) : l \in {"en", "de"}}
    \cup {Append(Unit(l), f) : l \in {"en", "de"}, f \in {"state", "value"}}

(* The catalog with the given atoms, and the objects that hold them.       *)
Tree(atoms) ==
    [p \in MCPointers |->
        IF p \in DOMAIN atoms THEN atoms[p]
        ELSE IF p = <<>> \/ \E q \in DOMAIN atoms : IsPrefix(p, q) THEN "object"
        ELSE "absent"]

Header == Language :> "en" @@ Version :> "1.0"
Text(l, state, value) ==
    Append(Unit(l), "state") :> state @@ Append(Unit(l), "value") :> value

Source == Header @@ Text("en", "done", "plain")
SourceChanged == Header @@ Text("en", "done", "number")
German(state, value) == Source @@ Text("de", state, value)

(* From a catalog without German, and from one whose German is new.        *)
Additions ==
    {Tree(Header),
     Tree(SourceChanged @@ Text("de", "done", "plain")),
     Tree(German("done", "number")),
     Tree(Version :> "1.1" @@ Source @@ Append(Future, "left") :> "plain"),
     Tree(Source @@ Append(Future, "left") :> "number" @@ Append(Future, "right") :> "plain"),
     Tree(Language :> "fr" @@ Source)}
Changes ==
    {Tree(Source), Tree(SourceChanged @@ Text("de", "new", "plain")),
     Tree(German("done", "plain")), Tree(German("new", "number"))}

MCBranches ==
    [base : {Tree(Source)}, current : Additions, incoming : Additions]
    \cup [base : {Tree(German("new", "plain"))}, current : Changes, incoming : Changes]

MCDrafts == {Missing, Tree(German("done", "plain"))}

(* A translation whose format differs from the source's.                   *)
MCErrors(c) ==
    {l \in {"de"} :
        /\ c[Append(Unit(l), "value")] # "absent"
        /\ c[Append(Unit("en"), "value")] # c[Append(Unit(l), "value")]}
=============================================================================
