--------------------------- MODULE SemanticMerge ---------------------------
(***************************************************************************)
(* The three-way merge of complete catalogs (service/semantic_merge.rs and *)
(* service/semantic_merge/engine.rs).  A catalog is a JSON tree: a         *)
(* function from pointers, the sequences of field names from the root, to  *)
(* Object, to the member of Atoms found there, or to Absent.  Key order    *)
(* inside an object is layout and is left out.                             *)
(*                                                                         *)
(* The engine's recursion is stated without recursion: it goes on below a  *)
(* node while the node Descends, and answers for the whole subtree at the  *)
(* first node that does not.  MergeEngine holds the recursion itself.      *)
(***************************************************************************)
EXTENDS Naturals, SequencesExt

CONSTANTS Pointers, Atoms, Object, Absent

Values == Atoms \cup {Object, Absent}
Root == <<>>

ASSUME PointersAssumption ==
    /\ Pointers \subseteq Seq(STRING)
    /\ Root \in Pointers
    /\ \A p \in Pointers : p # Root => Front(p) \in Pointers
ASSUME ValuesAssumption == Object \notin Atoms /\ Absent \notin Atoms /\ Object # Absent

Above == [q \in Pointers |-> {p \in Pointers : IsPrefix(p, q)}]
Under == [p \in Pointers |-> {q \in Pointers : IsPrefix(p, q)}]
StrictlyAbove == [q \in Pointers |-> {p \in Above[q] : Len(p) < Len(q)}]

(* Only objects have fields, and a catalog is an object.                   *)
Catalogs ==
    {c \in [Pointers -> Values] :
        /\ c[Root] = Object
        /\ \A p \in Pointers : p # Root /\ c[p] # Absent => c[Front(p)] = Object}

Triples == [base : Catalogs, current : Catalogs, incoming : Catalogs]

(***************************************************************************)
(* NodeKind: which objects the engine knows as maps.  What it does not     *)
(* know, and every stringUnit, is atomic.                                  *)
(***************************************************************************)
ChildKind(parent, field) ==
    CASE parent = "Root" /\ field = "strings" -> "Strings"
      [] parent = "Root" /\ field = "version" -> "Scalar"
      [] parent = "Strings" -> "StringEntry"
      [] parent = "StringEntry" /\ field = "localizations" -> "Localizations"
      [] parent = "Localizations" -> "Localization"
      [] parent \in {"Localization", "Substitution"} /\ field = "variations" -> "Variations"
      [] parent = "Localization" /\ field = "substitutions" -> "Substitutions"
      [] parent = "Variations" /\ field = "plural" -> "Plural"
      [] parent = "Variations" /\ field = "device" -> "Device"
      [] parent \in {"Plural", "Device"} -> "Localization"
      [] parent = "Substitutions" -> "Substitution"
      [] OTHER -> "Atomic"

Kind[p \in Pointers] == IF p = Root THEN "Root" ELSE ChildKind(Kind[Front(p)], Last(p))

AtomicNodes == {p \in Pointers \ {Root} : Kind[p] = "Atomic"}

(* Equality of two optional subtrees.                                      *)
Same(x, y, p) == \A q \in Under[p] : x[q] = y[q]

AllObjects(m, p) == m.base[p] = Object /\ m.current[p] = Object /\ m.incoming[p] = Object

AllDiffer(m, p) ==
    /\ ~Same(m.current, m.incoming, p)
    /\ ~Same(m.current, m.base, p)
    /\ ~Same(m.incoming, m.base, p)

(* Mistake: the fields of an atomic node are merged too.                   *)
DescendsIntoAll(m, p) == p = Root \/ (AllDiffer(m, p) /\ AllObjects(m, p))

(* merge_node goes on with the fields; merge_root always does.             *)
Descends(m, p) ==
    \/ p = Root
    \/ AllDiffer(m, p) /\ AllObjects(m, p) /\ p \notin AtomicNodes

(* Where merge_node returns without going on: everything above descends.   *)
Settled(m) ==
    LET descending == {p \in Pointers : Descends(m, p)}
    IN  {p \in Pointers \ descending : StrictlyAbove[p] \subseteq descending}

ConflictPointers(m) == {p \in Settled(m) : AllDiffer(m, p)}

ConflictKind(m, p) ==
    CASE m.base[p] = Absent -> "divergent_add"
      [] m.base[p] # Absent /\ Absent \in {m.current[p], m.incoming[p]} -> "delete_modify"
      [] Absent \notin {m.base[p], m.current[p], m.incoming[p]} ->
            IF p \in AtomicNodes THEN "atomic_divergence" ELSE "scalar_divergence"

(* A conflict's identity is its place and its kind, not the values.        *)
ConflictId(m, p) == <<p, ConflictKind(m, p)>>
ConflictIds(m) == {ConflictId(m, p) : p \in ConflictPointers(m)}

(***************************************************************************)
(* Resolutions are a partial function from conflict identities to the side *)
(* that wins.  Without one the merge answers with the base.                *)
(***************************************************************************)
Choice == {"current", "incoming", "base"}

NoResolutions == [id \in {} |-> "base"]

(* Mistake: without a resolution the current side wins.                    *)
ChoiceOrCurrent(m, r, p) ==
    IF ConflictId(m, p) \in DOMAIN r THEN r[ConflictId(m, p)] ELSE "current"

ChoiceFor(m, r, p) ==
    IF ConflictId(m, p) \in DOMAIN r THEN r[ConflictId(m, p)] ELSE "base"

(* Mistake: the side that did not change wins.                             *)
UnchangedSide(m, r, p) ==
    IF Same(m.current, m.incoming, p) THEN "current"
    ELSE IF Same(m.current, m.base, p) THEN "current"
    ELSE IF Same(m.incoming, m.base, p) THEN "incoming"
    ELSE ChoiceFor(m, r, p)

(* Mistake: that both sides made the same edit is not noticed.             *)
SideUnlessAgreed(m, r, p) ==
    IF Same(m.current, m.base, p) THEN "incoming"
    ELSE IF Same(m.incoming, m.base, p) THEN "current"
    ELSE ChoiceFor(m, r, p)

(* Which side merge_node returns for the whole subtree of a settled node.  *)
Side(m, r, p) ==
    IF Same(m.current, m.incoming, p) THEN "current"
    ELSE IF Same(m.current, m.base, p) THEN "incoming"
    ELSE IF Same(m.incoming, m.base, p) THEN "current"
    ELSE ChoiceFor(m, r, p)

Winner(m, r, p) == m[Side(m, r, p)]

(* Mistake: each place is merged for itself.                               *)
MergePlaces(m, r) ==
    [q \in Pointers |->
        IF m.current[q] = m.base[q] THEN m.incoming[q] ELSE m.current[q]]

Merge(m, r) ==
    LET settled == Settled(m)
    IN  [q \in Pointers |->
            IF Above[q] \cap settled = {} THEN Object
            ELSE Winner(m, r, CHOOSE p \in Above[q] \cap settled : TRUE)[q]]

Unresolved(m, r) == {p \in ConflictPointers(m) : ConflictId(m, p) \notin DOMAIN r}

(* A resolution for a conflict the merge did not meet is refused.          *)
NoneUnused(m, r) == DOMAIN r \subseteq ConflictIds(m)

(* validate_source_languages                                               *)
Language == <<"sourceLanguage">>
SameLanguage(m) ==
    /\ Language \in Pointers
    /\ m.base[Language] \in Atoms
    /\ m.base[Language] = m.current[Language]
    /\ m.base[Language] = m.incoming[Language]

Mergeable(m, r) == SameLanguage(m) /\ NoneUnused(m, r)
=============================================================================
