--------------------------- MODULE MCAtomicWrite ---------------------------
(***************************************************************************)
(* Instances of AtomicWrite: a catalog, its workflow sidecar and a second  *)
(* spelling of the catalog's name on a case-insensitive volume.            *)
(***************************************************************************)
EXTENDS AtomicWrite

CONSTANTS catalog, sidecar, alias, p1, p2, old, new

MCPaths == {catalog, sidecar, alias}
MCEntry == [p \in MCPaths |-> IF p = sidecar THEN 2 ELSE 1]
MCContents == {old, new}
MCCallers == {p1, p2}

Input(p, b) == [path |-> p, expected |-> b]
Plain(t, c, b) == [target |-> t, content |-> c, expected |-> b, inputs |-> {}]
Guarded(t, c, b, i) == [target |-> t, content |-> c, expected |-> b, inputs |-> {i}]

(* write: locale and key edits, CLI saves; write_if_matches: exports,      *)
(* merges and the glossary; write_if_inputs_match: submissions, approvals, *)
(* imports and both phases of a source synchronisation.                    *)
PlainRequests == {Plain(t, new, b) : t \in {catalog, alias}, b \in {Any, Absent, old}}
WriteCatalog == {Guarded(catalog, c, old, Input(sidecar, b)) : c \in {new}, b \in MCContents \cup {Absent}}
WriteWorkflow == {Guarded(sidecar, new, b, Input(catalog, c)) : b \in {old, Absent}, c \in MCContents}
AliasedInput == {Guarded(catalog, new, old, Input(alias, old))}

MCRequests == PlainRequests \cup WriteCatalog \cup WriteWorkflow \cup AliasedInput
FewRequests == {Plain(alias, old, Any), Plain(catalog, new, old),
                Guarded(catalog, new, old, Input(sidecar, old)),
                Guarded(sidecar, new, old, Input(catalog, old)),
                Guarded(catalog, new, old, Input(alias, old))}
=============================================================================
