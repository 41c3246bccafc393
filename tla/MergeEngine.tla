---------------------------- MODULE MergeEngine ----------------------------
(***************************************************************************)
(* The recursion of service/semantic_merge/engine.rs: what merge_root,     *)
(* merge_object, merge_node and resolve_conflict return, as the subtree    *)
(* they build and the conflicts they push.  The calls they make are those  *)
(* of a recursive function, `below`, from places to what merge_node        *)
(* returns for them.                                                       *)
(***************************************************************************)
EXTENDS SemanticMerge

(* The documents were parsed, so they have a deepest place; the recursion  *)
(* ends.                                                                   *)
ASSUME DepthAssumption == \E p \in Pointers : \A q \in Pointers : Len(q) <= Len(p)

(* A subtree is the set of its places, each with what stands there.        *)
Places(c, p) == {<<q, c[q]>> : q \in {u \in Under[p] : c[u] # Absent}}

Taken(c, p) == [tree |-> Places(c, p), conflicts |-> {}]

ResolveConflict(m, r, p) ==
    [Taken(m[ChoiceFor(m, r, p)], p) EXCEPT !.conflicts = {ConflictId(m, p)}]

(* The fields of current, then those only incoming has.                    *)
Fields(m, p) ==
    {f \in Pointers :
        f # Root /\ Front(f) = p /\ (m.current[f] # Absent \/ m.incoming[f] # Absent)}

MergeObject(m, p, below) ==
    LET merged == {below[f] : f \in Fields(m, p)}
    IN  [tree |-> {<<p, Object>>} \cup UNION {field.tree : field \in merged},
         conflicts |-> UNION {field.conflicts : field \in merged}]

(* Mistake: what only incoming removed is kept.                            *)
MergeNodeKeeping(m, r, p, below) ==
    IF Same(m.current, m.incoming, p) \/ m.incoming[p] = Absent THEN Taken(m.current, p)
    ELSE IF Same(m.current, m.base, p) THEN Taken(m.incoming, p)
    ELSE IF Same(m.incoming, m.base, p) THEN Taken(m.current, p)
    ELSE IF AllObjects(m, p) /\ p \notin AtomicNodes THEN MergeObject(m, p, below)
    ELSE ResolveConflict(m, r, p)

MergeNode(m, r, p, below) ==
    IF Same(m.current, m.incoming, p) THEN Taken(m.current, p)
    ELSE IF Same(m.current, m.base, p) THEN Taken(m.incoming, p)
    ELSE IF Same(m.incoming, m.base, p) THEN Taken(m.current, p)
    ELSE IF AllObjects(m, p) /\ p \notin AtomicNodes THEN MergeObject(m, p, below)
    ELSE ResolveConflict(m, r, p)

Engine(m, r) ==
    LET node[p \in Pointers] == MergeNode(m, r, p, node)
    IN  node

MergeRoot(m, r) == MergeObject(m, Root, Engine(m, r))
=============================================================================
