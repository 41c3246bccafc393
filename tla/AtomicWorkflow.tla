--------------------------- MODULE AtomicWorkflow ---------------------------
(***************************************************************************)
(* What the workflow operations promise to all who share the catalog and   *)
(* its sidecar: each is one indivisible step on both files as they are at  *)
(* that moment.  Nobody reads, plans or waits here.  A synchronisation is  *)
(* two such steps, of which the second may fail to come.                   *)
(***************************************************************************)
EXTENDS WorkflowPlan, Naturals

CONSTANT ForeignStates   \* the leaf states an editor or an XLIFF file brings

VARIABLES
    catalog,   \* the .xcstrings file
    sidecar,   \* the .xcstrings-mcp.json file
    edits      \* how often an editor has saved the catalog

vars == <<catalog, sidecar, edits>>

ForeignLeaf == [text : Texts, state : ForeignStates]

Init ==
    /\ catalog \in [Keys -> [source : Sources, leaf : ForeignLeaf \cup {None}]]
    /\ sidecar = Unwritten
    /\ edits = 0

WithLeaves(file, leaves) ==
    [k \in Keys |-> IF k \in DOMAIN leaves THEN [file[k] EXCEPT !.leaf = leaves[k]] ELSE file[k]]

Some == (SUBSET Keys) \ {{}}

(* Drafts of sources that the checkpoint names become ready.               *)
Approve ==
    \E K \in Some :
        /\ \A k \in K : Current(catalog, sidecar, k) /\ DraftLeaf(catalog, k)
        /\ catalog' = WithState(catalog, K, "translated")
        /\ UNCHANGED <<sidecar, edits>>

(* New texts are drafts.                                                   *)
Submit ==
    \E K \in Some : \E leaves \in [K -> [text : Texts, state : {"needs_review"}]] :
        /\ \A k \in K : Present(catalog, k)
        /\ catalog' = WithLeaves(catalog, leaves)
        /\ UNCHANGED <<sidecar, edits>>

(* A leaf of an imported document is ready only where approval could make  *)
(* it so.                                                                  *)
Import ==
    \E K \in Some : \E leaves \in [K -> ForeignLeaf] :
        /\ \A k \in K : Present(catalog, k) /\
                (leaves[k].state \in Ready => Current(catalog, sidecar, k))
        /\ catalog' = WithLeaves(catalog, leaves)
        /\ UNCHANGED <<sidecar, edits>>

UpdateContext ==
    \E k \in Keys, c \in Contexts :
        /\ Present(catalog, k) \/ c = NoContext
        /\ sidecar' = [sidecar EXCEPT !.contexts[k] = c]
        /\ UNCHANGED <<catalog, edits>>

Lower ==
    /\ CheckpointNeeded(catalog, sidecar)
    /\ catalog' = Invalidation(catalog, sidecar)
    /\ UNCHANGED <<sidecar, edits>>

(* No checkpoint is taken over a ready leaf of another source than the     *)
(* last one's; the first may adopt what there is.                          *)
TakeCheckpoint ==
    /\ CheckpointNeeded(catalog, sidecar)
    /\ ToLower(catalog, sidecar) = {} \/ ~Initialized(sidecar)
    /\ sidecar' = Checkpoint(catalog, sidecar)
    /\ UNCHANGED <<catalog, edits>>

LeafOf(k) == IF Present(catalog, k) THEN catalog[k].leaf ELSE None

(* Whoever saves the catalog by other means may bring anything.            *)
Edit ==
    /\ edits' = edits + 1
    /\ \E k \in Keys :
        \E entry \in {None} \cup [source : Sources, leaf : ForeignLeaf \cup {None, LeafOf(k)}] :
            catalog' = [catalog EXCEPT ![k] = entry]
    /\ UNCHANGED sidecar

Next ==
    \/ Approve \/ Submit \/ Import \/ UpdateContext
    \/ Lower \/ TakeCheckpoint
    \/ Edit

Spec == Init /\ [][Next]_vars
=============================================================================
