---------------------------- MODULE WorkflowPlan ----------------------------
(***************************************************************************)
(* The pure planning functions of src/src/service/workflow: how a catalog  *)
(* and its workflow sidecar are read together, which translations a source *)
(* synchronisation lowers and what the next checkpoint records.            *)
(*                                                                         *)
(* The catalog is seen through one locale with one leaf per key.  A source *)
(* is everything a source snapshot takes from the catalog; a text is all   *)
(* of a leaf that its content version covers.                              *)
(***************************************************************************)
CONSTANTS
    Keys,
    Sources,
    Contexts,     \* authored contexts, NoContext for a key without one
    NoContext,
    Texts,
    None          \* an absent key, leaf, baseline or record

NativeStates == {"new", "needs_review", "translated", "machine_translated", "stale"}
Ready == {"translated", "machine_translated"}
Draft == {"new", "needs_review"}

Leaf == [text : Texts, state : NativeStates]
StringEntry == [source : Sources, leaf : Leaf \cup {None}]
XcStringsFile == [Keys -> StringEntry \cup {None}]

SourceSnapshot == [source : Sources, context : Contexts]
PendingReview == [old_source : SourceSnapshot \cup {None},
                  new_source : SourceSnapshot, text : Texts]
SourceBaseline == [Keys -> SourceSnapshot \cup {None}]

(* One file; an absent file reads as Unwritten. *)
WorkflowDocument == [source_baseline : SourceBaseline \cup {None},
                     contexts : [Keys -> Contexts],
                     pending_review : [Keys -> PendingReview \cup {None}]]

Unwritten == [source_baseline |-> None,
              contexts |-> [k \in Keys |-> NoContext],
              pending_review |-> [k \in Keys |-> None]]

ASSUME NoneAssumption ==
    None \notin StringEntry \cup Leaf \cup SourceSnapshot \cup PendingReview \cup SourceBaseline
ASSUME ContextAssumption == NoContext \in Contexts

-----------------------------------------------------------------------------
Present(file, k) == file[k] # None
HasLeaf(file, k) == Present(file, k) /\ file[k].leaf # None
ReadyLeaf(file, k) == HasLeaf(file, k) /\ file[k].leaf.state \in Ready
DraftLeaf(file, k) == HasLeaf(file, k) /\ file[k].leaf.state \in Draft

SnapshotOf(file, document, k) ==
    [source |-> file[k].source, context |-> document.contexts[k]]

Initialized(document) == document.source_baseline # None
BaselineOf(document, k) ==
    IF Initialized(document) THEN document.source_baseline[k] ELSE None

(* inspect: a key without a baseline is Untracked, one whose baseline is   *)
(* another snapshot is SourceChanged.                                      *)
Current(file, document, k) ==
    /\ Present(file, k)
    /\ BaselineOf(document, k) = SnapshotOf(file, document, k)
Affected(file, document) ==
    {k \in Keys : Present(file, k) /\ ~Current(file, document, k)}

(* The overlay that reads report: once tracking is initialised, a ready    *)
(* leaf counts only while its source is the one the checkpoint names.      *)
EffectivelyReady(file, document, k) ==
    /\ ReadyLeaf(file, k)
    /\ Initialized(document) => Current(file, document, k)

-----------------------------------------------------------------------------
WithState(file, K, state) ==
    [k \in Keys |-> IF k \in K THEN [file[k] EXCEPT !.leaf.state = state] ELSE file[k]]

(* plan_source_sync in review mode: the affected ready leaves lose their   *)
(* state and keep their text.                                              *)
ToLower(file, document) == {k \in Affected(file, document) : ReadyLeaf(file, k)}
Invalidation(file, document) == WithState(file, ToLower(file, document), "needs_review")

(* A record is evidence for exactly the draft whose text it was made for. *)
Applicable(file, k, record) ==
    /\ HasLeaf(file, k)
    /\ ~ReadyLeaf(file, k)
    /\ record.text = file[k].leaf.text

Snapshots(file, document) ==
    [k \in Keys |-> IF Present(file, k) THEN SnapshotOf(file, document, k) ELSE None]

CheckpointNeeded(file, document) ==
    \/ document.source_baseline # Snapshots(file, document)
    \/ \E k \in Keys :
        LET record == document.pending_review[k]
        IN  record # None /\ ~Applicable(file, k, record)

(* Mistake: records of accepted or rewritten drafts are not pruned. *)
KeptAlways(file, document, k) == document.pending_review[k]

(* plan_checkpoint: a record that still applies keeps the origin it was    *)
(* made with, a draft newly affected gets the baseline as its origin.      *)
Kept(file, document, k) ==
    LET record == document.pending_review[k]
    IN  IF record # None /\ Applicable(file, k, record) THEN record ELSE None

(* Mistake: every source change restarts the evidence. *)
OriginRestarted(file, document, k) == BaselineOf(document, k)

Origin(file, document, k) ==
    LET kept == Kept(file, document, k)
    IN  IF kept # None THEN kept.old_source ELSE BaselineOf(document, k)

NewRecord(file, document, k) ==
    [old_source |-> Origin(file, document, k),
     new_source |-> SnapshotOf(file, document, k),
     text |-> file[k].leaf.text]

(* Mistake: a checkpoint keeps the records of this change only. *)
EvidenceOfThisChange(file, document, k) ==
    IF k \in Affected(file, document) /\ HasLeaf(file, k) /\ ~ReadyLeaf(file, k)
    THEN NewRecord(file, document, k)
    ELSE None

Evidence(file, document, k) ==
    IF k \in Affected(file, document) /\ HasLeaf(file, k) /\ ~ReadyLeaf(file, k)
    THEN NewRecord(file, document, k)
    ELSE Kept(file, document, k)

Checkpoint(file, document) ==
    [document EXCEPT
        !.source_baseline = Snapshots(file, document),
        !.pending_review = [k \in Keys |-> Evidence(file, document, k)]]
=============================================================================
