--------------------------- MODULE SourceWorkflow ---------------------------
(***************************************************************************)
(* The draft, review and source-tracking operations of xcstrings-mcp over  *)
(* the two files they share: the catalog and its workflow sidecar.  Every  *)
(* operation reads the catalog, then the sidecar, plans on what it read,   *)
(* and commits through the store's guarded write; a synchronisation        *)
(* commits twice.  Operations of several processes interleave with each    *)
(* other and with an editor that takes no lock.                            *)
(***************************************************************************)
EXTENDS WorkflowPlan, Naturals

CONSTANTS
    Workers,
    ForeignStates,   \* the leaf states an editor or an XLIFF file brings
    UnguardedTools,  \* whether locale and key tools run beside the workflow
    MaxEdits         \* editor saves

ASSUME ForeignAssumption == ForeignStates \subseteq NativeStates
ASSUME SwitchAssumption == UnguardedTools \in BOOLEAN
ASSUME BoundAssumption == MaxEdits \in Nat

VARIABLES
    catalog,   \* the .xcstrings file
    sidecar,   \* the .xcstrings-mcp.json file
    job,       \* Workers -> the operation in progress and what it has read
    latest,    \* history: the source for which the present text was last accepted
    edits      \* editor saves so far

files == <<catalog, sidecar>>
vars == <<catalog, sidecar, job, latest, edits>>

(* catalog: it has read the catalog; loaded: both files; a SyncMode: it is *)
(* between the two phases of a synchronisation in that mode.               *)
SyncModes == {"review", "adopt_existing"}
Job == [pc : {"idle", "catalog", "loaded"} \cup SyncModes,
        file : XcStringsFile \cup {None},
        document : WorkflowDocument \cup {None}]
Idle == [pc |-> "idle", file |-> None, document |-> None]

ForeignLeaf == [text : Texts, state : ForeignStates]

TypeOK ==
    /\ catalog \in XcStringsFile
    /\ sidecar \in WorkflowDocument
    /\ job \in [Workers -> Job]
    /\ latest \in [Keys -> SourceSnapshot \cup {None}]
    /\ edits \in 0 .. MaxEdits

Init ==
    /\ catalog \in [Keys -> [source : Sources, leaf : ForeignLeaf \cup {None}]]
    /\ sidecar = Unwritten
    /\ job = [w \in Workers |-> Idle]
    /\ latest = [k \in Keys |-> None]
    /\ edits = 0

-----------------------------------------------------------------------------
(* CatalogSnapshot::load reads the files one after the other. *)
LoadCatalog(w) ==
    /\ job[w].pc = "idle"
    /\ job' = [job EXCEPT ![w] = [pc |-> "catalog", file |-> catalog, document |-> None]]
    /\ UNCHANGED <<files, latest, edits>>

LoadSidecar(w) ==
    /\ job[w].pc = "catalog"
    /\ job' = [job EXCEPT ![w] = [pc |-> "loaded", file |-> job[w].file, document |-> sidecar]]
    /\ UNCHANGED <<files, latest, edits>>

(* A rejected request, a dry run, a guard that fails, or a process that    *)
(* dies, also between the two phases of a synchronisation.                 *)
Abandon(w) ==
    /\ job[w].pc # "idle"
    /\ job' = [job EXCEPT ![w] = Idle]
    /\ UNCHANGED <<files, latest, edits>>

(* Mistake: the file being replaced is compared, the other input is not. *)
UnmovedTarget(w) == catalog = job[w].file

(* write_if_inputs_match, with both files at the bytes that were read. *)
Unmoved(w) == catalog = job[w].file /\ sidecar = job[w].document

Finish(w) == job' = [job EXCEPT ![w] = Idle]

WriteCatalog(w, candidate) ==
    /\ Unmoved(w)
    /\ catalog' = candidate
    /\ UNCHANGED <<sidecar, edits>>

WriteWorkflow(w, document) ==
    /\ Unmoved(w)
    /\ sidecar' = document
    /\ UNCHANGED <<catalog, edits>>

(* A batch addresses each leaf at most once; a duplicate is rejected. *)
Batches(Request) == UNION {[K -> Request] : K \in (SUBSET Keys) \ {{}}}

-----------------------------------------------------------------------------
(* A reviewer names the source and the draft they inspected. *)
ApprovalRequest == [source : SourceSnapshot, target : Leaf]

Approvable(file, document, k, request) ==
    /\ Present(file, k)
    /\ request.source = SnapshotOf(file, document, k)
    /\ request.target = file[k].leaf
    /\ Current(file, document, k)
    /\ DraftLeaf(file, k)

(* approve_translations: all of the batch or nothing. *)
Approve(w) ==
    LET file == job[w].file
        document == job[w].document
    IN  /\ job[w].pc = "loaded"
        /\ \E batch \in Batches(ApprovalRequest) :
            LET K == DOMAIN batch
            IN  /\ \A k \in K : Approvable(file, document, k, batch[k])
                /\ WriteCatalog(w, WithState(file, K, "translated"))
                /\ latest' = [k \in Keys |-> IF k \in K THEN batch[k].source ELSE latest[k]]
        /\ Finish(w)

Translation == [source : SourceSnapshot, text : Texts]

SourceMatches(file, document, k, request) ==
    Present(file, k) /\ request.source = SnapshotOf(file, document, k)

(* submit_translations: drafts only.  By default the requests that pass    *)
(* are written and the others reported.                                    *)
Submit(w) ==
    LET file == job[w].file
        document == job[w].document
    IN  /\ job[w].pc = "loaded"
        /\ \E batch \in Batches(Translation), continue_on_error \in BOOLEAN :
            LET K == {k \in DOMAIN batch : SourceMatches(file, document, k, batch[k])}
                Written(k) == [text |-> batch[k].text, state |-> "needs_review"]
            IN  /\ K # {}
                /\ continue_on_error \/ K = DOMAIN batch
                /\ WriteCatalog(w, [k \in Keys |->
                        IF k \in K THEN [file[k] EXCEPT !.leaf = Written(k)] ELSE file[k]])
                /\ latest' = [k \in Keys |-> IF k \in K THEN None ELSE latest[k]]
        /\ Finish(w)

XliffTarget == [source : SourceSnapshot, target : ForeignLeaf]

Importable(file, document, k, request) ==
    /\ SourceMatches(file, document, k, request)
    /\ request.target.state \in Ready => Current(file, document, k)

(* import_xliff: all of the selected scope or nothing; a ready target      *)
(* needs a current checkpoint.                                             *)
Import(w) ==
    LET file == job[w].file
        document == job[w].document
    IN  /\ job[w].pc = "loaded"
        /\ \E batch \in Batches(XliffTarget) :
            LET K == DOMAIN batch
                R == {k \in K : batch[k].target.state \in Ready}
            IN  /\ \A k \in K : Importable(file, document, k, batch[k])
                /\ WriteCatalog(w, [k \in Keys |->
                        IF k \in K THEN [file[k] EXCEPT !.leaf = batch[k].target] ELSE file[k]])
                /\ latest' = [k \in Keys |->
                        IF k \in R THEN batch[k].source ELSE IF k \in K THEN None ELSE latest[k]]
        /\ Finish(w)

(* update_context: the context of a key that is gone can only be removed. *)
UpdateContext(w) ==
    LET document == job[w].document
    IN  /\ job[w].pc = "loaded"
        /\ \E k \in Keys, c \in Contexts :
            /\ c # document.contexts[k]
            /\ Present(job[w].file, k) \/ c = NoContext
            /\ WriteWorkflow(w, [document EXCEPT !.contexts[k] = c])
        /\ Finish(w)
        /\ UNCHANGED latest

(* sync_source_changes, first phase.  The checkpoint is planned on the     *)
(* candidate before anything is written, and refused when a ready leaf     *)
(* would need review; the catalog is written only when a leaf is lowered.  *)
(* Existing states are adopted by the first checkpoint only.               *)
Synchronize(w) ==
    LET file == job[w].file
        document == job[w].document
    IN  /\ job[w].pc = "loaded"
        /\ CheckpointNeeded(file, document)
        /\ \E mode \in SyncModes :
            LET candidate == IF mode = "review" THEN Invalidation(file, document) ELSE file
            IN  /\ mode = "adopt_existing" => ~Initialized(document)
                /\ mode = "review" => ToLower(candidate, document) = {}
                /\ IF candidate = file THEN UNCHANGED <<files, edits>>
                   ELSE WriteCatalog(w, candidate)
                /\ job' = [job EXCEPT ![w] = [pc |-> mode, file |-> candidate, document |-> document]]
        /\ UNCHANGED latest

(* Second phase: the checkpoint, guarded by the catalog of the first.      *)
(* Adopting is an acceptance of the ready leaves as they are.              *)
WriteCheckpoint(w) ==
    LET file == job[w].file
        document == job[w].document
        adopted == IF job[w].pc = "adopt_existing" THEN ToLower(file, document) ELSE {}
    IN  /\ job[w].pc \in SyncModes
        /\ WriteWorkflow(w, Checkpoint(file, document))
        /\ latest' = [k \in Keys |->
                IF k \in adopted THEN SnapshotOf(file, document, k) ELSE latest[k]]
        /\ Finish(w)

(* A locale tool at work on another locale: the catalog is read and later  *)
(* written back whole by the unconditional write, whatever it holds then.  *)
AddLocale(w) ==
    /\ UnguardedTools
    /\ job[w].pc = "catalog"
    /\ catalog' = job[w].file
    /\ Finish(w)
    /\ UNCHANGED <<sidecar, latest, edits>>

-----------------------------------------------------------------------------
(* Xcode or a person saves the catalog: a source, a leaf, a key.  A ready  *)
(* state authored there is trusted against the checkpoint there is.        *)
LeafOf(k) == IF Present(catalog, k) THEN catalog[k].leaf ELSE None

Trusted(k, leaf) ==
    IF leaf # None /\ leaf.state \in Ready THEN BaselineOf(sidecar, k) ELSE None

EditEntry(k, source, leaf) ==
    /\ catalog' = [catalog EXCEPT ![k] = [source |-> source, leaf |-> leaf]]
    /\ latest' = IF leaf = LeafOf(k) THEN latest
                 ELSE [latest EXCEPT ![k] = Trusted(k, leaf)]

RemoveEntry(k) ==
    /\ catalog' = [catalog EXCEPT ![k] = None]
    /\ latest' = [latest EXCEPT ![k] = None]

DeveloperEdit ==
    /\ edits < MaxEdits
    /\ edits' = edits + 1
    /\ \E k \in Keys :
        \/ RemoveEntry(k)
        \/ \E source \in Sources, leaf \in ForeignLeaf \cup {None, LeafOf(k)} :
            EditEntry(k, source, leaf)
    /\ UNCHANGED <<sidecar, job>>

Next ==
    \/ \E w \in Workers :
        \/ LoadCatalog(w) \/ LoadSidecar(w) \/ Abandon(w)
        \/ Approve(w) \/ Submit(w) \/ Import(w) \/ UpdateContext(w)
        \/ Synchronize(w) \/ WriteCheckpoint(w) \/ AddLocale(w)
    \/ DeveloperEdit

Spec == Init /\ [][Next]_vars

-----------------------------------------------------------------------------
(* What reads report as ready under initialised tracking was accepted for  *)
(* exactly the source and context there are now: no interleaving of drafts,*)
(* approvals, imports, context edits and half-finished synchronisations    *)
(* lets a translation made for another source count (CHANGELOG.md:13,33).  *)
ReadyIsAccepted ==
    \A k \in Keys :
        Initialized(sidecar) /\ EffectivelyReady(catalog, sidecar, k)
            => latest[k] = SnapshotOf(catalog, sidecar, k)

(* Without the unguarded tools the operations act as if each happened at   *)
(* once, on the files at its commit: what was read one after the other and *)
(* planned before others came in between, also the checkpoint that a       *)
(* synchronisation plans before it lowers anything, is what the operation  *)
(* would have made of the files it then found.                             *)
Atomic == INSTANCE AtomicWorkflow
ActsAtomically == Atomic!Spec

(* From every state, also the ones a synchronisation that stopped half-way *)
(* leaves behind, one full synchronisation reaches a fixed point.          *)
SyncRepairs ==
    LET file == Invalidation(catalog, sidecar)
        document == Checkpoint(file, sidecar)
    IN  ToLower(file, document) = {} /\ ~CheckpointNeeded(file, document)

PendingApplies(k) ==
    sidecar.pending_review[k] # None /\ Applicable(catalog, k, sidecar.pending_review[k])

(* While a draft keeps its text, no later synchronisation replaces the     *)
(* origin its evidence started from.                                       *)
EarliestOriginKept ==
    [][\A k \in Keys : PendingApplies(k) /\ PendingApplies(k)' =>
        sidecar'.pending_review[k].old_source = sidecar.pending_review[k].old_source]_vars

(* A draft whose present text was last accepted for another source than    *)
(* the checkpoint's has a review record: lowering, checkpoints of other    *)
(* keys and context edits never lose it.                                   *)
EvidenceSurvives ==
    \A k \in Keys :
        /\ Initialized(sidecar)
        /\ Current(catalog, sidecar, k)
        /\ DraftLeaf(catalog, k)
        /\ latest[k] \notin {None, SnapshotOf(catalog, sidecar, k)}
        => PendingApplies(k)

(* That record names the source the text was last accepted for: the test   *)
(* repeat_checkpoint_is_idempotent_and_approval_resolves_matching_evidence *)
(* (src/tests/workflow_checkpoint.rs:178) has approval resolve evidence.   *)
EvidenceNamesApprovedSource ==
    \A k \in Keys :
        /\ Current(catalog, sidecar, k)
        /\ PendingApplies(k)
        /\ latest[k] \notin {None, SnapshotOf(catalog, sidecar, k)}
        => sidecar.pending_review[k].old_source = latest[k]
=============================================================================
