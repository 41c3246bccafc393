------------------------ MODULE SourceWorkflowProofs ------------------------
(***************************************************************************)
(* Theorems about SourceWorkflow and its ReviewQueue, for every set of     *)
(* keys, sources, contexts, texts and workers: the types, that a           *)
(* translation which counts as ready was accepted for the source and       *)
(* context there are, that a synchronisation repairs whatever another one  *)
(* left behind, that the evidence for a draft is not lost and keeps its    *)
(* origin; that the pages of the review queue make up one queue, and that  *)
(* an empty one means that every translation there is is ready.            *)
(***************************************************************************)
EXTENDS ReviewQueue, SequenceTheorems, WellFoundedInduction, TLAPS

(* What an operation holds after its reads. *)
JobRead(w) ==
    /\ job[w].pc # "idle" => job[w].file \in XcStringsFile
    /\ job[w].pc \in {"loaded"} \cup SyncModes => job[w].document \in WorkflowDocument

(* What a synchronisation has planned holds of the files it planned it on: *)
(* after a review no ready leaf is left to be lowered, and only the first  *)
(* checkpoint adopts any.                                                  *)
JobPlanned(w) ==
    job[w].pc \in SyncModes =>
        /\ CheckpointNeeded(job[w].file, job[w].document)
        /\ job[w].pc = "review" => ToLower(job[w].file, job[w].document) = {}
        /\ job[w].pc = "adopt_existing" => ~Initialized(job[w].document)

JobOK(w) == JobRead(w) /\ JobPlanned(w)

(* The part that holds whatever tools run.                                 *)
WellTyped == TypeOK /\ \A w \in Workers : JobOK(w)

(* The strengthening: a ready leaf was accepted for the source of the      *)
(* checkpoint, also while the source there is now is another.              *)
AcceptedAt(k) ==
    ReadyLeaf(catalog, k) /\ BaselineOf(sidecar, k) # None
        => latest[k] = BaselineOf(sidecar, k)

IInv == WellTyped /\ \A k \in Keys : AcceptedAt(k)

-----------------------------------------------------------------------------
(* Types of what the planning functions return. *)
LEMMA NoneIsNew ==
    None \notin StringEntry /\ None \notin Leaf /\ None \notin SourceSnapshot
    /\ None \notin PendingReview /\ None \notin SourceBaseline
BY NoneAssumption

(* The source of a key that is there is a snapshot.                        *)
LEMMA SnapshotType ==
    ASSUME NEW file \in XcStringsFile, NEW document \in WorkflowDocument,
           NEW k \in Keys, Present(file, k)
    PROVE  SnapshotOf(file, document, k) \in SourceSnapshot
BY DEF SnapshotOf, Present, XcStringsFile, StringEntry, WorkflowDocument, SourceSnapshot

(* A key has one snapshot in the checkpoint, or none.                      *)
LEMMA BaselineType ==
    ASSUME NEW document \in WorkflowDocument, NEW k \in Keys
    PROVE  BaselineOf(document, k) \in SourceSnapshot \cup {None}
BY DEF BaselineOf, Initialized, WorkflowDocument, SourceBaseline

(* A leaf that is there is in an entry and has a text.                     *)
LEMMA LeafType ==
    ASSUME NEW file \in XcStringsFile, NEW k \in Keys, HasLeaf(file, k)
    PROVE  /\ file[k] \in StringEntry
           /\ file[k].leaf \in Leaf
           /\ file[k].leaf.text \in Texts
BY DEF HasLeaf, Present, XcStringsFile, StringEntry, Leaf

(* Setting the state of leaves that are there gives a catalog.             *)
LEMMA WithStateType ==
    ASSUME NEW file \in XcStringsFile, NEW K \in SUBSET Keys, NEW state \in NativeStates,
           \A k \in K : HasLeaf(file, k)
    PROVE  WithState(file, K, state) \in XcStringsFile
<1>1. ASSUME NEW k \in K
      PROVE  [file[k] EXCEPT !.leaf.state = state] \in StringEntry
  BY <1>1, LeafType DEF StringEntry, Leaf
<1> QED BY <1>1 DEF WithState, XcStringsFile

(* So does lowering.                                                       *)
LEMMA InvalidationType ==
    ASSUME NEW file \in XcStringsFile, NEW document
    PROVE  Invalidation(file, document) \in XcStringsFile
BY WithStateType DEF Invalidation, ToLower, Affected, ReadyLeaf, NativeStates

(* Lowering is complete: it leaves no affected leaf ready. *)
LEMMA LoweringCompletes ==
    ASSUME NEW file \in XcStringsFile, NEW document
    PROVE  ToLower(Invalidation(file, document), document) = {}
<1> DEFINE candidate == Invalidation(file, document)
<1>1. SUFFICES ASSUME NEW k \in ToLower(candidate, document) PROVE FALSE
  OBVIOUS
<1>2. k \in Keys /\ ReadyLeaf(candidate, k) /\ ~Current(candidate, document, k)
  BY <1>1 DEF ToLower, Affected
<1>3. CASE k \in ToLower(file, document)
  <2>1. HasLeaf(file, k) BY <1>3 DEF ToLower, ReadyLeaf
  <2>2. file[k] \in StringEntry /\ file[k].leaf \in Leaf BY <1>2, <2>1, LeafType
  <2>3. candidate[k] = [file[k] EXCEPT !.leaf.state = "needs_review"]
    BY <1>2, <1>3 DEF Invalidation, WithState
  <2>4. candidate[k].leaf.state = "needs_review"
    BY <2>2, <2>3 DEF StringEntry, Leaf
  <2> QED BY <1>2, <2>4 DEF ReadyLeaf, Ready
<1>4. CASE k \notin ToLower(file, document)
  <2>1. candidate[k] = file[k] BY <1>2, <1>4 DEF Invalidation, WithState
  <2> QED BY <1>2, <1>4, <2>1 DEF ToLower, Affected, ReadyLeaf, HasLeaf, Present,
                                  Current, SnapshotOf
<1> QED BY <1>3, <1>4

(* A record that is kept is a record.                                      *)
LEMMA KeptType ==
    ASSUME NEW file, NEW document \in WorkflowDocument, NEW k \in Keys
    PROVE  Kept(file, document, k) \in PendingReview \cup {None}
BY DEF Kept, WorkflowDocument

(* A new record names a source that is there and a text of the catalog.    *)
LEMMA EvidenceType ==
    ASSUME NEW file \in XcStringsFile, NEW document \in WorkflowDocument, NEW k \in Keys
    PROVE  Evidence(file, document, k) \in PendingReview \cup {None}
<1>1. CASE HasLeaf(file, k)
  <2>1. Origin(file, document, k) \in SourceSnapshot \cup {None}
    BY KeptType, BaselineType DEF Origin, PendingReview
  <2>2. SnapshotOf(file, document, k) \in SourceSnapshot
    BY <1>1, SnapshotType DEF HasLeaf
  <2>3. file[k].leaf.text \in Texts BY <1>1, LeafType
  <2>4. NewRecord(file, document, k) \in PendingReview
    BY <2>1, <2>2, <2>3 DEF NewRecord, PendingReview
  <2> QED BY <2>4, KeptType DEF Evidence
<1>2. CASE ~HasLeaf(file, k)
  BY <1>2, KeptType DEF Evidence
<1> QED BY <1>1, <1>2

(* A checkpoint is a sidecar that names the source of every key.           *)
LEMMA CheckpointType ==
    ASSUME NEW file \in XcStringsFile, NEW document \in WorkflowDocument
    PROVE  /\ Checkpoint(file, document) \in WorkflowDocument
           /\ Checkpoint(file, document).source_baseline = Snapshots(file, document)
<1>1. Snapshots(file, document) \in SourceBaseline
  BY SnapshotType DEF Snapshots, SourceBaseline
<1>2. [k \in Keys |-> Evidence(file, document, k)] \in [Keys -> PendingReview \cup {None}]
  BY EvidenceType
<1> QED BY <1>1, <1>2 DEF Checkpoint, WorkflowDocument

(* Lowering changes no source, and no record that it touches.              *)
LEMMA StillNeeded ==
    ASSUME NEW file \in XcStringsFile, NEW document \in WorkflowDocument,
           CheckpointNeeded(file, document)
    PROVE  CheckpointNeeded(Invalidation(file, document), document)
<1> DEFINE candidate == Invalidation(file, document)
<1>1. /\ \A k \in Keys \ ToLower(file, document) : candidate[k] = file[k]
      /\ \A k \in ToLower(file, document) :
            Present(candidate, k) /\ Present(file, k) /\ candidate[k].source = file[k].source
  <2>1. ASSUME NEW k \in ToLower(file, document)
        PROVE  Present(candidate, k) /\ Present(file, k) /\ candidate[k].source = file[k].source
    <3>1. k \in Keys /\ HasLeaf(file, k)
      BY DEF ToLower, Affected, ReadyLeaf
    <3>2. file[k] \in StringEntry /\ file[k].leaf \in Leaf
      BY <3>1, LeafType
    <3>3. candidate[k] = [file[k] EXCEPT !.leaf.state = "needs_review"]
      BY <3>1 DEF Invalidation, WithState
    <3>4. candidate[k] \in StringEntry /\ candidate[k].source = file[k].source
      BY <3>2, <3>3 DEF StringEntry, Leaf, NativeStates
    <3> QED BY <3>1, <3>4, NoneIsNew DEF Present, HasLeaf
  <2> QED BY <2>1 DEF Invalidation, WithState
<1> HIDE DEF candidate
<1>2. Snapshots(candidate, document) = Snapshots(file, document)
  <2>1. ASSUME NEW k \in Keys
        PROVE  (Present(candidate, k) <=> Present(file, k))
               /\ SnapshotOf(candidate, document, k) = SnapshotOf(file, document, k)
    BY <1>1 DEF Present, SnapshotOf
  <2> QED BY <2>1 DEF Snapshots
<1>3. CASE document.source_baseline # Snapshots(file, document)
  BY <1>2, <1>3 DEF CheckpointNeeded, candidate
<1>4. CASE document.source_baseline = Snapshots(file, document)
  <2>1. Snapshots(file, document) # None
    BY NoneIsNew, SnapshotType DEF Snapshots, SourceBaseline
  <2>2. ToLower(file, document) = {}
    BY <1>4, <2>1 DEF ToLower, Affected, Current, BaselineOf, Initialized, Snapshots
  <2>3. PICK k \in Keys : /\ document.pending_review[k] # None
                          /\ ~Applicable(file, k, document.pending_review[k])
    BY <1>4 DEF CheckpointNeeded
  <2>4. ~Applicable(candidate, k, document.pending_review[k])
    BY <1>1, <2>2, <2>3 DEF Applicable, ReadyLeaf, HasLeaf, Present
  <2> QED BY <2>3, <2>4 DEF CheckpointNeeded, candidate
<1> QED BY <1>3, <1>4

-----------------------------------------------------------------------------
(* Before the first checkpoint no key has a baseline to be accepted for.   *)
LEMMA InitInv == Init => IInv
<1> SUFFICES ASSUME Init PROVE IInv OBVIOUS
<1>1. catalog \in XcStringsFile
  BY ForeignAssumption DEF Init, XcStringsFile, StringEntry, ForeignLeaf, Leaf
<1>2. sidecar \in WorkflowDocument
  BY ContextAssumption DEF Init, Unwritten, WorkflowDocument
<1>3. job \in [Workers -> Job] BY DEF Init, Idle, Job
<1>4. TypeOK
  BY <1>1, <1>2, <1>3, BoundAssumption DEF TypeOK, Init
<1>5. ASSUME NEW w \in Workers PROVE JobOK(w)
  BY <1>5 DEF Init, Idle, JobOK, JobRead, JobPlanned, SyncModes
<1>6. ASSUME NEW k \in Keys PROVE AcceptedAt(k)
  BY <1>6 DEF Init, Unwritten, AcceptedAt, BaselineOf, Initialized
<1> QED BY <1>4, <1>5, <1>6 DEF IInv, WellTyped

-----------------------------------------------------------------------------
(* What a step leaves of a well-typed state, and of every leaf that was    *)
(* accepted: the same.                                                     *)
Preserved == WellTyped' /\ \A k \in Keys : AcceptedAt(k) => AcceptedAt(k)'

(* What a step has to establish: the new files and history keep their      *)
(* types, a ready leaf that is new, or whose baseline is, is accepted, and *)
(* the one operation that moved still has what it needs.                   *)
LEMMA Preserve ==
    ASSUME WellTyped,
           TypeOK',
           \A w \in Workers : job'[w] # job[w] => JobOK(w)',
           \A k \in Keys : AcceptedAt(k) => AcceptedAt(k)'
    PROVE  Preserved
<1>1. ASSUME NEW w \in Workers PROVE JobOK(w)'
  <2>1. CASE job'[w] # job[w] BY <2>1
  <2>2. CASE job'[w] = job[w] BY <2>2 DEF WellTyped, JobOK, JobRead, JobPlanned
  <2> QED BY <2>1, <2>2
<1> QED BY <1>1 DEF WellTyped, Preserved

(* An operation that ends leaves the others where they are. *)
LEMMA FinishJob ==
    ASSUME TypeOK, NEW w \in Workers, Finish(w)
    PROVE  /\ job' \in [Workers -> Job]
           /\ \A v \in Workers : job'[v] # job[v] => JobOK(v)'
<1>1. Idle \in Job BY DEF Idle, Job
<1>2. job' \in [Workers -> Job] BY <1>1 DEF Finish, TypeOK
<1>3. ASSUME NEW v \in Workers, job'[v] # job[v] PROVE JobOK(v)'
  <2>1. job'[v].pc = "idle" BY <1>3 DEF Finish, Idle, TypeOK
  <2> QED BY <2>1 DEF JobOK, JobRead, JobPlanned, SyncModes
<1> QED BY <1>2, <1>3

(* A leaf that did not change under a checkpoint that did not change. *)
LEMMA SameAccepted ==
    ASSUME NEW k \in Keys, AcceptedAt(k),
           catalog'[k] = catalog[k],
           BaselineOf(sidecar, k)' = BaselineOf(sidecar, k),
           latest'[k] = latest[k]
    PROVE  AcceptedAt(k)'
BY DEF AcceptedAt, ReadyLeaf, HasLeaf, Present

(* Reads, and giving up, touch neither file.                               *)
LEMMA ReadStep ==
    ASSUME WellTyped, NEW w \in Workers,
           LoadCatalog(w) \/ LoadSidecar(w) \/ Abandon(w)
    PROVE  Preserved
<1> USE DEF WellTyped, JobOK
<1>0. UNCHANGED <<catalog, sidecar, latest, edits>>
  BY DEF LoadCatalog, LoadSidecar, Abandon, files
<1>1. \A k \in Keys : AcceptedAt(k) => AcceptedAt(k)'
  BY <1>0, SameAccepted DEF BaselineOf, Initialized
<1>2. CASE LoadCatalog(w)
  <2> DEFINE read == [pc |-> "catalog", file |-> catalog, document |-> None]
  <2>1. read \in Job BY DEF TypeOK, Job
  <2>2. job' = [job EXCEPT ![w] = read] BY <1>2 DEF LoadCatalog
  <2>3. TypeOK' BY <1>0, <2>1, <2>2 DEF TypeOK
  <2>4. ASSUME NEW v \in Workers, job'[v] # job[v] PROVE JobOK(v)'
    <3>1. job'[v] = read BY <2>2, <2>4 DEF TypeOK
    <3> QED BY <3>1 DEF JobRead, JobPlanned, SyncModes, TypeOK
  <2> QED BY <1>1, <2>3, <2>4, Preserve
<1>3. CASE LoadSidecar(w)
  <2> DEFINE read == [pc |-> "loaded", file |-> job[w].file, document |-> sidecar]
  <2>0. job[w] \in Job BY DEF TypeOK
  <2>1. read \in Job
    <3>1. job[w].file \in XcStringsFile \cup {None} BY <2>0 DEF Job
    <3>2. sidecar \in WorkflowDocument BY DEF TypeOK
    <3> QED BY <3>1, <3>2 DEF Job
  <2>2. job' = [job EXCEPT ![w] = read]
    BY <1>3 DEF LoadSidecar
  <2>3. TypeOK' BY <1>0, <2>1, <2>2 DEF TypeOK
  <2>4. ASSUME NEW v \in Workers, job'[v] # job[v] PROVE JobOK(v)'
    <3>1. job'[v] = read BY <2>2, <2>4 DEF TypeOK
    <3>2. job[w].file \in XcStringsFile BY <1>3 DEF LoadSidecar, JobRead
    <3> QED BY <3>1, <3>2 DEF JobRead, JobPlanned, SyncModes, TypeOK
  <2> QED BY <1>1, <2>3, <2>4, Preserve
<1>4. CASE Abandon(w)
  <2>1. Finish(w) BY <1>4 DEF Abandon, Finish
  <2>2. TypeOK' BY <1>0, <2>1, FinishJob DEF TypeOK
  <2> QED BY <1>1, <2>1, <2>2, FinishJob, Preserve
<1> QED BY <1>2, <1>3, <1>4

(* A batch addresses some of the keys. *)
LEMMA BatchDomain ==
    ASSUME NEW Request, NEW batch \in Batches(Request)
    PROVE  /\ DOMAIN batch \in SUBSET Keys
           /\ \A k \in DOMAIN batch : batch[k] \in Request
BY DEF Batches

(* An approved leaf is current: its source is the baseline.                *)
LEMMA ApproveStep ==
    ASSUME WellTyped, NEW w \in Workers, Approve(w) PROVE Preserved
<1> USE DEF WellTyped, JobOK
<1> DEFINE file == job[w].file
           document == job[w].document
<1>1. PICK batch \in Batches(ApprovalRequest) :
        /\ \A k \in DOMAIN batch : Approvable(file, document, k, batch[k])
        /\ WriteCatalog(w, WithState(file, DOMAIN batch, "translated"))
        /\ latest' = [k \in Keys |-> IF k \in DOMAIN batch THEN batch[k].source ELSE latest[k]]
  BY DEF Approve
<1>2. Finish(w) BY DEF Approve
<1>3. /\ DOMAIN batch \in SUBSET Keys
      /\ \A k \in DOMAIN batch : batch[k].source \in SourceSnapshot
  <2>1. \A k \in DOMAIN batch : batch[k] \in ApprovalRequest BY BatchDomain
  <2> QED BY <2>1, BatchDomain DEF ApprovalRequest
<1>4. /\ file = catalog /\ document = sidecar
      /\ catalog' = WithState(catalog, DOMAIN batch, "translated")
      /\ sidecar' = sidecar /\ edits' = edits
  BY <1>1 DEF WriteCatalog, Unmoved
<1>5. catalog' \in XcStringsFile
  BY <1>1, <1>3, <1>4, WithStateType DEF Approvable, DraftLeaf, NativeStates, TypeOK
<1>6. latest' \in [Keys -> SourceSnapshot \cup {None}]
  BY <1>1, <1>3 DEF TypeOK
<1>7. TypeOK' BY <1>2, <1>4, <1>5, <1>6, FinishJob DEF TypeOK
<1>8. ASSUME NEW k \in Keys, AcceptedAt(k) PROVE AcceptedAt(k)'
  <2>0. BaselineOf(sidecar, k)' = BaselineOf(sidecar, k)
    BY <1>4 DEF BaselineOf, Initialized
  <2>1. CASE k \in DOMAIN batch
    <3>1. batch[k].source = BaselineOf(sidecar, k)
      BY <1>1, <1>4, <2>1 DEF Approvable, Current
    <3> QED BY <1>1, <2>0, <2>1, <3>1 DEF AcceptedAt
  <2>2. CASE k \notin DOMAIN batch
    BY <1>8, <1>1, <1>4, <2>0, <2>2, SameAccepted DEF WithState
  <2> QED BY <2>1, <2>2
<1> QED BY <1>2, <1>7, <1>8, FinishJob, Preserve

(* A submitted leaf is a draft.                                            *)
LEMMA SubmitStep ==
    ASSUME WellTyped, NEW w \in Workers, Submit(w) PROVE Preserved
<1> USE DEF WellTyped, JobOK
<1> DEFINE file == job[w].file
           document == job[w].document
           Matching(batch) == {k \in DOMAIN batch : SourceMatches(file, document, k, batch[k])}
           Written(batch, k) == [text |-> batch[k].text, state |-> "needs_review"]
           Merged(batch) == [k \in Keys |->
               IF k \in Matching(batch) THEN [file[k] EXCEPT !.leaf = Written(batch, k)] ELSE file[k]]
<1>1. PICK batch \in Batches(Translation) :
        /\ WriteCatalog(w, Merged(batch))
        /\ latest' = [k \in Keys |-> IF k \in Matching(batch) THEN None ELSE latest[k]]
  BY DEF Submit
<1>2. Finish(w) BY DEF Submit
<1>3. /\ DOMAIN batch \in SUBSET Keys
      /\ \A k \in DOMAIN batch : batch[k].text \in Texts
  <2>1. \A k \in DOMAIN batch : batch[k] \in Translation BY BatchDomain
  <2> QED BY <2>1, BatchDomain DEF Translation
<1>4. /\ file = catalog /\ catalog' = Merged(batch)
      /\ sidecar' = sidecar /\ edits' = edits
  BY <1>1 DEF WriteCatalog, Unmoved
<1>5. ASSUME NEW k \in Keys, k \in Matching(batch)
      PROVE  /\ catalog'[k] = [catalog[k] EXCEPT !.leaf = Written(batch, k)]
             /\ catalog[k] \in StringEntry
             /\ Written(batch, k) \in Leaf
  <2>1. catalog[k] \in StringEntry
    BY <1>4, <1>5 DEF SourceMatches, Present, XcStringsFile, TypeOK
  <2> QED BY <1>3, <1>4, <1>5, <2>1 DEF Leaf, NativeStates
<1>6. catalog' \in XcStringsFile
  <2>1. ASSUME NEW k \in Keys PROVE catalog'[k] \in StringEntry \cup {None}
    <3>1. CASE k \in Matching(batch) BY <1>5, <3>1 DEF StringEntry
    <3>2. CASE k \notin Matching(batch) BY <1>4, <3>2 DEF TypeOK, XcStringsFile
    <3> QED BY <3>1, <3>2
  <2> QED BY <1>4, <2>1 DEF XcStringsFile
<1>7. latest' \in [Keys -> SourceSnapshot \cup {None}]
  BY <1>1 DEF TypeOK
<1>8. TypeOK' BY <1>2, <1>4, <1>6, <1>7, FinishJob DEF TypeOK
<1>9. ASSUME NEW k \in Keys, AcceptedAt(k) PROVE AcceptedAt(k)'
  <2>1. CASE k \in Matching(batch)
    <3>1. catalog'[k].leaf = Written(batch, k) BY <1>5, <2>1 DEF StringEntry
    <3> QED BY <3>1 DEF AcceptedAt, ReadyLeaf, Ready
  <2>2. CASE k \notin Matching(batch)
    BY <1>9, <1>1, <1>4, <2>2, SameAccepted DEF BaselineOf, Initialized
  <2> QED BY <2>1, <2>2
<1> QED BY <1>2, <1>8, <1>9, FinishJob, Preserve

(* An imported leaf is a draft, or current like an approved one.           *)
LEMMA ImportStep ==
    ASSUME WellTyped, NEW w \in Workers, Import(w) PROVE Preserved
<1> USE DEF WellTyped, JobOK
<1> DEFINE file == job[w].file
           document == job[w].document
           ReadyOnes(batch) == {k \in DOMAIN batch : batch[k].target.state \in Ready}
           Merged(batch) == [k \in Keys |->
               IF k \in DOMAIN batch THEN [file[k] EXCEPT !.leaf = batch[k].target] ELSE file[k]]
<1>1. PICK batch \in Batches(XliffTarget) :
        /\ \A k \in DOMAIN batch : Importable(file, document, k, batch[k])
        /\ WriteCatalog(w, Merged(batch))
        /\ latest' = [k \in Keys |->
                IF k \in ReadyOnes(batch) THEN batch[k].source
                ELSE IF k \in DOMAIN batch THEN None ELSE latest[k]]
  BY DEF Import
<1>2. Finish(w) BY DEF Import
<1>3. /\ DOMAIN batch \in SUBSET Keys
      /\ \A k \in DOMAIN batch : batch[k].source \in SourceSnapshot /\ batch[k].target \in Leaf
  <2>1. \A k \in DOMAIN batch : batch[k] \in XliffTarget BY BatchDomain
  <2>2. ForeignLeaf \subseteq Leaf BY ForeignAssumption DEF ForeignLeaf, Leaf
  <2> QED BY <2>1, <2>2, BatchDomain DEF XliffTarget
<1>4. /\ file = catalog /\ document = sidecar /\ catalog' = Merged(batch)
      /\ sidecar' = sidecar /\ edits' = edits
  BY <1>1 DEF WriteCatalog, Unmoved
<1>5. ASSUME NEW k \in DOMAIN batch
      PROVE  /\ catalog'[k] = [catalog[k] EXCEPT !.leaf = batch[k].target]
             /\ catalog[k] \in StringEntry
  BY <1>1, <1>3, <1>4 DEF Importable, SourceMatches, Present, XcStringsFile, TypeOK
<1>6. catalog' \in XcStringsFile
  <2>1. ASSUME NEW k \in Keys PROVE catalog'[k] \in StringEntry \cup {None}
    <3>1. CASE k \in DOMAIN batch BY <1>3, <1>5, <3>1 DEF StringEntry
    <3>2. CASE k \notin DOMAIN batch BY <1>4, <3>2 DEF TypeOK, XcStringsFile
    <3> QED BY <3>1, <3>2
  <2> QED BY <1>4, <2>1 DEF XcStringsFile
<1>7. latest' \in [Keys -> SourceSnapshot \cup {None}]
  BY <1>1, <1>3 DEF TypeOK
<1>8. TypeOK' BY <1>2, <1>4, <1>6, <1>7, FinishJob DEF TypeOK
<1>9. ASSUME NEW k \in Keys, AcceptedAt(k) PROVE AcceptedAt(k)'
  <2>0. BaselineOf(sidecar, k)' = BaselineOf(sidecar, k)
    BY <1>4 DEF BaselineOf, Initialized
  <2>1. CASE k \in ReadyOnes(batch)
    <3>1. batch[k].source = BaselineOf(sidecar, k)
      BY <1>1, <1>4, <2>1 DEF Importable, SourceMatches, Current
    <3> QED BY <1>1, <2>0, <2>1, <3>1 DEF AcceptedAt
  <2>2. CASE k \in DOMAIN batch /\ k \notin ReadyOnes(batch)
    <3>1. catalog'[k].leaf = batch[k].target BY <1>5, <2>2 DEF StringEntry
    <3> QED BY <2>2, <3>1 DEF AcceptedAt, ReadyLeaf
  <2>3. CASE k \notin DOMAIN batch
    BY <1>9, <1>1, <1>4, <2>0, <2>3, SameAccepted
  <2> QED BY <2>1, <2>2, <2>3
<1> QED BY <1>2, <1>8, <1>9, FinishJob, Preserve

(* A context edit keeps the baseline, the leaves and what they are for.    *)
LEMMA UpdateContextStep ==
    ASSUME WellTyped, NEW w \in Workers, UpdateContext(w) PROVE Preserved
<1> USE DEF WellTyped, JobOK
<1>1. PICK k \in Keys, c \in Contexts :
        WriteWorkflow(w, [job[w].document EXCEPT !.contexts[k] = c])
  BY DEF UpdateContext
<1>2. Finish(w) /\ latest' = latest BY DEF UpdateContext
<1>3. /\ sidecar' = [sidecar EXCEPT !.contexts[k] = c]
      /\ catalog' = catalog /\ edits' = edits
  BY <1>1 DEF WriteWorkflow, Unmoved
<1>4. /\ sidecar' \in WorkflowDocument
      /\ sidecar'.source_baseline = sidecar.source_baseline
  BY <1>3 DEF TypeOK, WorkflowDocument
<1>5. TypeOK' BY <1>2, <1>3, <1>4, FinishJob DEF TypeOK
<1>6. ASSUME NEW l \in Keys, AcceptedAt(l) PROVE AcceptedAt(l)'
  BY <1>6, <1>2, <1>3, <1>4, SameAccepted DEF BaselineOf, Initialized
<1> QED BY <1>2, <1>5, <1>6, FinishJob, Preserve

(* A leaf that is lowered is no longer ready; the others keep what they    *)
(* were accepted for.                                                      *)
LEMMA SynchronizeStep ==
    ASSUME WellTyped, NEW w \in Workers, Synchronize(w) PROVE Preserved
<1> USE DEF WellTyped, JobOK
<1> DEFINE file == job[w].file
           document == job[w].document
           Candidate(mode) == IF mode = "review" THEN Invalidation(file, document) ELSE file
           Planned(mode) == [pc |-> mode, file |-> Candidate(mode), document |-> document]
<1>1. PICK mode \in SyncModes :
        /\ mode = "adopt_existing" => ~Initialized(document)
        /\ mode = "review" => ToLower(Candidate(mode), document) = {}
        /\ IF Candidate(mode) = file THEN UNCHANGED <<files, edits>>
           ELSE WriteCatalog(w, Candidate(mode))
        /\ job' = [job EXCEPT ![w] = Planned(mode)]
  BY DEF Synchronize
<1>2. /\ latest' = latest /\ job[w].pc = "loaded"
      /\ CheckpointNeeded(file, document)
  BY DEF Synchronize
<1>3. file \in XcStringsFile /\ document \in WorkflowDocument
  BY <1>2 DEF JobRead
<1>4. sidecar' = sidecar /\ edits' = edits
  BY <1>1 DEF WriteCatalog, files
<1>5. Candidate(mode) \in XcStringsFile BY <1>3, InvalidationType
<1>6. catalog' = catalog \/ (file = catalog /\ catalog' = Candidate(mode))
  BY <1>1 DEF WriteCatalog, Unmoved, files
<1>7. catalog' \in XcStringsFile BY <1>5, <1>6 DEF TypeOK
<1>8. Planned(mode) \in Job BY <1>3, <1>5 DEF Job
<1>9. TypeOK'
  <2>1. job' \in [Workers -> Job] BY <1>1, <1>8 DEF TypeOK
  <2> QED BY <1>2, <1>4, <1>7, <2>1 DEF TypeOK
<1>10. ASSUME NEW v \in Workers, job'[v] # job[v] PROVE JobOK(v)'
  <2>1. job'[v] = Planned(mode) BY <1>1, <1>10 DEF TypeOK
  <2>2. JobRead(v)' BY <1>3, <1>5, <2>1 DEF JobRead
  <2>3. CheckpointNeeded(Candidate(mode), document)
    BY <1>2, <1>3, StillNeeded
  <2>4. JobPlanned(v)' BY <1>1, <2>1, <2>3 DEF JobPlanned
  <2> QED BY <2>2, <2>4
<1>11. ASSUME NEW k \in Keys, AcceptedAt(k) PROVE AcceptedAt(k)'
  <2>0. BaselineOf(sidecar, k)' = BaselineOf(sidecar, k)
    BY <1>4 DEF BaselineOf, Initialized
  <2>1. CASE catalog'[k] = catalog[k]
    BY <1>11, <1>2, <2>0, <2>1, SameAccepted
  <2>2. CASE catalog'[k] # catalog[k]
    <3>1. /\ catalog' = Invalidation(catalog, document)
          /\ k \in ToLower(catalog, document)
      BY <1>6, <2>2 DEF Invalidation, WithState
    <3>2. catalog[k] \in StringEntry /\ catalog[k].leaf \in Leaf
      BY <3>1, LeafType DEF ToLower, ReadyLeaf, TypeOK
    <3>3. catalog'[k] = [catalog[k] EXCEPT !.leaf.state = "needs_review"]
      BY <3>1 DEF Invalidation, WithState
    <3>4. catalog'[k].leaf.state = "needs_review"
      BY <3>2, <3>3 DEF StringEntry, Leaf
    <3> QED BY <3>4 DEF AcceptedAt, ReadyLeaf, Ready
  <2> QED BY <2>1, <2>2
<1> QED BY <1>9, <1>10, <1>11, Preserve

(* The step the strengthening is for.  After a review every ready leaf is  *)
(* current, so the checkpoint leaves its baseline as it is; adopting       *)
(* accepts the others.                                                     *)
LEMMA WriteCheckpointStep ==
    ASSUME WellTyped, NEW w \in Workers, WriteCheckpoint(w) PROVE Preserved
<1> USE DEF WellTyped, JobOK
<1> DEFINE adopted == IF job[w].pc = "adopt_existing" THEN ToLower(catalog, sidecar) ELSE {}
<1>1. /\ Finish(w) /\ job[w].pc \in SyncModes
      /\ job[w].file = catalog /\ job[w].document = sidecar
      /\ sidecar' = Checkpoint(catalog, sidecar)
      /\ catalog' = catalog /\ edits' = edits
      /\ latest' = [k \in Keys |->
            IF k \in adopted THEN SnapshotOf(catalog, sidecar, k) ELSE latest[k]]
  BY DEF WriteCheckpoint, WriteWorkflow, Unmoved
<1>2. catalog \in XcStringsFile /\ sidecar \in WorkflowDocument BY DEF TypeOK
<1>3. /\ sidecar' \in WorkflowDocument
      /\ sidecar'.source_baseline = Snapshots(catalog, sidecar)
  BY <1>1, <1>2, CheckpointType
<1>4. latest' \in [Keys -> SourceSnapshot \cup {None}]
  <2>1. ASSUME NEW k \in adopted PROVE SnapshotOf(catalog, sidecar, k) \in SourceSnapshot
    BY <1>2, <2>1, SnapshotType DEF ToLower, Affected
  <2> QED BY <1>1, <2>1 DEF TypeOK
<1>5. TypeOK' BY <1>1, <1>3, <1>4, FinishJob DEF TypeOK
<1>6. ASSUME NEW k \in Keys, AcceptedAt(k) PROVE AcceptedAt(k)'
  <2>1. SUFFICES ASSUME ReadyLeaf(catalog, k)
                 PROVE  latest'[k] = BaselineOf(sidecar, k)'
    BY <1>1 DEF AcceptedAt, ReadyLeaf, HasLeaf, Present
  <2>2. Present(catalog, k) BY <2>1 DEF ReadyLeaf, HasLeaf
  <2>3. Snapshots(catalog, sidecar) # None
    BY <1>2, NoneIsNew, SnapshotType DEF Snapshots, SourceBaseline
  <2>4. BaselineOf(sidecar, k)' = SnapshotOf(catalog, sidecar, k)
    BY <1>3, <2>2, <2>3 DEF BaselineOf, Initialized, Snapshots
  <2>5. CASE k \in adopted BY <1>1, <2>4, <2>5
  <2>6. CASE k \notin adopted
    <3>1. k \notin ToLower(catalog, sidecar)
      BY <1>1, <2>6 DEF JobPlanned, SyncModes
    <3>2. BaselineOf(sidecar, k) = SnapshotOf(catalog, sidecar, k)
      BY <2>1, <2>2, <3>1 DEF ToLower, Affected, Current
    <3>3. BaselineOf(sidecar, k) # None
      BY <1>2, <2>2, <3>2, SnapshotType, NoneIsNew
    <3> QED BY <1>1, <1>6, <2>1, <2>4, <2>6, <3>2, <3>3 DEF AcceptedAt
  <2> QED BY <2>5, <2>6
<1> QED BY <1>1, <1>5, <1>6, FinishJob, Preserve

(* A ready leaf from an editor is trusted against the baseline there is.   *)
LEMMA DeveloperEditStep ==
    ASSUME WellTyped, DeveloperEdit PROVE Preserved
<1> USE DEF WellTyped, JobOK
<1>1. /\ sidecar' = sidecar /\ job' = job
      /\ edits' \in 0 .. MaxEdits
  BY BoundAssumption DEF DeveloperEdit, TypeOK
<1>2. \A k \in Keys : BaselineOf(sidecar, k)' = BaselineOf(sidecar, k)
  BY <1>1 DEF BaselineOf, Initialized
<1>3. ASSUME NEW k \in Keys, RemoveEntry(k) PROVE Preserved
  <2>1. TypeOK' BY <1>1, <1>3 DEF RemoveEntry, TypeOK, XcStringsFile
  <2>2. ASSUME NEW l \in Keys, AcceptedAt(l) PROVE AcceptedAt(l)'
    <3>1. CASE l = k
      BY <1>3, <3>1 DEF RemoveEntry, AcceptedAt, ReadyLeaf, HasLeaf, Present, TypeOK, XcStringsFile
    <3>2. CASE l # k
      BY <1>2, <1>3, <2>2, <3>2, SameAccepted DEF RemoveEntry, TypeOK, XcStringsFile
    <3> QED BY <3>1, <3>2
  <2> QED BY <1>1, <2>1, <2>2, Preserve
<1>4. ASSUME NEW k \in Keys, NEW source \in Sources,
             NEW leaf \in ForeignLeaf \cup {None, LeafOf(k)}, EditEntry(k, source, leaf)
      PROVE  Preserved
  <2> DEFINE entry == [source |-> source, leaf |-> leaf]
  <2>1. leaf \in Leaf \cup {None}
    BY ForeignAssumption DEF ForeignLeaf, Leaf, LeafOf, Present, TypeOK, XcStringsFile, StringEntry
  <2>2. entry \in StringEntry BY <2>1 DEF StringEntry
  <2>3. catalog' = [catalog EXCEPT ![k] = entry] BY <1>4 DEF EditEntry
  <2>4. catalog' \in XcStringsFile BY <2>2, <2>3 DEF TypeOK, XcStringsFile
  <2>5. Trusted(k, leaf) \in SourceSnapshot \cup {None}
    BY BaselineType DEF Trusted, TypeOK
  <2>6. latest' = latest \/ latest' = [latest EXCEPT ![k] = Trusted(k, leaf)]
    BY <1>4 DEF EditEntry
  <2>7. latest' \in [Keys -> SourceSnapshot \cup {None}]
    BY <2>5, <2>6 DEF TypeOK
  <2>8. TypeOK' BY <1>1, <2>4, <2>7 DEF TypeOK
  <2>9. ASSUME NEW l \in Keys, AcceptedAt(l) PROVE AcceptedAt(l)'
    <3>1. CASE l # k
      BY <1>2, <2>3, <2>6, <2>9, <3>1, SameAccepted DEF TypeOK, XcStringsFile
    <3>2. CASE l = k
      <4>1. catalog'[k].leaf = leaf BY <2>3 DEF TypeOK, XcStringsFile
      <4>2. CASE leaf = LeafOf(k)
        <5>1. latest' = latest BY <1>4, <4>2 DEF EditEntry
        <5>2. SUFFICES ASSUME ReadyLeaf(catalog, k)'
                       PROVE  ReadyLeaf(catalog, k)
          BY <1>2, <2>9, <3>2, <5>1 DEF AcceptedAt
        <5>3. leaf # None /\ leaf.state \in Ready
          BY <4>1, <5>2 DEF ReadyLeaf, HasLeaf
        <5> QED BY <4>2, <5>3 DEF LeafOf, ReadyLeaf, HasLeaf
      <4>3. CASE leaf # LeafOf(k)
        <5>1. latest'[k] = Trusted(k, leaf) BY <1>4, <4>3 DEF EditEntry, TypeOK
        <5> QED BY <1>2, <3>2, <4>1, <5>1 DEF Trusted, AcceptedAt, ReadyLeaf, HasLeaf
      <4> QED BY <4>2, <4>3
    <3> QED BY <3>1, <3>2
  <2> QED BY <1>1, <2>8, <2>9, Preserve
<1> QED BY <1>3, <1>4 DEF DeveloperEdit

-----------------------------------------------------------------------------
(* An unguarded tool brings back a catalog that was there before.          *)
LEMMA AddLocaleStep ==
    ASSUME WellTyped, NEW w \in Workers, AddLocale(w) PROVE WellTyped'
<1>1. /\ job[w].pc = "catalog" /\ catalog' = job[w].file
      /\ Finish(w) /\ UNCHANGED <<sidecar, latest, edits>>
  BY DEF AddLocale
<1>2. catalog' \in XcStringsFile
  BY <1>1 DEF WellTyped, JobOK, JobRead
<1>3. TypeOK'
  BY <1>1, <1>2, FinishJob DEF WellTyped, TypeOK
<1>4. ASSUME NEW v \in Workers PROVE JobOK(v)'
  <2>1. CASE job'[v] # job[v] BY <1>1, <2>1, FinishJob DEF WellTyped
  <2>2. CASE job'[v] = job[v] BY <2>2 DEF WellTyped, JobOK, JobRead, JobPlanned
  <2> QED BY <2>1, <2>2
<1> QED BY <1>3, <1>4 DEF WellTyped

(* Every step keeps the types, and what was accepted unless an unguarded   *)
(* tool takes it.                                                          *)
LEMMA NextPreserves ==
    ASSUME WellTyped, [Next]_vars
    PROVE  WellTyped' /\ (~UnguardedTools => Preserved)
<1>1. ASSUME NEW w \in Workers,
             LoadCatalog(w) \/ LoadSidecar(w) \/ Abandon(w)
      PROVE  Preserved
  BY <1>1, ReadStep
<1>2. ASSUME NEW w \in Workers, Approve(w) PROVE Preserved BY <1>2, ApproveStep
<1>3. ASSUME NEW w \in Workers, Submit(w) PROVE Preserved BY <1>3, SubmitStep
<1>4. ASSUME NEW w \in Workers, Import(w) PROVE Preserved BY <1>4, ImportStep
<1>5. ASSUME NEW w \in Workers, UpdateContext(w) PROVE Preserved BY <1>5, UpdateContextStep
<1>6. ASSUME NEW w \in Workers, Synchronize(w) PROVE Preserved BY <1>6, SynchronizeStep
<1>7. ASSUME NEW w \in Workers, WriteCheckpoint(w) PROVE Preserved BY <1>7, WriteCheckpointStep
<1>8. CASE DeveloperEdit BY <1>8, DeveloperEditStep DEF Preserved
<1>9. CASE UNCHANGED vars
  BY <1>9 DEF vars, files, Preserved, WellTyped, TypeOK, JobOK, JobRead, JobPlanned, AcceptedAt,
              ReadyLeaf, HasLeaf, Present, BaselineOf, Initialized
<1>10. ASSUME NEW w \in Workers, AddLocale(w) PROVE WellTyped' /\ UnguardedTools
  BY <1>10, AddLocaleStep DEF AddLocale
<1>11. Preserved => WellTyped'
  BY DEF Preserved
<1> QED
  BY <1>1, <1>2, <1>3, <1>4, <1>5, <1>6, <1>7, <1>8, <1>9, <1>10, <1>11 DEF Next

LEMMA WellTypedHolds == Spec => []WellTyped
<1>1. Init => WellTyped BY InitInv DEF IInv
<1>2. WellTyped /\ [Next]_vars => WellTyped' BY NextPreserves
<1> QED BY <1>1, <1>2, PTL DEF Spec

(* Without the unguarded tools the strengthened invariant holds throughout.*)
THEOREM Invariance ==
    ASSUME ~UnguardedTools PROVE Spec => []IInv
<1>1. Init => IInv BY InitInv
<1>2. IInv /\ [Next]_vars => IInv' BY NextPreserves DEF IInv, Preserved
<1> QED BY <1>1, <1>2, PTL DEF Spec

(* Every file that is committed is a well-formed catalog or sidecar, and   *)
(* every operation plans on well-formed documents, unguarded tools or not. *)
THEOREM TypeCorrect == Spec => []TypeOK
<1>1. WellTyped => TypeOK BY DEF WellTyped
<1> QED BY <1>1, WellTypedHolds, PTL

(* A translation that reads report as ready was accepted for exactly the   *)
(* source and context there are now, whatever the operations of other      *)
(* processes and the edits in between.                                     *)
THEOREM ReadyAccepted ==
    ASSUME ~UnguardedTools PROVE Spec => []ReadyIsAccepted
<1>1. IInv => ReadyIsAccepted
  <2> SUFFICES ASSUME IInv, NEW k \in Keys,
                      Initialized(sidecar), EffectivelyReady(catalog, sidecar, k)
               PROVE  latest[k] = SnapshotOf(catalog, sidecar, k)
    BY DEF ReadyIsAccepted
  <2>1. /\ ReadyLeaf(catalog, k) /\ Present(catalog, k)
        /\ BaselineOf(sidecar, k) = SnapshotOf(catalog, sidecar, k)
    BY DEF EffectivelyReady, Current
  <2>2. SnapshotOf(catalog, sidecar, k) # None
    BY <2>1, SnapshotType, NoneIsNew DEF IInv, WellTyped, TypeOK
  <2> QED BY <2>1, <2>2 DEF IInv, AcceptedAt
<1> QED BY <1>1, Invariance, PTL

-----------------------------------------------------------------------------
(* A checkpoint is of the sources there are, and its records apply.        *)
LEMMA CheckpointFixes ==
    ASSUME NEW file \in XcStringsFile, NEW document \in WorkflowDocument
    PROVE  LET next == Checkpoint(file, document)
           IN  ToLower(file, next) = {} /\ ~CheckpointNeeded(file, next)
<1> DEFINE next == Checkpoint(file, document)
<1>1. next.source_baseline = Snapshots(file, document) /\ next.source_baseline # None
    <2>1. next.source_baseline = Snapshots(file, document)
        BY CheckpointType
    <2>2. Snapshots(file, document) # None
        BY NoneIsNew, SnapshotType DEF Snapshots, SourceBaseline
    <2> QED BY <2>1, <2>2
<1>2. \A k \in Keys : SnapshotOf(file, next, k) = SnapshotOf(file, document, k)
    BY DEF Checkpoint, SnapshotOf, WorkflowDocument
<1>3. next.source_baseline = Snapshots(file, next)
    BY <1>1, <1>2 DEF Snapshots
<1>4. \A k \in Keys : Present(file, k) => Current(file, next, k)
    BY <1>1, <1>2 DEF Current, BaselineOf, Initialized, Snapshots
<1>5. ASSUME NEW k \in Keys, next.pending_review[k] # None
      PROVE  Applicable(file, k, next.pending_review[k])
    <2>1. next.pending_review[k] = Evidence(file, document, k)
        BY DEF Checkpoint, WorkflowDocument
    <2>2. NewRecord(file, document, k).text = file[k].leaf.text
        BY DEF NewRecord
    <2> QED BY <1>5, <2>1, <2>2 DEF Evidence, Kept, Applicable
<1> QED BY <1>3, <1>4, <1>5 DEF ToLower, Affected, CheckpointNeeded

(* From every state, also the ones a synchronisation that stopped half-way *)
(* leaves behind, one full synchronisation reaches a fixed point.          *)
THEOREM SyncAlwaysRepairs == Spec => []SyncRepairs
<1>1. TypeOK => SyncRepairs
    BY InvalidationType, CheckpointFixes DEF TypeOK, SyncRepairs
<1> QED BY <1>1, TypeCorrect, PTL

-----------------------------------------------------------------------------
(* The strengthening of EvidenceSurvives, for a catalog as an operation    *)
(* may have read it: a leaf last accepted for another source than the      *)
(* checkpoint's is not ready, and a draft has its record, also while the   *)
(* source there is now is a third one.                                     *)
EvidenceIn(file, k) ==
    BaselineOf(sidecar, k) # None /\ latest[k] \notin {None, BaselineOf(sidecar, k)} =>
        /\ ~ReadyLeaf(file, k)
        /\ DraftLeaf(file, k) =>
                /\ sidecar.pending_review[k] # None
                /\ Applicable(file, k, sidecar.pending_review[k])

(* What an unguarded tool will write back is no worse than what is there.  *)
EvidenceHeld ==
    UnguardedTools =>
        \A w \in Workers : job[w].pc = "catalog" => \A k \in Keys : EvidenceIn(job[w].file, k)

EvidenceInv == (\A k \in Keys : EvidenceIn(catalog, k)) /\ EvidenceHeld

(* With unguarded tools there is one worker.  Of two, one could take a     *)
(* draft away and make a checkpoint that drops its record while the tool   *)
(* of the other holds the draft and brings it back.                        *)
AloneWithTools == UnguardedTools => \A v, w \in Workers : v = w

LEMMA SameEvidence ==
    ASSUME NEW k \in Keys, EvidenceIn(catalog, k),
           catalog'[k] = catalog[k], sidecar' = sidecar, latest'[k] = latest[k]
    PROVE  EvidenceIn(catalog, k)'
BY DEF EvidenceIn, DraftLeaf, HasLeaf, Present, BaselineOf, Initialized, Applicable, ReadyLeaf

(* An operation that went on past its first read holds nothing that a tool *)
(* would write back.                                                       *)
LEMMA NothingHeld ==
    ASSUME AloneWithTools, NEW w \in Workers, job'[w].pc # "catalog"
    PROVE  EvidenceHeld'
BY DEF AloneWithTools, EvidenceHeld

LEMMA FinishedHoldsNothing ==
    ASSUME AloneWithTools, TypeOK, NEW w \in Workers, Finish(w)
    PROVE  EvidenceHeld'
<1>1. job'[w].pc = "idle" BY DEF Finish, Idle, TypeOK
<1> QED BY <1>1, NothingHeld

LEMMA ApproveKeepsEvidence ==
    ASSUME AloneWithTools, WellTyped, EvidenceInv, NEW w \in Workers, Approve(w)
    PROVE  EvidenceInv'
<1> USE DEF WellTyped
<1>1. PICK batch \in Batches(ApprovalRequest) :
        /\ \A k \in DOMAIN batch : Approvable(catalog, sidecar, k, batch[k])
        /\ catalog' = WithState(catalog, DOMAIN batch, "translated")
        /\ sidecar' = sidecar
        /\ latest' = [k \in Keys |-> IF k \in DOMAIN batch THEN batch[k].source ELSE latest[k]]
    BY DEF Approve, WriteCatalog, Unmoved
<1>2. ASSUME NEW k \in Keys PROVE EvidenceIn(catalog, k)'
    <2>1. CASE k \in DOMAIN batch
        <3>1. latest'[k] = BaselineOf(sidecar, k)
            BY <1>1, <2>1 DEF Approvable, Current
        <3>2. BaselineOf(sidecar, k)' = BaselineOf(sidecar, k)
            BY <1>1 DEF BaselineOf, Initialized
        <3> QED BY <3>1, <3>2 DEF EvidenceIn
    <2>2. CASE k \notin DOMAIN batch
        BY <1>1, <2>2, SameEvidence DEF WithState, EvidenceInv
    <2> QED BY <2>1, <2>2
<1>3. EvidenceHeld' BY FinishedHoldsNothing DEF Approve
<1> QED BY <1>2, <1>3 DEF EvidenceInv

LEMMA SubmitKeepsEvidence ==
    ASSUME AloneWithTools, WellTyped, EvidenceInv, NEW w \in Workers, Submit(w)
    PROVE  EvidenceInv'
<1> USE DEF WellTyped
<1>1. PICK batch \in Batches(Translation), continue_on_error \in BOOLEAN :
        LET K == {k \in DOMAIN batch : SourceMatches(job[w].file, job[w].document, k, batch[k])}
            Written(k) == [text |-> batch[k].text, state |-> "needs_review"]
        IN  /\ WriteCatalog(w, [k \in Keys |->
                    IF k \in K THEN [job[w].file[k] EXCEPT !.leaf = Written(k)] ELSE job[w].file[k]])
            /\ latest' = [k \in Keys |-> IF k \in K THEN None ELSE latest[k]]
    BY DEF Submit
<1> DEFINE K == {k \in DOMAIN batch : SourceMatches(job[w].file, job[w].document, k, batch[k])}
<1>2. /\ sidecar' = sidecar
      /\ \A k \in Keys : IF k \in K THEN latest'[k] = None
                         ELSE latest'[k] = latest[k] /\ catalog'[k] = catalog[k]
    BY <1>1 DEF WriteCatalog, Unmoved
<1>3. ASSUME NEW k \in Keys PROVE EvidenceIn(catalog, k)'
    <2>1. CASE k \in K BY <1>2, <2>1 DEF EvidenceIn
    <2>2. CASE k \notin K BY <1>2, <2>2, SameEvidence DEF EvidenceInv
    <2> QED BY <2>1, <2>2
<1>4. EvidenceHeld' BY FinishedHoldsNothing DEF Submit
<1> QED BY <1>3, <1>4 DEF EvidenceInv

LEMMA ImportKeepsEvidence ==
    ASSUME AloneWithTools, WellTyped, EvidenceInv, NEW w \in Workers, Import(w)
    PROVE  EvidenceInv'
<1> USE DEF WellTyped
<1>1. PICK batch \in Batches(XliffTarget) :
        LET K == DOMAIN batch
            R == {k \in K : batch[k].target.state \in Ready}
        IN  /\ WriteCatalog(w, [k \in Keys |->
                    IF k \in K THEN [job[w].file[k] EXCEPT !.leaf = batch[k].target]
                    ELSE job[w].file[k]])
            /\ \A k \in K : Importable(job[w].file, job[w].document, k, batch[k])
            /\ latest' = [k \in Keys |->
                    IF k \in R THEN batch[k].source ELSE IF k \in K THEN None ELSE latest[k]]
    BY DEF Import
<1> DEFINE R == {k \in DOMAIN batch : batch[k].target.state \in Ready}
<1>2. /\ sidecar' = sidecar /\ job[w].file = catalog /\ job[w].document = sidecar
      /\ \A k \in Keys : k \notin DOMAIN batch
                            => latest'[k] = latest[k] /\ catalog'[k] = catalog[k]
      /\ \A k \in Keys : k \in DOMAIN batch /\ k \notin R => latest'[k] = None
      /\ \A k \in Keys : k \in R => latest'[k] = batch[k].source
    BY <1>1 DEF WriteCatalog, Unmoved
<1>3. ASSUME NEW k \in Keys PROVE EvidenceIn(catalog, k)'
    <2>1. CASE k \notin DOMAIN batch
        BY <1>2, <2>1, SameEvidence DEF EvidenceInv
    <2>2. CASE k \in DOMAIN batch /\ k \notin R
        BY <1>2, <2>2 DEF EvidenceIn
    <2>3. CASE k \in R
        <3>1. latest'[k] = BaselineOf(sidecar, k)
            BY <1>1, <1>2, <2>3 DEF Importable, SourceMatches, Current
        <3>2. BaselineOf(sidecar, k)' = BaselineOf(sidecar, k)
            BY <1>2 DEF BaselineOf, Initialized
        <3> QED BY <3>1, <3>2 DEF EvidenceIn
    <2> QED BY <2>1, <2>2, <2>3
<1>4. EvidenceHeld' BY FinishedHoldsNothing DEF Import
<1> QED BY <1>3, <1>4 DEF EvidenceInv

LEMMA UpdateContextKeepsEvidence ==
    ASSUME AloneWithTools, WellTyped, EvidenceInv, NEW w \in Workers, UpdateContext(w)
    PROVE  EvidenceInv'
<1> USE DEF WellTyped
<1>1. PICK k \in Keys, c \in Contexts : sidecar' = [sidecar EXCEPT !.contexts[k] = c]
    BY DEF UpdateContext, WriteWorkflow, Unmoved
<1>2. catalog' = catalog /\ latest' = latest
    BY DEF UpdateContext, WriteWorkflow
<1>3. /\ sidecar'.source_baseline = sidecar.source_baseline
      /\ sidecar'.pending_review = sidecar.pending_review
    BY <1>1 DEF TypeOK, WorkflowDocument
<1>4. EvidenceHeld' BY FinishedHoldsNothing DEF UpdateContext
<1> QED BY <1>2, <1>3, <1>4 DEF EvidenceInv, EvidenceIn, DraftLeaf, HasLeaf, Present, BaselineOf,
           Initialized, Applicable, ReadyLeaf

(* What is lowered was accepted for the checkpoint's source, or by nobody. *)
LEMMA SynchronizeKeepsEvidence ==
    ASSUME AloneWithTools, WellTyped, EvidenceInv, NEW w \in Workers, Synchronize(w)
    PROVE  EvidenceInv'
<1> USE DEF WellTyped
<1>1. /\ sidecar' = sidecar /\ latest' = latest
      /\ catalog' \in {catalog, Invalidation(catalog, sidecar)}
    BY DEF Synchronize, WriteCatalog, Unmoved, files
<1>2. ASSUME NEW k \in Keys PROVE EvidenceIn(catalog, k)'
    <2>1. CASE catalog'[k] = catalog[k]
        BY <1>1, <2>1, SameEvidence DEF EvidenceInv
    <2>2. CASE k \in ToLower(catalog, sidecar)
        <3>1. ReadyLeaf(catalog, k)
            BY <2>2 DEF ToLower
        <3>2. BaselineOf(sidecar, k) # None => latest[k] \in {None, BaselineOf(sidecar, k)}
            BY <3>1 DEF EvidenceInv, EvidenceIn
        <3>3. BaselineOf(sidecar, k)' = BaselineOf(sidecar, k)
            BY <1>1 DEF BaselineOf, Initialized
        <3> QED BY <1>1, <3>2, <3>3 DEF EvidenceIn
    <2>3. CASE k \notin ToLower(catalog, sidecar)
        BY <1>1, <2>1, <2>3 DEF Invalidation, WithState
    <2> QED BY <2>2, <2>3
<1>3. EvidenceHeld'
    <2>1. job'[w].pc \in SyncModes BY DEF Synchronize, TypeOK
    <2> QED BY <2>1, NothingHeld DEF SyncModes
<1> QED BY <1>2, <1>3 DEF EvidenceInv

(* A key whose baseline changes gets a record with its new baseline; the   *)
(* records of other keys come through.                                     *)
LEMMA CheckpointKeepsEvidence ==
    ASSUME AloneWithTools, WellTyped, EvidenceInv, NEW w \in Workers, WriteCheckpoint(w)
    PROVE  EvidenceInv'
<1> USE DEF WellTyped
<1> DEFINE adopted == IF job[w].pc = "adopt_existing" THEN ToLower(catalog, sidecar) ELSE {}
<1>1. /\ catalog' = catalog /\ sidecar' = Checkpoint(catalog, sidecar)
      /\ job[w].pc \in SyncModes /\ job[w].file = catalog /\ job[w].document = sidecar
      /\ latest' = [k \in Keys |->
            IF k \in adopted THEN SnapshotOf(catalog, sidecar, k) ELSE latest[k]]
    BY DEF WriteCheckpoint, WriteWorkflow, Unmoved
<1>2. catalog \in XcStringsFile /\ sidecar \in WorkflowDocument
    BY DEF TypeOK
<1>3. ASSUME NEW k \in Keys, Present(catalog, k), BaselineOf(sidecar, k)' # None
      PROVE  BaselineOf(sidecar, k)' = SnapshotOf(catalog, sidecar, k)
    <2>1. sidecar'.source_baseline = Snapshots(catalog, sidecar)
        BY <1>1, <1>2, CheckpointType
    <2> QED BY <1>3, <2>1 DEF BaselineOf, Snapshots
<1>4. ASSUME NEW k \in Keys, BaselineOf(sidecar, k)' # None, ReadyLeaf(catalog, k)
      PROVE  latest'[k] \in {None, BaselineOf(sidecar, k)'}
    <2>1. Present(catalog, k) BY <1>4 DEF ReadyLeaf, HasLeaf
    <2>2. BaselineOf(sidecar, k)' = SnapshotOf(catalog, sidecar, k) BY <1>3, <1>4, <2>1
    <2>3. CASE k \in adopted BY <1>1, <2>2, <2>3
    <2>4. CASE k \notin adopted
        <3>1. k \notin ToLower(catalog, sidecar)
            BY <1>1, <2>4 DEF JobOK, JobPlanned, SyncModes
        <3>2. BaselineOf(sidecar, k) = SnapshotOf(catalog, sidecar, k)
            BY <1>4, <2>1, <3>1 DEF ToLower, Affected, Current
        <3>3. BaselineOf(sidecar, k) # None
            BY <1>2, <2>1, <3>2, SnapshotType, NoneIsNew
        <3>4. latest[k] \in {None, BaselineOf(sidecar, k)}
            BY <1>4, <3>3 DEF EvidenceInv, EvidenceIn
        <3> QED BY <1>1, <2>2, <2>4, <3>2, <3>4
    <2> QED BY <2>3, <2>4
<1>5. ASSUME NEW k \in Keys, DraftLeaf(catalog, k), BaselineOf(sidecar, k)' # None,
             latest'[k] \notin {None, BaselineOf(sidecar, k)'}
      PROVE  /\ sidecar'.pending_review[k] # None
             /\ Applicable(catalog, k, sidecar'.pending_review[k])
    <2>1. HasLeaf(catalog, k) /\ ~ReadyLeaf(catalog, k) /\ Present(catalog, k)
        BY <1>5 DEF DraftLeaf, Draft, ReadyLeaf, Ready, HasLeaf
    <2>2. sidecar'.pending_review[k] = Evidence(catalog, sidecar, k)
        BY <1>1, <1>2 DEF Checkpoint, WorkflowDocument
    <2>3. CASE k \in Affected(catalog, sidecar)
        <3>1. Evidence(catalog, sidecar, k) = NewRecord(catalog, sidecar, k)
            BY <2>1, <2>3 DEF Evidence
        <3>2. /\ NewRecord(catalog, sidecar, k) # None
              /\ NewRecord(catalog, sidecar, k).text = catalog[k].leaf.text
            <4>1. Origin(catalog, sidecar, k) \in SourceSnapshot \cup {None}
                BY <1>2, KeptType, BaselineType DEF Origin, PendingReview
            <4>2. NewRecord(catalog, sidecar, k) \in PendingReview
                BY <1>2, <2>1, <4>1, SnapshotType, LeafType DEF NewRecord, PendingReview
            <4> QED BY <4>2, NoneIsNew DEF NewRecord
        <3> QED BY <2>1, <2>2, <3>1, <3>2 DEF Applicable
    <2>4. CASE k \notin Affected(catalog, sidecar)
        <3>1. BaselineOf(sidecar, k) = SnapshotOf(catalog, sidecar, k)
            BY <2>1, <2>4 DEF Affected, Current
        <3>2. BaselineOf(sidecar, k)' = SnapshotOf(catalog, sidecar, k)
            BY <1>3, <1>5, <2>1
        <3>3. latest'[k] = latest[k]
            BY <1>1, <2>1 DEF ToLower
        <3>4. /\ sidecar.pending_review[k] # None
              /\ Applicable(catalog, k, sidecar.pending_review[k])
            BY <1>5, <3>1, <3>2, <3>3 DEF EvidenceInv, EvidenceIn
        <3>5. Evidence(catalog, sidecar, k) = sidecar.pending_review[k]
            BY <2>4, <3>4 DEF Evidence, Kept
        <3> QED BY <2>2, <3>4, <3>5
    <2> QED BY <2>3, <2>4
<1>6. ASSUME NEW k \in Keys PROVE EvidenceIn(catalog, k)'
    BY <1>1, <1>4, <1>5 DEF EvidenceIn, DraftLeaf, ReadyLeaf, HasLeaf, Present, Applicable
<1>7. EvidenceHeld' BY FinishedHoldsNothing DEF WriteCheckpoint
<1> QED BY <1>6, <1>7 DEF EvidenceInv

(* An editor's save takes back the acceptance of a leaf that it changes,   *)
(* so that what a tool has read needs no more evidence than before.        *)
LEMMA EditKeepsEvidence ==
    ASSUME WellTyped, EvidenceInv, DeveloperEdit PROVE EvidenceInv'
<1> USE DEF WellTyped
<1>1. sidecar' = sidecar /\ job' = job
    BY DEF DeveloperEdit
<1>2. DOMAIN catalog = Keys /\ DOMAIN latest = Keys
    BY DEF TypeOK, XcStringsFile
<1>3. ASSUME NEW k \in Keys PROVE BaselineOf(sidecar, k)' = BaselineOf(sidecar, k)
    BY <1>1 DEF BaselineOf, Initialized
<1> DEFINE SameLeaf(k) ==
                \/ catalog'[k] = catalog[k]
                \/ /\ HasLeaf(catalog, k) /\ HasLeaf(catalog, k)'
                   /\ catalog'[k].leaf = catalog[k].leaf
                \/ ~HasLeaf(catalog, k)'
           Saved(k) ==
                \/ latest'[k] \in {None, BaselineOf(sidecar, k)}
                \/ latest'[k] = latest[k] /\ SameLeaf(k)
<1>4. ASSUME NEW k \in Keys PROVE Saved(k)
    <2>1. ASSUME NEW l \in Keys, RemoveEntry(l) PROVE Saved(k)
        BY <1>2, <2>1 DEF RemoveEntry
    <2>2. ASSUME NEW l \in Keys, NEW source \in Sources,
                 NEW leaf \in ForeignLeaf \cup {None, LeafOf(l)}, EditEntry(l, source, leaf)
          PROVE  Saved(k)
        <3>1. CASE k # l
            BY <1>2, <2>2, <3>1 DEF EditEntry
        <3>2. CASE k = l /\ leaf # LeafOf(l)
            BY <1>2, <2>2, <3>2 DEF EditEntry, Trusted
        <3>3. CASE k = l /\ leaf = LeafOf(l)
            <4>1. latest' = latest /\ catalog'[k] = [source |-> source, leaf |-> leaf]
                BY <1>2, <2>2, <3>3 DEF EditEntry
            <4>2. CASE leaf = None
                BY <4>1, <4>2 DEF HasLeaf
            <4>3. CASE leaf # None
                <5>1. Present(catalog, k) /\ catalog[k].leaf = leaf
                    BY <3>3, <4>3 DEF LeafOf
                <5>2. leaf \in Leaf
                    BY <4>3, <5>1 DEF TypeOK, XcStringsFile, StringEntry, Present
                <5>3. catalog'[k] \in StringEntry
                    BY <4>1, <5>2 DEF StringEntry
                <5> QED BY <4>1, <4>3, <5>1, <5>3, NoneIsNew DEF HasLeaf, Present
            <4> QED BY <4>2, <4>3
        <3> QED BY <3>1, <3>2, <3>3
    <2> QED BY <2>1, <2>2 DEF DeveloperEdit
<1>5. ASSUME NEW k \in Keys PROVE EvidenceIn(catalog, k)'
    <2>1. CASE latest'[k] \in {None, BaselineOf(sidecar, k)}
        BY <1>3, <2>1 DEF EvidenceIn
    <2>2. CASE latest'[k] = latest[k] /\ catalog'[k] = catalog[k]
        BY <1>1, <2>2, SameEvidence DEF EvidenceInv
    <2>3. CASE /\ latest'[k] = latest[k]
               /\ HasLeaf(catalog, k) /\ HasLeaf(catalog, k)'
               /\ catalog'[k].leaf = catalog[k].leaf
        BY <1>1, <1>3, <2>3
           DEF EvidenceInv, EvidenceIn, DraftLeaf, ReadyLeaf, HasLeaf, Present, Applicable
    <2>4. CASE ~HasLeaf(catalog, k)'
        BY <2>4 DEF EvidenceIn, DraftLeaf, ReadyLeaf, HasLeaf, Present
    <2> QED BY <1>4, <2>1, <2>2, <2>3, <2>4
<1>6. ASSUME UnguardedTools, NEW w \in Workers, job'[w].pc = "catalog", NEW k \in Keys
      PROVE  EvidenceIn(job[w].file, k)'
    <2>1. EvidenceIn(job[w].file, k)
        BY <1>1, <1>6 DEF EvidenceInv, EvidenceHeld
    <2>2. latest'[k] \in {None, BaselineOf(sidecar, k)} \/ latest'[k] = latest[k]
        BY <1>4
    <2> QED BY <1>1, <1>3, <2>1, <2>2
            DEF EvidenceIn, DraftLeaf, ReadyLeaf, HasLeaf, Present, Applicable
<1> QED BY <1>5, <1>6 DEF EvidenceInv, EvidenceHeld

(* A tool's whole-file write restores what it read, which had its evidence.*)
LEMMA AddLocaleKeepsEvidence ==
    ASSUME AloneWithTools, WellTyped, EvidenceInv, NEW w \in Workers, AddLocale(w)
    PROVE  EvidenceInv'
<1>1. /\ UnguardedTools /\ job[w].pc = "catalog" /\ catalog' = job[w].file
      /\ UNCHANGED <<sidecar, latest>>
    BY DEF AddLocale
<1>2. ASSUME NEW k \in Keys PROVE EvidenceIn(catalog, k)'
    <2>1. EvidenceIn(job[w].file, k)
        BY <1>1 DEF EvidenceInv, EvidenceHeld
    <2> QED BY <1>1, <2>1 DEF EvidenceIn, DraftLeaf, ReadyLeaf, HasLeaf, Present, Applicable,
            BaselineOf, Initialized
<1>3. EvidenceHeld' BY FinishedHoldsNothing DEF AddLocale, WellTyped
<1> QED BY <1>2, <1>3 DEF EvidenceInv

LEMMA ReadKeepsEvidence ==
    ASSUME AloneWithTools, WellTyped, EvidenceInv, NEW w \in Workers,
           LoadCatalog(w) \/ LoadSidecar(w) \/ Abandon(w)
    PROVE  EvidenceInv'
<1> USE DEF WellTyped
<1>1. UNCHANGED <<catalog, sidecar, latest>>
    BY DEF LoadCatalog, LoadSidecar, Abandon, files
<1>2. ASSUME NEW k \in Keys PROVE EvidenceIn(catalog, k)'
    BY <1>1, SameEvidence DEF EvidenceInv
<1>3. CASE LoadCatalog(w)
    <2>1. job'[w].file = catalog'
        BY <1>1, <1>3 DEF LoadCatalog, TypeOK
    <2>2. ASSUME UnguardedTools, NEW v \in Workers, NEW k \in Keys
          PROVE  EvidenceIn(job[v].file, k)'
        <3>1. v = w BY <2>2 DEF AloneWithTools
        <3> QED BY <1>2, <2>1, <3>1 DEF EvidenceIn
    <2>3. EvidenceHeld' BY <2>2 DEF EvidenceHeld
    <2> QED BY <1>2, <2>3 DEF EvidenceInv
<1>4. CASE LoadSidecar(w)
    <2>1. job'[w].pc = "loaded" BY <1>4 DEF LoadSidecar, TypeOK
    <2> QED BY <1>2, <2>1, NothingHeld DEF EvidenceInv
<1>5. CASE Abandon(w)
    BY <1>2, <1>5, FinishedHoldsNothing DEF Abandon, Finish, EvidenceInv
<1> QED BY <1>3, <1>4, <1>5

LEMMA NextKeepsEvidence ==
    ASSUME AloneWithTools, WellTyped, EvidenceInv, [Next]_vars PROVE EvidenceInv'
<1>1. ASSUME NEW w \in Workers, LoadCatalog(w) \/ LoadSidecar(w) \/ Abandon(w)
      PROVE  EvidenceInv'
    BY <1>1, ReadKeepsEvidence
<1>2. ASSUME NEW w \in Workers, Approve(w) PROVE EvidenceInv'
    BY <1>2, ApproveKeepsEvidence
<1>3. ASSUME NEW w \in Workers, Submit(w) PROVE EvidenceInv'
    BY <1>3, SubmitKeepsEvidence
<1>4. ASSUME NEW w \in Workers, Import(w) PROVE EvidenceInv'
    BY <1>4, ImportKeepsEvidence
<1>5. ASSUME NEW w \in Workers, UpdateContext(w) PROVE EvidenceInv'
    BY <1>5, UpdateContextKeepsEvidence
<1>6. ASSUME NEW w \in Workers, Synchronize(w) PROVE EvidenceInv'
    BY <1>6, SynchronizeKeepsEvidence
<1>7. ASSUME NEW w \in Workers, WriteCheckpoint(w) PROVE EvidenceInv'
    BY <1>7, CheckpointKeepsEvidence
<1>8. ASSUME NEW w \in Workers, AddLocale(w) PROVE EvidenceInv'
    BY <1>8, AddLocaleKeepsEvidence
<1>9. CASE DeveloperEdit
    BY <1>9, EditKeepsEvidence
<1>10. CASE UNCHANGED vars
    BY <1>10 DEF vars, EvidenceInv, EvidenceHeld, EvidenceIn, DraftLeaf, ReadyLeaf, HasLeaf,
                 Present, Applicable, BaselineOf, Initialized
<1> QED BY <1>1, <1>2, <1>3, <1>4, <1>5, <1>6, <1>7, <1>8, <1>9, <1>10 DEF Next

(* A draft whose text was last accepted for another source than the        *)
(* checkpoint's has its review record, whatever was synchronised, edited   *)
(* and abandoned on the way, among any number of operations that all go    *)
(* through the guarded write, and beside unguarded tools for one process   *)
(* that runs both.                                                         *)
THEOREM EvidenceAlwaysSurvives ==
    ASSUME ~UnguardedTools \/ \A v, w \in Workers : v = w
    PROVE  Spec => []EvidenceSurvives
<1>0. AloneWithTools BY DEF AloneWithTools
<1>1. Init => EvidenceInv
    <2> SUFFICES ASSUME Init PROVE EvidenceInv OBVIOUS
    <2>1. \A k \in Keys : EvidenceIn(catalog, k)
        BY DEF Init, EvidenceIn
    <2>2. EvidenceHeld
        BY DEF Init, Idle, EvidenceHeld
    <2> QED BY <2>1, <2>2 DEF EvidenceInv
<1>2. WellTyped /\ EvidenceInv /\ [Next]_vars => EvidenceInv'
    BY <1>0, NextKeepsEvidence
<1>3. WellTyped /\ EvidenceInv => EvidenceSurvives
    <2> SUFFICES ASSUME WellTyped, EvidenceInv, NEW k \in Keys, Current(catalog, sidecar, k),
                        DraftLeaf(catalog, k),
                        latest[k] \notin {None, SnapshotOf(catalog, sidecar, k)}
                 PROVE  PendingApplies(k)
        BY DEF EvidenceSurvives
    <2>1. BaselineOf(sidecar, k) = SnapshotOf(catalog, sidecar, k)
        BY DEF Current
    <2>2. SnapshotOf(catalog, sidecar, k) # None
        BY SnapshotType, NoneIsNew DEF Current, WellTyped, TypeOK
    <2> QED BY <2>1, <2>2 DEF EvidenceInv, EvidenceIn, PendingApplies
<1> QED BY <1>1, <1>2, <1>3, WellTypedHolds, PTL DEF Spec

-----------------------------------------------------------------------------
(* While a draft keeps its text, no synchronisation, of whatever key and   *)
(* however often, replaces the origin its evidence started from.           *)
THEOREM EarliestOriginStays == Spec => EarliestOriginKept
<1> DEFINE Origins(k) == PendingApplies(k) /\ PendingApplies(k)' =>
            sidecar'.pending_review[k].old_source = sidecar.pending_review[k].old_source
<1>1. ASSUME WellTyped, [Next]_vars, NEW k \in Keys PROVE Origins(k)
    <2>1. CASE sidecar'.pending_review = sidecar.pending_review
        BY <2>1
    <2>2. ASSUME NEW w \in Workers, WriteCheckpoint(w), PendingApplies(k)
          PROVE  sidecar'.pending_review[k].old_source = sidecar.pending_review[k].old_source
        <3>1. sidecar' = Checkpoint(catalog, sidecar)
            BY <2>2 DEF WriteCheckpoint, WriteWorkflow, Unmoved
        <3>2. sidecar'.pending_review[k] = Evidence(catalog, sidecar, k)
            BY <1>1, <3>1 DEF Checkpoint, WellTyped, TypeOK, WorkflowDocument
        <3>3. Kept(catalog, sidecar, k) = sidecar.pending_review[k]
              /\ Kept(catalog, sidecar, k) # None
            BY <2>2 DEF Kept, PendingApplies
        <3> QED BY <3>2, <3>3 DEF Evidence, NewRecord, Origin
    <2>3. ASSUME NEW w \in Workers, UpdateContext(w)
          PROVE  sidecar'.pending_review = sidecar.pending_review
        <3>1. PICK l \in Keys, c \in Contexts : sidecar' = [sidecar EXCEPT !.contexts[l] = c]
            BY <2>3 DEF UpdateContext, WriteWorkflow, Unmoved
        <3> QED BY <1>1, <3>1 DEF WellTyped, TypeOK, WorkflowDocument
    <2>4. ASSUME NEW w \in Workers,
                 \/ LoadCatalog(w) \/ LoadSidecar(w) \/ Abandon(w)
                 \/ Approve(w) \/ Submit(w) \/ Import(w) \/ Synchronize(w) \/ AddLocale(w)
          PROVE  sidecar' = sidecar
        BY <2>4 DEF LoadCatalog, LoadSidecar, Abandon, Approve, Submit, Import, Synchronize,
                    AddLocale, WriteCatalog, files
    <2>5. ASSUME DeveloperEdit \/ UNCHANGED vars PROVE sidecar' = sidecar
        BY <2>5 DEF DeveloperEdit, vars
    <2> QED BY <1>1, <2>1, <2>2, <2>3, <2>4, <2>5 DEF Next
<1>2. ASSUME WellTyped, [Next]_vars PROVE [\A k \in Keys : Origins(k)]_vars
    BY <1>1, <1>2
<1> QED BY <1>2, WellTypedHolds, PTL DEF Spec, EarliestOriginKept

-----------------------------------------------------------------------------
(* The abstract specification plans with the same functions.               *)
LEMMA SamePlans ==
    ASSUME NEW file, NEW document
    PROVE  /\ \A k : Atomic!Present(file, k) <=> Present(file, k)
           /\ \A k : Atomic!DraftLeaf(file, k) <=> DraftLeaf(file, k)
           /\ \A k : Atomic!Current(file, document, k) <=> Current(file, document, k)
           /\ Atomic!Initialized(document) <=> Initialized(document)
           /\ Atomic!ToLower(file, document) = ToLower(file, document)
           /\ Atomic!Invalidation(file, document) = Invalidation(file, document)
           /\ Atomic!CheckpointNeeded(file, document) <=> CheckpointNeeded(file, document)
           /\ Atomic!Checkpoint(file, document) = Checkpoint(file, document)
           /\ \A K, state : Atomic!WithState(file, K, state) = WithState(file, K, state)
<1>1. \A k : /\ Atomic!Present(file, k) <=> Present(file, k)
             /\ Atomic!ReadyLeaf(file, k) <=> ReadyLeaf(file, k)
             /\ Atomic!DraftLeaf(file, k) <=> DraftLeaf(file, k)
             /\ Atomic!HasLeaf(file, k) <=> HasLeaf(file, k)
  BY DEF Atomic!Present, Present, Atomic!HasLeaf, HasLeaf, Atomic!ReadyLeaf, ReadyLeaf,
         Atomic!Ready, Ready, Atomic!DraftLeaf, DraftLeaf, Atomic!Draft, Draft
<1>2. \A k : /\ Atomic!SnapshotOf(file, document, k) = SnapshotOf(file, document, k)
             /\ Atomic!BaselineOf(document, k) = BaselineOf(document, k)
  BY DEF Atomic!SnapshotOf, SnapshotOf, Atomic!BaselineOf, BaselineOf,
         Atomic!Initialized, Initialized
<1>3. \A k : Atomic!Current(file, document, k) <=> Current(file, document, k)
  BY <1>1, <1>2 DEF Atomic!Current, Current
<1>4. Atomic!Affected(file, document) = Affected(file, document)
  BY <1>1, <1>3 DEF Atomic!Affected, Affected
<1>5. Atomic!ToLower(file, document) = ToLower(file, document)
  BY <1>1, <1>4 DEF Atomic!ToLower, ToLower
<1>6. \A K, state : Atomic!WithState(file, K, state) = WithState(file, K, state)
  BY DEF Atomic!WithState, WithState
<1>7. Atomic!Invalidation(file, document) = Invalidation(file, document)
  BY <1>5, <1>6 DEF Atomic!Invalidation, Invalidation
<1>8. Atomic!Snapshots(file, document) = Snapshots(file, document)
  BY <1>1, <1>2 DEF Atomic!Snapshots, Snapshots
<1>9. \A k, record : Atomic!Applicable(file, k, record) <=> Applicable(file, k, record)
  BY <1>1 DEF Atomic!Applicable, Applicable
<1>10. Atomic!CheckpointNeeded(file, document) <=> CheckpointNeeded(file, document)
  BY <1>8, <1>9 DEF Atomic!CheckpointNeeded, CheckpointNeeded
<1>11. \A k : Atomic!Evidence(file, document, k) = Evidence(file, document, k)
  <2>1. \A k : Atomic!Kept(file, document, k) = Kept(file, document, k)
    BY <1>9 DEF Atomic!Kept, Kept
  <2>2. \A k : Atomic!Origin(file, document, k) = Origin(file, document, k)
    BY <1>2, <2>1 DEF Atomic!Origin, Origin
  <2>3. \A k : Atomic!NewRecord(file, document, k) = NewRecord(file, document, k)
    BY <1>2, <2>2 DEF Atomic!NewRecord, NewRecord
  <2> QED BY <1>1, <1>4, <2>1, <2>3 DEF Atomic!Evidence, Evidence
<1>12. Atomic!Checkpoint(file, document) = Checkpoint(file, document)
  BY <1>8, <1>11 DEF Atomic!Checkpoint, Checkpoint
<1>13. Atomic!Initialized(document) <=> Initialized(document)
  BY DEF Atomic!Initialized, Initialized
<1> QED BY <1>1, <1>3, <1>5, <1>6, <1>7, <1>10, <1>12, <1>13

(* The states an operation finds are the states it read.                   *)
LEMMA ApproveIsAtomic ==
    ASSUME WellTyped, NEW w \in Workers, Approve(w) PROVE Atomic!Approve
<1>1. PICK batch \in Batches(ApprovalRequest) :
        /\ \A k \in DOMAIN batch : Approvable(catalog, sidecar, k, batch[k])
        /\ catalog' = WithState(catalog, DOMAIN batch, "translated")
        /\ UNCHANGED <<sidecar, edits>>
  BY DEF Approve, WriteCatalog, Unmoved
<1>2. DOMAIN batch \in Atomic!Some
  BY DEF Batches, Atomic!Some
<1>3. \A k \in DOMAIN batch : Current(catalog, sidecar, k) /\ DraftLeaf(catalog, k)
  BY <1>1 DEF Approvable
<1> QED BY <1>1, <1>2, <1>3, SamePlans DEF Atomic!Approve

(* What is written over a leaf is what a batch has for its key.            *)
LEMMA SubmitIsAtomic ==
    ASSUME WellTyped, NEW w \in Workers, Submit(w) PROVE Atomic!Submit
<1> DEFINE K(batch) ==
        {k \in DOMAIN batch : SourceMatches(job[w].file, job[w].document, k, batch[k])}
<1>1. PICK batch \in Batches(Translation) :
        /\ K(batch) # {}
        /\ WriteCatalog(w, [k \in Keys |->
                IF k \in K(batch)
                THEN [job[w].file[k] EXCEPT !.leaf = [text |-> batch[k].text, state |-> "needs_review"]]
                ELSE job[w].file[k]])
  BY DEF Submit
<1>2. /\ DOMAIN batch \in SUBSET Keys
      /\ \A k \in DOMAIN batch : batch[k].text \in Texts
  <2>1. \A k \in DOMAIN batch : batch[k] \in Translation BY BatchDomain
  <2> QED BY <2>1, BatchDomain DEF Translation
<1> DEFINE leaves == [k \in K(batch) |-> [text |-> batch[k].text, state |-> "needs_review"]]
<1>3. K(batch) \in Atomic!Some
  <2>1. K(batch) # {} BY <1>1
  <2>2. K(batch) \subseteq DOMAIN batch OBVIOUS
  <2> HIDE DEF K
  <2> QED BY <1>2, <2>1, <2>2 DEF Atomic!Some
<1>4. leaves \in [K(batch) -> [text : Texts, state : {"needs_review"}]]
  BY <1>2
<1>5. \A k \in K(batch) : Present(catalog, k)
  BY <1>1 DEF WriteCatalog, Unmoved, SourceMatches
<1>6. catalog' = Atomic!WithLeaves(catalog, leaves)
  BY <1>1 DEF WriteCatalog, Unmoved, Atomic!WithLeaves
<1>7. UNCHANGED <<sidecar, edits>>
  BY <1>1 DEF WriteCatalog
<1>8. \A k \in K(batch) : Atomic!Present(catalog, k)
  BY <1>5, SamePlans
<1> DEFINE touched == K(batch)
<1> HIDE DEF leaves, touched
<1> QED BY <1>3, <1>4, <1>6, <1>7, <1>8 DEF Atomic!Submit

LEMMA ImportIsAtomic ==
    ASSUME WellTyped, NEW w \in Workers, Import(w) PROVE Atomic!Import
<1>1. PICK batch \in Batches(XliffTarget) :
        /\ \A k \in DOMAIN batch : Importable(catalog, sidecar, k, batch[k])
        /\ catalog' = [k \in Keys |->
                IF k \in DOMAIN batch THEN [catalog[k] EXCEPT !.leaf = batch[k].target]
                ELSE catalog[k]]
        /\ UNCHANGED <<sidecar, edits>>
  BY DEF Import, WriteCatalog, Unmoved
<1> DEFINE leaves == [k \in DOMAIN batch |-> batch[k].target]
<1>2. DOMAIN batch \in Atomic!Some
  BY DEF Batches, Atomic!Some
<1>3. leaves \in [DOMAIN batch -> Atomic!ForeignLeaf]
  <2>1. \A k \in DOMAIN batch : batch[k] \in XliffTarget BY BatchDomain
  <2> QED BY <2>1 DEF XliffTarget, ForeignLeaf, Atomic!ForeignLeaf
<1>4. \A k \in DOMAIN batch :
        Present(catalog, k) /\ (leaves[k].state \in Ready => Current(catalog, sidecar, k))
  BY <1>1 DEF Importable, SourceMatches
<1>5. catalog' = Atomic!WithLeaves(catalog, leaves)
  BY <1>1 DEF Atomic!WithLeaves
<1>6. Atomic!Ready = Ready
  BY DEF Atomic!Ready, Ready
<1> HIDE DEF leaves
<1> QED BY <1>1, <1>2, <1>3, <1>4, <1>5, <1>6, SamePlans DEF Atomic!Import

LEMMA UpdateContextIsAtomic ==
    ASSUME WellTyped, NEW w \in Workers, UpdateContext(w) PROVE Atomic!UpdateContext
<1>1. PICK k \in Keys, c \in Contexts :
        /\ Present(catalog, k) \/ c = NoContext
        /\ sidecar' = [sidecar EXCEPT !.contexts[k] = c]
        /\ UNCHANGED <<catalog, edits>>
  BY DEF UpdateContext, WriteWorkflow, Unmoved
<1> QED BY <1>1, SamePlans DEF Atomic!UpdateContext

(* The first phase lowers all that the files there are ask for, or nothing.*)
LEMMA SynchronizeIsAtomic ==
    ASSUME WellTyped, NEW w \in Workers, Synchronize(w)
    PROVE  Atomic!Lower \/ UNCHANGED Atomic!vars
<1> DEFINE file == job[w].file
           document == job[w].document
           Candidate(mode) == IF mode = "review" THEN Invalidation(file, document) ELSE file
<1>1. PICK mode \in SyncModes :
        IF Candidate(mode) = file THEN UNCHANGED <<files, edits>>
        ELSE WriteCatalog(w, Candidate(mode))
  BY DEF Synchronize
<1>2. CASE Candidate(mode) = file
  BY <1>1, <1>2 DEF files, Atomic!vars
<1>3. CASE Candidate(mode) # file
  <2>1. /\ catalog' = Invalidation(catalog, sidecar)
        /\ file = catalog /\ document = sidecar /\ UNCHANGED <<sidecar, edits>>
    BY <1>1, <1>3 DEF WriteCatalog, Unmoved
  <2>2. CheckpointNeeded(catalog, sidecar)
    BY <2>1 DEF Synchronize
  <2> QED BY <2>1, <2>2, SamePlans DEF Atomic!Lower
<1> QED BY <1>2, <1>3

(* The checkpoint that was planned before the first write is the one that  *)
(* the files there are ask for.                                            *)
LEMMA WriteCheckpointIsAtomic ==
    ASSUME WellTyped, NEW w \in Workers, WriteCheckpoint(w) PROVE Atomic!TakeCheckpoint
<1>1. /\ job[w].pc \in SyncModes
      /\ job[w].file = catalog /\ job[w].document = sidecar
      /\ sidecar' = Checkpoint(catalog, sidecar)
      /\ UNCHANGED <<catalog, edits>>
  BY DEF WriteCheckpoint, WriteWorkflow, Unmoved
<1>2. /\ CheckpointNeeded(catalog, sidecar)
      /\ ToLower(catalog, sidecar) = {} \/ ~Initialized(sidecar)
  BY <1>1 DEF WellTyped, JobOK, JobPlanned, SyncModes
<1> QED BY <1>1, <1>2, SamePlans DEF Atomic!TakeCheckpoint

LEMMA EditIsAtomic ==
    ASSUME WellTyped, DeveloperEdit PROVE Atomic!Edit
<1>1. edits' = edits + 1 /\ sidecar' = sidecar
  BY DEF DeveloperEdit
<1>2. ASSUME NEW k \in Keys, RemoveEntry(k) PROVE Atomic!Edit
  BY <1>1, <1>2 DEF RemoveEntry, Atomic!Edit
<1>3. ASSUME NEW k \in Keys, NEW source \in Sources,
             NEW leaf \in ForeignLeaf \cup {None, LeafOf(k)}, EditEntry(k, source, leaf)
      PROVE  Atomic!Edit
  <2> DEFINE entry == [source |-> source, leaf |-> leaf]
  <2>1. Atomic!ForeignLeaf = ForeignLeaf /\ Atomic!LeafOf(k) = LeafOf(k)
    BY DEF Atomic!ForeignLeaf, ForeignLeaf, Atomic!LeafOf, LeafOf, Atomic!Present, Present
  <2>2. entry \in [source : Sources, leaf : Atomic!ForeignLeaf \cup {None, Atomic!LeafOf(k)}]
    BY <2>1
  <2>3. catalog' = [catalog EXCEPT ![k] = entry]
    BY <1>3 DEF EditEntry
  <2> HIDE DEF entry
  <2> QED BY <1>1, <2>2, <2>3 DEF Atomic!Edit
<1> QED BY <1>2, <1>3 DEF DeveloperEdit

(* Without the unguarded tools every operation of every process, also one  *)
(* that read its two files while others wrote them, does to the files what *)
(* the operation would have done at once on the files it finds.            *)
THEOREM WorkflowActsAtomically ==
    ASSUME ~UnguardedTools PROVE Spec => ActsAtomically
<1>1. Init => Atomic!Init
  BY DEF Init, Unwritten, ForeignLeaf, Atomic!Init, Atomic!Unwritten, Atomic!ForeignLeaf
<1>2. ASSUME WellTyped, [Next]_vars PROVE [Atomic!Next]_Atomic!vars
  <2>1. ASSUME NEW w \in Workers, LoadCatalog(w) \/ LoadSidecar(w) \/ Abandon(w)
        PROVE  UNCHANGED Atomic!vars
    BY <2>1 DEF LoadCatalog, LoadSidecar, Abandon, files, Atomic!vars
  <2>2. ASSUME NEW w \in Workers, Approve(w) PROVE Atomic!Next
    BY <1>2, <2>2, ApproveIsAtomic DEF Atomic!Next
  <2>3. ASSUME NEW w \in Workers, Submit(w) PROVE Atomic!Next
    BY <1>2, <2>3, SubmitIsAtomic DEF Atomic!Next
  <2>4. ASSUME NEW w \in Workers, Import(w) PROVE Atomic!Next
    BY <1>2, <2>4, ImportIsAtomic DEF Atomic!Next
  <2>5. ASSUME NEW w \in Workers, UpdateContext(w) PROVE Atomic!Next
    BY <1>2, <2>5, UpdateContextIsAtomic DEF Atomic!Next
  <2>6. ASSUME NEW w \in Workers, Synchronize(w) PROVE [Atomic!Next]_Atomic!vars
    BY <1>2, <2>6, SynchronizeIsAtomic DEF Atomic!Next
  <2>7. ASSUME NEW w \in Workers, WriteCheckpoint(w) PROVE Atomic!Next
    BY <1>2, <2>7, WriteCheckpointIsAtomic DEF Atomic!Next
  <2>8. CASE DeveloperEdit
    BY <1>2, <2>8, EditIsAtomic DEF Atomic!Next
  <2>9. CASE UNCHANGED vars
    BY <2>9 DEF vars, Atomic!vars
  <2>10. ~\E w \in Workers : AddLocale(w)
    BY DEF AddLocale
  <2> QED BY <1>2, <2>1, <2>2, <2>3, <2>4, <2>5, <2>6, <2>7, <2>8, <2>9, <2>10 DEF Next
<1> QED BY <1>1, <1>2, WellTypedHolds, PTL DEF Spec, ActsAtomically, Atomic!Spec

-----------------------------------------------------------------------------
(* The review queue.                                                       *)

(* Induction, for a set: it has a least number that is missing, or none.   *)
LEMMA SetInduction ==
    ASSUME NEW S, S \subseteq Nat, 0 \in S, \A n \in S : n + 1 \in S
    PROVE  S = Nat
<1> DEFINE Less == {pair \in Nat \X Nat : pair[1] < pair[2]}
<1>1. IsWellFoundedOn(Less, Nat)
  BY NatLessThanWellFounded DEF OpToRel
<1>2. \A a, b \in Nat : a < b => <<a, b>> \in Less
  OBVIOUS
<1> HIDE DEF Less
<1>3. SUFFICES ASSUME Nat \ S # {} PROVE FALSE
  OBVIOUS
<1>4. PICK n \in Nat \ S : \A k \in Nat \ S : ~(<<k, n>> \in Less)
  BY <1>1, <1>3, WFMin
<1>5. n # 0 /\ n - 1 \in Nat /\ n - 1 < n /\ (n - 1) + 1 = n
  OBVIOUS
<1>6. <<n - 1, n>> \in Less
  BY <1>2, <1>5
<1>7. n - 1 \in S
  BY <1>4, <1>5, <1>6
<1> QED BY <1>5, <1>7

(* One turn of the loop over the destinations.                             *)
Turn(file, document, filter, n, items) ==
    IF n = 0 THEN <<>>
    ELSE IF Shown(file, document, Order[n], filter) THEN Append(items[n - 1], Order[n])
    ELSE items[n - 1]

(* The loop comes to an end: there is a function of which its turns are    *)
(* true.                                                                   *)
LEMMA LoopRuns ==
    ASSUME NEW file, NEW document, NEW filter
    PROVE  \E items :
            /\ \A n \in 0 .. Len(Order) : items[n] = Turn(file, document, filter, n, items)
            /\ Queue(file, document, filter) = items[Len(Order)]
<1> DEFINE T(n, items) == Turn(file, document, filter, n, items)
           Runs(items, n) == \A i \in 0 .. n : items[i] = T(i, items)
           Done == {n \in Nat : \E items : Runs(items, n)}
           N == Len(Order)
           IsLoop(items) == items = [n \in 0 .. N |-> T(n, items)]
<1>1. N \in Nat
  BY OrderAssumption, LenProperties
<1>2. ASSUME NEW n, NEW f, NEW g, n # 0 => f[n - 1] = g[n - 1] PROVE T(n, f) = T(n, g)
  BY <1>2 DEF Turn
<1>3. 0 \in Done
  <2>1. Runs([i \in 0 .. 0 |-> <<>>], 0)
    BY DEF Turn
  <2> QED BY <2>1
<1>4. ASSUME NEW n \in Done PROVE n + 1 \in Done
  <2>1. n \in Nat /\ \E items : Runs(items, n)
    OBVIOUS
  <2>2. PICK f : Runs(f, n)
    BY <2>1
  <2> DEFINE g == [i \in 0 .. n + 1 |-> IF i <= n THEN f[i] ELSE T(i, f)]
  <2>3. \A i \in 0 .. n + 1 : i # 0 => f[i - 1] = g[i - 1]
    BY <2>1
  <2>4. \A i \in 0 .. n + 1 : T(i, f) = T(i, g)
    <3> HIDE DEF T, g
    <3> QED BY <1>2, <2>3 DEF T
  <2>5. ASSUME NEW i \in 0 .. n + 1 PROVE g[i] = T(i, g)
    <3>1. CASE i <= n
      <4>1. i \in 0 .. n /\ g[i] = f[i]
        BY <2>1, <3>1
      <4> HIDE DEF T, g
      <4> QED BY <2>2, <2>4, <4>1
    <3>2. CASE ~(i <= n)
      <4>1. g[i] = T(i, f)
        BY <3>2
      <4> HIDE DEF T, g
      <4> QED BY <2>4, <4>1
    <3> QED BY <3>1, <3>2
  <2>6. Runs(g, n + 1)
    <3> HIDE DEF T, g
    <3> QED BY <2>5
  <2> HIDE DEF Runs, g
  <2> QED BY <2>1, <2>6
<1>5. N \in Done
  <2>1. Done \subseteq Nat
    OBVIOUS
  <2> HIDE DEF Done
  <2> QED BY <1>1, <1>3, <1>4, <2>1, SetInduction
<1>6. PICK f : Runs(f, N)
  BY <1>5
<1> DEFINE h == [n \in 0 .. N |-> f[n]]
<1>7. IsLoop(h)
  <2>1. ASSUME NEW n \in 0 .. N PROVE f[n] = T(n, h)
    <3>1. n # 0 => f[n - 1] = h[n - 1]
      BY <1>1
    <3> HIDE DEF T, h
    <3>2. T(n, f) = T(n, h)
      BY <1>2, <3>1 DEF T
    <3> QED BY <1>6, <3>2
  <2> HIDE DEF T
  <2>2. [n \in 0 .. N |-> f[n]] = [n \in 0 .. N |-> T(n, h)]
    BY <2>1
  <2> QED BY <2>2
<1> DEFINE loop == CHOOSE items : IsLoop(items)
<1>8. Queue(file, document, filter) = loop[N]
  BY DEF Queue, Turn
<1>9. IsLoop(loop)
  <2> HIDE DEF h, IsLoop
  <2> QED BY <1>7
<1>10. \A n \in 0 .. N : loop[n] = T(n, loop)
  <2> HIDE DEF loop
  <2>1. loop = [n \in 0 .. N |-> T(n, loop)]
    BY <1>9
  <2> HIDE DEF T
  <2> QED BY <2>1
<1> HIDE DEF loop
<1> QED BY <1>8, <1>10

(* The queue has the rows that are shown, each of them once.               *)
LEMMA QueueFacts ==
    ASSUME NEW file, NEW document, NEW filter
    PROVE  LET queue == Queue(file, document, filter)
           IN  /\ queue \in Seq(Keys)
               /\ \A k \in Keys :
                    Shown(file, document, k, filter) <=> \E i \in 1 .. Len(queue) : queue[i] = k
               /\ \A i, j \in 1 .. Len(queue) : queue[i] = queue[j] => i = j
<1> DEFINE N == Len(Order)
           Seen(k, n) == Shown(file, document, k, filter) /\ \E i \in 1 .. n : Order[i] = k
           Made(rows, n) ==
                /\ rows \in Seq(Keys)
                /\ \A k \in Keys : Seen(k, n) <=> \E i \in 1 .. Len(rows) : rows[i] = k
                /\ \A i, j \in 1 .. Len(rows) : rows[i] = rows[j] => i = j
<1>1. PICK items :
            /\ \A n \in 0 .. N : items[n] = Turn(file, document, filter, n, items)
            /\ Queue(file, document, filter) = items[N]
  BY LoopRuns
<1>2. /\ N \in Nat /\ DOMAIN Order = 1 .. N /\ \A n \in 1 .. N : Order[n] \in Keys
      /\ \A i, j \in 1 .. N : Order[i] = Order[j] => i = j
      /\ \A k \in Keys : \E i \in 1 .. N : Order[i] = k
  BY OrderAssumption, LenProperties, ElementOfSeq
<1> DEFINE Good == {n \in Nat : n <= N => Made(items[n], n)}
<1>3. 0 \in Good
  <2>1. items[0] = <<>>
    BY <1>1, <1>2 DEF Turn
  <2>2. \A k : ~Seen(k, 0)
    OBVIOUS
  <2>3. <<>> \in Seq(Keys) /\ Len(<<>>) = 0 /\ 1 .. 0 = {}
    OBVIOUS
  <2> HIDE DEF Seen
  <2>4. Made(<<>>, 0)
    BY <2>2, <2>3
  <2> HIDE DEF Made
  <2> QED BY <2>1, <2>4
<1>4. ASSUME NEW n \in Good PROVE n + 1 \in Good
  <2>1. SUFFICES ASSUME n + 1 <= N PROVE Made(items[n + 1], n + 1)
    OBVIOUS
  <2>2. n \in Nat /\ n + 1 \in 1 .. N /\ n + 1 \in 0 .. N /\ n + 1 # 0 /\ (n + 1) - 1 = n
    BY <1>2, <2>1
  <2>3. Made(items[n], n)
    BY <1>2, <2>1, <2>2
  <2> DEFINE old == items[n]
             new == items[n + 1]
             row == Order[n + 1]
  <2>4. row \in Keys /\ Len(old) \in Nat
    BY <1>2, <2>2, <2>3, LenProperties
  <2>5. \A k \in Keys : Seen(k, n + 1) <=> Seen(k, n) \/ (k = row /\ Shown(file, document, row, filter))
    <3>1. 1 .. n + 1 = (1 .. n) \cup {n + 1}
      BY <2>2
    <3>2. ASSUME NEW k
          PROVE  (\E i \in 1 .. n + 1 : Order[i] = k) <=> (\E i \in 1 .. n : Order[i] = k) \/ k = row
      BY <3>1
    <3> HIDE DEF row
    <3> QED BY <3>2
  <2>6. ~Seen(row, n)
    BY <1>2, <2>2
  <2>7. new = IF Shown(file, document, row, filter) THEN Append(old, row) ELSE old
    BY <1>1, <2>2 DEF Turn
  <2>8. CASE ~Shown(file, document, row, filter)
    <3> HIDE DEF Seen, old, new, row
    <3>1. new = old
      BY <2>7, <2>8
    <3>2. \A k \in Keys : Seen(k, n + 1) <=> Seen(k, n)
      BY <2>5, <2>8
    <3> QED BY <2>3, <3>1, <3>2 DEF old, new
  <2>9. CASE Shown(file, document, row, filter)
    <3> HIDE DEF Seen, old, new, row
    <3>1. old \in Seq(Keys)
      BY <2>3 DEF old
    <3>2. /\ new \in Seq(Keys) /\ Len(new) = Len(old) + 1
          /\ \A i \in 1 .. Len(old) : new[i] = old[i]
          /\ new[Len(old) + 1] = row
      BY <2>4, <2>7, <2>9, <3>1
    <3>3. \A k \in Keys : Seen(k, n) <=> \E i \in 1 .. Len(old) : old[i] = k
      BY <2>3 DEF old
    <3>4. \A i, j \in 1 .. Len(old) : old[i] = old[j] => i = j
      BY <2>3 DEF old
    <3>5. \A k \in Keys : Seen(k, n + 1) <=> \E i \in 1 .. Len(new) : new[i] = k
      <4> TAKE k \in Keys
      <4>1. (\E i \in 1 .. Len(new) : new[i] = k) <=> (\E i \in 1 .. Len(old) : old[i] = k) \/ k = row
        BY <2>4, <3>2
      <4> QED BY <2>5, <2>9, <3>3, <4>1
    <3>6. \A i \in 1 .. Len(old) : old[i] # row
      BY <2>4, <2>6, <3>3
    <3>7. ASSUME NEW i \in 1 .. Len(new), NEW j \in 1 .. Len(new), new[i] = new[j] PROVE i = j
      <4>1. (i \in 1 .. Len(old) \/ i = Len(old) + 1) /\ (j \in 1 .. Len(old) \/ j = Len(old) + 1)
        BY <2>4, <3>2 DEF old
      <4>2. CASE i \in 1 .. Len(old) /\ j \in 1 .. Len(old)
        BY <3>2, <3>4, <3>7, <4>2
      <4>3. CASE i \in 1 .. Len(old) /\ j = Len(old) + 1
        BY <3>2, <3>6, <3>7, <4>3
      <4>4. CASE i = Len(old) + 1 /\ j \in 1 .. Len(old)
        BY <3>2, <3>6, <3>7, <4>4
      <4> QED BY <4>1, <4>2, <4>3, <4>4
    <3> QED BY <3>2, <3>5, <3>7 DEF new
  <2> QED BY <2>8, <2>9
<1>5. Made(items[N], N)
  <2>1. Good \subseteq Nat
    OBVIOUS
  <2>2. N \in Good
    <3> HIDE DEF Good
    <3> QED BY <1>2, <1>3, <1>4, <2>1, SetInduction
  <2> HIDE DEF Made
  <2>3. N <= N
    BY <1>2
  <2> QED BY <2>2, <2>3
<1>7. \A k \in Keys : Seen(k, N) <=> Shown(file, document, k, filter)
  BY <1>2
<1> DEFINE queue == Queue(file, document, filter)
<1>8. queue = items[N]
  BY <1>1
<1>9. Made(queue, N)
  BY <1>5, <1>8
<1> HIDE DEF Seen, N, queue
<1>10. /\ queue \in Seq(Keys)
       /\ \A k \in Keys :
            Shown(file, document, k, filter) <=> \E i \in 1 .. Len(queue) : queue[i] = k
       /\ \A i, j \in 1 .. Len(queue) : queue[i] = queue[j] => i = j
  BY <1>7, <1>9
<1> QED BY <1>10 DEF queue

-----------------------------------------------------------------------------
(* When no row is left, every translation there is is ready, and for the   *)
(* source there is: a leaf that a read reports as anything else has a row. *)
LEMMA NoRowIsDone ==
    ASSUME NEW file, NEW document, Queue(file, document, {}) = <<>>,
           NEW k \in Keys, HasLeaf(file, k)
    PROVE  EffectivelyReady(file, document, k) /\ Current(file, document, k)
<1>1. ~Shown(file, document, k, {})
  <2> DEFINE queue == Queue(file, document, {})
  <2>1. Shown(file, document, k, {}) <=> \E i \in 1 .. Len(queue) : queue[i] = k
    BY QueueFacts
  <2>2. 1 .. Len(queue) = {}
    OBVIOUS
  <2> HIDE DEF queue
  <2> QED BY <2>1, <2>2
<1>2. Reasons(file, document, k) = {} /\ ReadyLeaf(file, k)
  <2>1. Reasons(file, document, k) = {} /\ ~NotDraft(file, k)
    BY <1>1 DEF Shown
  <2>2. ~DraftLeaf(file, k)
    BY <2>1 DEF Reasons
  <2> QED BY <2>1, <2>2 DEF NotDraft
<1>3. Freshness(file, document, k) \notin ReviewReason
  BY <1>2 DEF Reasons
<1>4. Current(file, document, k)
  BY <1>3 DEF Freshness, ReviewReason
<1> QED BY <1>2, <1>4 DEF EffectivelyReady

(* When no row is left, the reads that overlay freshness report every      *)
(* translation there is as ready, and tracking covers all of them.         *)
THEOREM EmptyQueueMeansDone == QueueSpec => []EmptyQueueIsDone
<1>1. EmptyQueueIsDone
  BY NoRowIsDone DEF EmptyQueueIsDone
<1> QED BY <1>1, PTL

(* What the reader has is the beginning of the queue its version names.    *)
Reader(pc, filter, file, version, rows) ==
    [pc |-> pc, filter |-> filter, file |-> file, version |-> version, rows |-> rows]

Versioned ==
    LET version == reader.version
        queue == Queue(version.file, version.document, version.filter)
    IN  /\ reader.rows = SubSeq(queue, 1, Len(reader.rows))
        /\ Len(reader.rows) <= Len(queue)
        /\ reader.pc = "whole" => reader.rows = queue

ReaderInv ==
    /\ \E pc, filter, file, version, rows : reader = Reader(pc, filter, file, version, rows)
    /\ reader.rows \in Seq(Keys)
    /\ reader.rows # <<>> \/ reader.pc = "whole" => Versioned

(* A page goes on where the pages before it end.                           *)
LEMMA NextPage ==
    ASSUME NEW queue \in Seq(Keys), NEW offset \in Nat, offset <= Len(queue)
    PROVE  LET end == IF offset + BatchSize < Len(queue) THEN offset + BatchSize ELSE Len(queue)
               rows == SubSeq(queue, 1, offset) \o SubSeq(queue, offset + 1, end)
           IN  /\ rows \in Seq(Keys)
               /\ rows = SubSeq(queue, 1, Len(rows))
               /\ Len(rows) <= Len(queue)
               /\ ~(Len(rows) < Len(queue)) => rows = queue
<1> DEFINE end == IF offset + BatchSize < Len(queue) THEN offset + BatchSize ELSE Len(queue)
           rows == SubSeq(queue, 1, offset) \o SubSeq(queue, offset + 1, end)
<1>1. Len(queue) \in Nat /\ \A i \in 1 .. Len(queue) : queue[i] \in Keys
  BY LenProperties, ElementOfSeq
<1>2. end \in offset .. Len(queue)
  BY <1>1, QueryAssumption
<1> HIDE DEF end
<1>3. rows = SubSeq(queue, 1, end)
  <2>1. 1 \in 1 .. Len(queue) + 1 /\ offset \in 1 - 1 .. Len(queue)
    BY <1>1
  <2> QED BY <1>2, <2>1, ConcatAdjacentSubSeq
<1>4. SubSeq(queue, 1, end) \in Seq(Keys) /\ Len(SubSeq(queue, 1, end)) = end
  <2>1. 1 \in Int /\ end \in Int /\ \A i \in 1 .. end : queue[i] \in Keys
    BY <1>1, <1>2
  <2>2. /\ SubSeq(queue, 1, end) \in Seq(Keys)
        /\ Len(SubSeq(queue, 1, end)) = IF 1 <= end THEN end - 1 + 1 ELSE 0
    <3> HIDE DEF end
    <3> QED BY <2>1, SubSeqProperties
  <2> QED BY <1>1, <1>2, <2>2
<1>5. ~(end < Len(queue)) => SubSeq(queue, 1, end) = queue
  <2>1. ~(end < Len(queue)) => end = Len(queue)
    BY <1>1, <1>2
  <2> QED BY <2>1, SubSeqFull
<1>6. end <= Len(queue)
  BY <1>1, <1>2
<1> HIDE DEF rows
<1>7. /\ rows \in Seq(Keys)
      /\ rows = SubSeq(queue, 1, Len(rows))
      /\ Len(rows) <= Len(queue)
      /\ ~(Len(rows) < Len(queue)) => rows = queue
  BY <1>3, <1>4, <1>5, <1>6
<1> QED BY <1>7 DEF rows, end

(* Whatever moved in the meantime, a page that is taken belongs to the     *)
(* queue of the pages before it.                                           *)
LEMMA FetchStep ==
    ASSUME ReaderInv, Fetch PROVE ReaderInv'
<1> DEFINE version == QueueVersion(reader.file, sidecar, reader.filter)
           queue == Queue(reader.file, sidecar, reader.filter)
           rows == reader.rows \o Page(reader.file, sidecar)
<1>1. queue \in Seq(Keys)
  BY QueueFacts
<1>2. queue = Queue(version.file, version.document, version.filter)
  BY DEF QueueVersion
<1>3. /\ reader.rows = SubSeq(queue, 1, Len(reader.rows))
      /\ Len(reader.rows) \in Nat /\ Len(reader.rows) <= Len(queue)
  <2>0. reader.rows \in Seq(Keys) /\ Len(reader.rows) \in Nat
    BY LenProperties DEF ReaderInv
  <2>1. CASE reader.rows = <<>>
    <3>1. Len(reader.rows) = 0 /\ Len(queue) \in Nat
      BY <1>1, <2>1, LenProperties
    <3>2. SubSeq(queue, 1, 0) = <<>>
      BY SubSeqEmpty
    <3> QED BY <2>1, <3>1, <3>2
  <2>2. CASE reader.rows # <<>>
    <3>1. reader.version = version
      BY <2>2 DEF Fetch
    <3> HIDE DEF version, queue
    <3> QED BY <1>2, <2>0, <2>2, <3>1 DEF ReaderInv, Versioned
  <2> QED BY <2>1, <2>2
<1>4. /\ rows \in Seq(Keys)
      /\ rows = SubSeq(queue, 1, Len(rows))
      /\ Len(rows) <= Len(queue)
      /\ ~(Len(rows) < Len(queue)) => rows = queue
  <2> DEFINE offset == Len(reader.rows)
             end == IF offset + BatchSize < Len(queue) THEN offset + BatchSize ELSE Len(queue)
  <2>1. rows = SubSeq(queue, 1, offset) \o SubSeq(queue, offset + 1, end)
    BY <1>3 DEF Page
  <2> HIDE DEF queue, rows
  <2> QED BY <1>1, <1>3, <2>1, NextPage
<1>5. reader' = Reader(IF Len(rows) < Len(queue) THEN "asked" ELSE "whole",
                       reader.filter, None, version, rows)
  BY DEF Fetch, Reading, Reader
<1> HIDE DEF queue, rows, version
<1>6. /\ reader'.rows = rows /\ reader'.version = version
      /\ reader'.pc = "whole" => ~(Len(rows) < Len(queue))
  BY <1>5 DEF Reader
<1> QED BY <1>2, <1>4, <1>5, <1>6 DEF ReaderInv, Versioned

(* Who begins has no rows of another queue.                                *)
LEMMA Asked ==
    ASSUME NEW filter, reader' = Reader("asked", filter, None, None, <<>>) PROVE ReaderInv'
<1>1. reader'.rows = <<>> /\ reader'.pc # "whole" /\ <<>> \in Seq(Keys)
  BY DEF Reader
<1> QED BY <1>1 DEF ReaderInv

(* A reader who has every page has the whole queue of the two files its    *)
(* version stands for; one who is not through has a beginning of it.  The  *)
(* files may have moved any number of times between two pages.             *)
THEOREM PagesAreTheQueue == QueueSpec => []PagesMakeTheQueue
<1>1. QueueInit => ReaderInv
  <2> SUFFICES ASSUME QueueInit PROVE ReaderInv
    OBVIOUS
  <2>1. reader = Reader("idle", {}, None, None, <<>>)
    BY DEF QueueInit, NoReader, Reader
  <2>2. reader.rows = <<>> /\ reader.pc # "whole" /\ <<>> \in Seq(Keys)
    BY <2>1 DEF Reader
  <2> QED BY <2>1, <2>2 DEF ReaderInv
<1>2. ASSUME ReaderInv, [QueueNext]_queueVars PROVE ReaderInv'
  <2>1. CASE Fetch
    BY <1>2, <2>1, FetchStep
  <2>2. ASSUME NEW filter \in Filters, Ask(filter) PROVE ReaderInv'
    <3>1. reader' = Reader("asked", filter, None, None, <<>>)
      BY <2>2 DEF Ask, NoReader, Reader
    <3> QED BY <3>1, Asked
  <2>3. CASE ReadCatalog
    BY <1>2, <2>3 DEF ReadCatalog, ReaderInv, Reader, Versioned
  <2>4. CASE Restart
    <3>1. reader' = Reader("asked", reader.filter, None, None, <<>>)
      BY <2>4 DEF Restart, NoReader, Reader
    <3> QED BY <3>1, Asked
  <2>5. CASE UNCHANGED reader
    BY <1>2, <2>5 DEF ReaderInv, Versioned
  <2> QED BY <1>2, <2>1, <2>2, <2>3, <2>4, <2>5 DEF QueueNext, ReaderStep, queueVars
<1>3. ReaderInv => PagesMakeTheQueue
  BY DEF ReaderInv, Versioned, PagesMakeTheQueue
<1> QED BY <1>1, <1>2, <1>3, PTL DEF QueueSpec
=============================================================================
