----------------------------- MODULE ReviewQueue -----------------------------
(***************************************************************************)
(* get_review_queue (service/workflow/queue.rs, tools/workflow.rs): which  *)
(* leaves a reviewer is shown and why, and a reader who fetches the queue  *)
(* page by page while everyone of SourceWorkflow is at work on the files.  *)
(***************************************************************************)
EXTENDS SourceWorkflow, Sequences

CONSTANTS
    Order,      \* Keys, in the order of the queue
    Filters,    \* sets of reasons that readers ask for, {} for all rows
    BatchSize

ReviewReason == {"draft", "source_changed", "untracked"}

ASSUME OrderAssumption ==
    /\ Order \in Seq(Keys)
    /\ \A k \in Keys : \E i \in DOMAIN Order : Order[i] = k
    /\ \A i, j \in DOMAIN Order : Order[i] = Order[j] => i = j
ASSUME QueryAssumption == Filters \subseteq SUBSET ReviewReason /\ BatchSize \in Nat \ {0}

VARIABLE reader   \* what it asks for, what it has read of the files, the pages it has

queueVars == <<vars, reader>>

-----------------------------------------------------------------------------
Freshness(file, document, k) ==
    IF BaselineOf(document, k) = None THEN "untracked"
    ELSE IF Current(file, document, k) THEN "current" ELSE "source_changed"

(* The record that is evidence for the leaf as it is, or None.             *)
PendingFor(file, document, k) ==
    LET record == document.pending_review[k]
    IN  IF record # None /\ Applicable(file, k, record) THEN record ELSE None

(* Mistake: records without an origin are no reason.                       *)
ReasonsOfFreshness(file, document, k) ==
    (IF DraftLeaf(file, k) THEN {"draft"} ELSE {})
    \cup ({Freshness(file, document, k)} \cap {"source_changed"})

Reasons(file, document, k) ==
    LET pending == PendingFor(file, document, k)
        evidence == IF pending = None THEN {}
                    ELSE IF pending.old_source = None THEN {"untracked"}
                    ELSE IF pending.old_source # SnapshotOf(file, document, k) THEN {"source_changed"}
                    ELSE {}
    IN  (IF DraftLeaf(file, k) THEN {"draft"} ELSE {})
        \cup (ReviewReason \cap {Freshness(file, document, k)})
        \cup evidence

(* A state that is neither ready nor a draft is a diagnostic: the row is   *)
(* shown without a reason.                                                 *)
NotDraft(file, k) == ~ReadyLeaf(file, k) /\ ~DraftLeaf(file, k)

Shown(file, document, k, filter) ==
    LET reasons == Reasons(file, document, k)
    IN  /\ HasLeaf(file, k)
        /\ reasons # {} \/ NotDraft(file, k)
        /\ filter = {} \/ reasons \cap filter # {}

(* The loop over the destinations, as far as each of them.                 *)
Queue(file, document, filter) ==
    LET items[n \in 0 .. Len(Order)] ==
            IF n = 0 THEN <<>>
            ELSE IF Shown(file, document, Order[n], filter) THEN Append(items[n - 1], Order[n])
            ELSE items[n - 1]
    IN  items[Len(Order)]

(* Mistake: a version of the catalog alone.                                *)
VersionOfCatalog(file, document, filter) ==
    [file |-> file, document |-> Unwritten, filter |-> filter]

(* queue_version: a hash of all that the queue is computed from.           *)
QueueVersion(file, document, filter) ==
    [file |-> file, document |-> document, filter |-> filter]

-----------------------------------------------------------------------------
(* asked: a page is to be fetched; catalog: the catalog has been read for  *)
(* it; whole: the last page has come.  The offset is the number of rows.   *)
NoReader == [pc |-> "idle", filter |-> {}, file |-> None, version |-> None, rows |-> <<>>]

Reading(file, document, filter, rows) ==
    [pc |-> IF Len(rows) < Len(Queue(file, document, filter)) THEN "asked" ELSE "whole",
     filter |-> filter, file |-> None,
     version |-> QueueVersion(file, document, filter), rows |-> rows]

Ask(filter) ==
    /\ reader.pc \in {"idle", "whole"}
    /\ reader' = [NoReader EXCEPT !.pc = "asked", !.filter = filter]
    /\ UNCHANGED vars

(* CatalogSnapshot::load, for each page anew.                              *)
ReadCatalog ==
    /\ reader.pc = "asked"
    /\ reader' = [reader EXCEPT !.pc = "catalog", !.file = catalog]
    /\ UNCHANGED vars

Page(file, document) ==
    LET queue == Queue(file, document, reader.filter)
        offset == Len(reader.rows)
        end == IF offset + BatchSize < Len(queue) THEN offset + BatchSize ELSE Len(queue)
    IN  SubSeq(queue, offset + 1, end)

(* The first page comes without a version, the others name the first's.    *)
Fetch ==
    LET version == QueueVersion(reader.file, sidecar, reader.filter)
    IN  /\ reader.pc = "catalog"
        /\ reader.rows = <<>> \/ reader.version = version
        /\ reader' = Reading(reader.file, sidecar, reader.filter,
                             reader.rows \o Page(reader.file, sidecar))
        /\ UNCHANGED vars

(* queue_version_mismatch: restart at offset zero.                         *)
Restart ==
    /\ reader.pc = "catalog"
    /\ reader.rows # <<>> /\ reader.version # QueueVersion(reader.file, sidecar, reader.filter)
    /\ reader' = [NoReader EXCEPT !.pc = "asked", !.filter = reader.filter]
    /\ UNCHANGED vars

ReaderStep == (\E filter \in Filters : Ask(filter)) \/ ReadCatalog \/ Fetch \/ Restart

QueueInit == Init /\ reader = NoReader
QueueNext == ReaderStep \/ (Next /\ UNCHANGED reader)
QueueSpec == QueueInit /\ [][QueueNext]_queueVars

-----------------------------------------------------------------------------
(* A reader who has every page has the whole queue of the two files its    *)
(* version stands for, in order, without a row twice or a gap; one who is  *)
(* not through has a beginning of it.                                      *)
PagesMakeTheQueue ==
    reader.rows # <<>> \/ reader.pc = "whole" =>
        LET version == reader.version
            queue == Queue(version.file, version.document, version.filter)
        IN  /\ reader.rows = SubSeq(queue, 1, Len(reader.rows))
            /\ reader.pc = "whole" => reader.rows = queue

(* When no row is left, the reads that overlay freshness report every      *)
(* translation there is as ready, and tracking covers all of them.         *)
EmptyQueueIsDone ==
    Queue(catalog, sidecar, {}) = <<>> =>
        \A k \in Keys : HasLeaf(catalog, k) =>
            EffectivelyReady(catalog, sidecar, k) /\ Current(catalog, sidecar, k)
=============================================================================
