---------------------------- MODULE MergeSession ----------------------------
(***************************************************************************)
(* merge_xcstrings and the merge command (service/merge_operation.rs): a   *)
(* dry run reads the four files one after the other and reports their      *)
(* fingerprints and the conflicts; an apply with the resolutions and the   *)
(* fingerprints of that report reads them again, merges again and replaces *)
(* the output.  People and other programs save the files at any moment.    *)
(* A fingerprint is the SHA-256 of exact bytes, so two equal fingerprints  *)
(* are two equal files.                                                    *)
(***************************************************************************)
EXTENDS MergeEngine

CONSTANTS
    Drafts,      \* what others leave in a file: catalogs, or Missing
    Branches,    \* the triples a merge may start from
    Outputs,     \* the paths a caller may name as the output
    Missing,     \* no file
    NoPreview,   \* no report yet
    Errors(_),   \* the errors of validate_file on a catalog
    MaxSaves     \* bound on the saves of others

ASSUME DraftsAssumption ==
    Drafts \subseteq Catalogs \cup {Missing} /\ Branches \subseteq Triples /\ Missing \notin Catalogs
ASSUME SavesAssumption == MaxSaves \in Nat

Paths == {"ancestor", "ours", "theirs", "merged"}
ASSUME OutputsAssumption == Outputs \subseteq Paths

VARIABLES
    file,     \* Paths -> a catalog or Missing
    output,   \* the path named as the output
    pc,       \* the step of the call being served
    request,  \* what was asked: a dry run or an apply, with its resolutions
    seen,     \* what this call read, by role
    preview,  \* what the last reported dry run had read
    answer,   \* what the last call returned
    saves

vars == <<file, output, pc, request, seen, preview, answer, saves>>

Roles == {"base", "current", "incoming", "output"}
ASSUME PreviewAssumption == NoPreview \notin [Roles -> Catalogs \cup {Missing}]

Unread == [role \in Roles |-> Missing]

NoRequest == [dry |-> TRUE, resolutions |-> NoResolutions]

PathOf(role) ==
    CASE role = "base" -> "ancestor"
      [] role = "current" -> "ours"
      [] role = "incoming" -> "theirs"
      [] role = "output" -> output

Inputs(s) == [base |-> s.base, current |-> s.current, incoming |-> s.incoming]

Init ==
    /\ output \in Outputs
    /\ \E t \in Branches, o \in Drafts :
        file = [p \in Paths |->
                    CASE p = "ancestor" -> t.base [] p = "ours" -> t.current
                      [] p = "theirs" -> t.incoming [] p = "merged" -> o]
    /\ pc = "idle"
    /\ request = NoRequest
    /\ seen = Unread
    /\ preview = NoPreview
    /\ answer = "none"
    /\ saves = 0

(* A caller resolves some of the conflicts its report showed.              *)
Resolutions ==
    IF preview = NoPreview THEN {NoResolutions}
    ELSE UNION {[ids -> Choice] : ids \in SUBSET ConflictIds(Inputs(preview))}

(* An apply without the fingerprints of a report is refused.               *)
Call(dry) ==
    /\ pc = "idle"
    /\ dry \/ preview # NoPreview
    /\ \E r \in Resolutions : request' = [dry |-> dry, resolutions |-> r]
    /\ pc' = "base"
    /\ answer' = "none"
    /\ UNCHANGED <<file, output, seen, preview, saves>>

Finish(a) ==
    /\ pc' = "idle"
    /\ answer' = a
    /\ request' = NoRequest
    /\ seen' = Unread
    /\ UNCHANGED <<output, saves>>

Refuse == Finish("refused") /\ UNCHANGED <<file, preview>>

Read(role, next) ==
    /\ pc = role
    /\ file[PathOf(role)] # Missing
    /\ seen' = [seen EXCEPT ![role] = file[PathOf(role)]]
    /\ pc' = next
    /\ UNCHANGED <<file, output, request, preview, answer, saves>>

ReadBase == Read("base", "current")
ReadCurrent == Read("current", "incoming")
ReadIncoming == Read("incoming", "exists")
ReadOutput == Read("output", "decide")

(* read_bytes fails; the output may go between `exists` and the read.      *)
NotFound ==
    /\ pc \in Roles
    /\ file[PathOf(pc)] = Missing
    /\ Refuse

(* read_if_present: an absent output is not an error.                      *)
LookForOutput ==
    /\ pc = "exists"
    /\ pc' = IF file[output] = Missing THEN "decide" ELSE "output"
    /\ UNCHANGED <<file, output, request, seen, preview, answer, saves>>

(* prepare_merge on what was read.                                         *)
Prepared == Mergeable(Inputs(seen), request.resolutions)
Result == Merge(Inputs(seen), request.resolutions)

Report ==
    /\ pc = "decide"
    /\ request.dry
    /\ Prepared
    /\ preview' = seen
    /\ Finish("reported")
    /\ UNCHANGED file

(* Mistake: the incoming catalog is not verified.                          *)
FreshButIncoming == \A role \in Roles \ {"incoming"} : seen[role] = preview[role]

(* Every file read is the file the report was made from.                   *)
Fresh == \A role \in Roles : seen[role] = preview[role]

Introduced == Errors(Result) \ Errors(seen.current)

(* Mistake: what is left unresolved takes the base.                        *)
MayApplyUnresolved == Fresh /\ Prepared /\ Introduced = {}

(* Mistake: the result is not validated.                                   *)
MayApplyInvalid ==
    Fresh /\ Prepared /\ Unresolved(Inputs(seen), request.resolutions) = {}

MayApply ==
    /\ Fresh
    /\ Prepared
    /\ Unresolved(Inputs(seen), request.resolutions) = {}
    /\ Introduced = {}

Accept ==
    /\ pc = "decide"
    /\ ~request.dry
    /\ MayApply
    /\ pc' = "write"
    /\ UNCHANGED <<file, output, request, seen, preview, answer, saves>>

Reject ==
    /\ pc = "decide"
    /\ IF request.dry THEN ~Prepared ELSE ~MayApply
    /\ Refuse

(* write_if_matches: what it promises is module GuardedStore.  It may fail *)
(* before it replaced the file, and after.                                 *)
Replace ==
    /\ pc = "write"
    /\ file[output] = seen.output
    /\ file' = [file EXCEPT ![output] = Result]
    /\ \E a \in {"written", "failed"} : Finish(a)
    /\ UNCHANGED preview

Conflict == pc = "write" /\ file[output] # seen.output /\ Refuse

WriteFails == pc = "write" /\ Finish("failed") /\ UNCHANGED <<file, preview>>

(* Somebody else saves or removes one of the files.                        *)
Save(p) ==
    /\ saves < MaxSaves
    /\ \E d \in Drafts \ {file[p]} : file' = [file EXCEPT ![p] = d]
    /\ saves' = saves + 1
    /\ UNCHANGED <<output, pc, request, seen, preview, answer>>

Next ==
    \/ \E dry \in BOOLEAN : Call(dry)
    \/ ReadBase \/ ReadCurrent \/ ReadIncoming \/ LookForOutput \/ ReadOutput
    \/ NotFound
    \/ Report \/ Accept \/ Reject
    \/ Replace \/ Conflict \/ WriteFails
    \/ \E p \in Paths : Save(p)

Spec == Init /\ [][Next]_vars
-----------------------------------------------------------------------------
(* Every file stays a well-formed catalog whatever is merged into it.      *)
TypeOK ==
    /\ file \in [Paths -> Catalogs \cup {Missing}]
    /\ output \in Outputs
    /\ pc \in Roles \cup {"idle", "exists", "decide", "write"}
    /\ request.dry \in BOOLEAN
    /\ \A id \in DOMAIN request.resolutions : request.resolutions[id] \in Choice
    /\ seen \in [Roles -> Catalogs \cup {Missing}]
    /\ preview \in [Roles -> Catalogs \cup {Missing}] \cup {NoPreview}
    /\ answer \in {"none", "refused", "reported", "written", "failed"}
    /\ saves \in 0..MaxSaves

(* What a call has read by each of its steps, and what it writes from.     *)
SeenOK ==
    /\ pc \notin {"idle", "base"} => seen.base # Missing
    /\ pc \notin {"idle", "base", "current"} => seen.current # Missing
    /\ pc \notin {"idle", "base", "current", "incoming"} => seen.incoming # Missing
    /\ preview # NoPreview => Missing \notin {preview.base, preview.current, preview.incoming}
    /\ pc # "idle" /\ ~request.dry => preview # NoPreview
    /\ pc = "write" => ~request.dry /\ MayApply

IInv == TypeOK /\ SeenOK

(* A step of the merge that changed the output.                            *)
Merges == pc = "write" /\ file' # file /\ saves' = saves

(* Resolutions name conflicts by place and kind, not by value.  Whatever   *)
(* others save between the report, the reads and the write, a merge is     *)
(* made from the very catalogs its caller saw and replaces the very output *)
(* its caller saw (merge_operation.rs, lines 57-63 and 105-109).           *)
AppliesWhatWasPreviewed ==
    [][Merges =>
        /\ file[output] = preview.output
        /\ file'[output] = Merge(Inputs(preview), request.resolutions)]_vars

(* A merge into the current catalog keeps every edit made there: a place   *)
(* that differs from the base keeps its value unless a conflict at or      *)
(* above it was decided by the caller.                                     *)
InPlaceKeepsEdits ==
    [][Merges /\ output = "ours" /\ preview.current = preview.output =>
        \A q \in Pointers :
            \/ file[output][q] = preview.base[q]
            \/ file'[output][q] = file[output][q]
            \/ \E p \in Above[q] \cap ConflictPointers(Inputs(preview)) :
                ConflictId(Inputs(preview), p) \in DOMAIN request.resolutions]_vars

(* Two edits, each valid alone, are not written together when the result   *)
(* has an error the current catalog did not have.                          *)
NoErrorIntroduced ==
    [][Merges => Errors(file'[output]) \subseteq Errors(preview.current)]_vars

Preparing == pc = "decide"
Clean(m) == ConflictPointers(m) = {}

(* The recursion over the three trees and its statement without recursion  *)
(* give one tree and one set of conflicts (engine.rs, lines 62-215).       *)
EngineAgrees ==
    Preparing =>
        LET m == Inputs(seen)
            done == MergeRoot(m, request.resolutions)
        IN  done.tree = Places(Result, Root) /\ done.conflicts = ConflictIds(m)

(* The recursion over subtrees comes to a merge of single values: outside  *)
(* conflicts the side that changed a place wins it, whatever the other     *)
(* side changed around it (engine.rs, lines 117-160).                      *)
ThreeWay ==
    Preparing =>
        LET m == Inputs(seen)
            result == Result
            conflicts == ConflictPointers(m)
        IN  \A q \in Pointers :
                \/ Above[q] \cap conflicts # {}
                \/ result[q] = IF m.current[q] = m.base[q] THEN m.incoming[q]
                               ELSE m.current[q]

(* "The merge never invents a value/state combination or combines future   *)
(* schema it does not understand" (README.md:276): what stands at an       *)
(* atomic node is what one of the three catalogs had there.                *)
AtomicNodesAreWhole ==
    Preparing =>
        LET result == Result
        IN  \A p \in AtomicNodes :
                \E side \in Choice : Same(result, Inputs(seen)[side], p)

(* Which branch is called current is of no consequence: with the roles     *)
(* exchanged, and the same decisions, the merge is the same.               *)
Swap(m) == [m EXCEPT !.current = m.incoming, !.incoming = m.current]
SwapSide(side) ==
    CASE side = "current" -> "incoming" [] side = "incoming" -> "current" [] side = "base" -> "base"
SwapResolutions(r) == [id \in DOMAIN r |-> SwapSide(r[id])]

Symmetric ==
    Preparing =>
        LET m == Inputs(seen)
        IN  /\ ConflictIds(Swap(m)) = ConflictIds(m)
            /\ Merge(Swap(m), SwapResolutions(request.resolutions)) = Result

(* A caller whose answer was lost previews again and finds its merge done: *)
(* a merge without conflicts, merged into once more, is clean and stays    *)
(* as it is.                                                               *)
MergedAgainIsTheSame ==
    Preparing /\ Clean(Inputs(seen)) =>
        LET again == [Inputs(seen) EXCEPT !.current = Result]
        IN  Clean(again) /\ Merge(again, NoResolutions) = Result

(* The merge of whole subtrees is right place by place, and nothing the    *)
(* engine must not take apart is put together from two catalogs.           *)
PlacesMergeThreeWay == ThreeWay /\ AtomicNodesAreWhole

(* Neither the order of the branches nor a repetition changes the outcome. *)
OrderDoesNotMatter == Symmetric /\ MergedAgainIsTheSame
=============================================================================
