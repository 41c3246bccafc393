----------------------------- MODULE FileStore -----------------------------
(***************************************************************************)
(* The vocabulary of the FileStore trait (src/src/io/mod.rs): files, exact *)
(* byte preconditions and write requests.  Bytes are members of Contents.  *)
(* A path is a canonical spelling; Entry gives the physical identity of    *)
(* the directory entry it names (the inode of its stable lock sidecar),    *)
(* so two spellings of one file on a case-insensitive volume share one.    *)
(***************************************************************************)
EXTENDS Naturals

CONSTANTS Paths, Entry, Contents, Absent, Any, Requests

States == Contents \cup {Absent}
Entries == {Entry[p] : p \in Paths}

(* An exact snapshot of another file that must still be there at commit. *)
FilePrecondition == [path : Paths, expected : States]

(* write, write_if_matches and write_if_inputs_match: Any is the           *)
(* unconditional write, Absent is `expected: None`.                        *)
WriteRequest == [target : Paths, content : Contents,
                 expected : States \cup {Any},
                 inputs : SUBSET FilePrecondition]

ASSUME EntryAssumption == Entry \in [Paths -> Nat]
ASSUME ContentAssumption == Absent \notin Contents
ASSUME AnyAssumption == Any \notin States
ASSUME RequestAssumption == Requests \subseteq WriteRequest

TargetEntry(r) == Entry[r.target]
InputEntries(r) == {Entry[i.path] : i \in r.inputs}

(* Mistake: the inputs are locked, the target is not. *)
LockInputs(r) == InputEntries(r)

(* Mistake: the target is locked, the inputs are not. *)
LockTarget(r) == {TargetEntry(r)}

(* Every file a guarded write names is held while it commits. *)
LockSet(r) == {TargetEntry(r)} \cup InputEntries(r)

(* No two of the paths a request names are one physical file. *)
DistinctLocks(r) ==
    /\ TargetEntry(r) \notin InputEntries(r)
    /\ \A i, j \in r.inputs : Entry[i.path] = Entry[j.path] => i = j

(* compare_expected: what is there is exactly what the caller saw. *)
Matches(actual, expected) == expected \in {Any, actual}

InputMatches(files, i) == Matches(files[Entry[i.path]], i.expected)

GuardHolds(files, r) ==
    /\ Matches(files[TargetEntry(r)], r.expected)
    /\ \A i \in r.inputs : InputMatches(files, i)
=============================================================================
