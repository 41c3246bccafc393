---------------------------- MODULE AtomicWrite ----------------------------
(***************************************************************************)
(* src/src/io/atomic_write.rs step by step: stable lock sidecars taken in  *)
(* the order of their physical identity, the comparison of every input and *)
(* of the target, and the replacement through one temporary file per       *)
(* target, each I/O call of which may fail and between any two of which    *)
(* the process may die or the machine lose power.                          *)
(***************************************************************************)
EXTENDS FileStore

CONSTANTS
    Callers,      \* one per writing process (a server or a CLI command)
    Free,         \* no process holds the lock
    NoCall,       \* the process is not in a call
    Torn,         \* bytes that are not one complete content
    Editors,      \* whether programs that take no lock also save the files
    IOErrors,     \* whether the system calls may fail
    MaxCalls      \* calls one process makes

ASSUME FreeAssumption == Free \notin Callers
ASSUME NoCallAssumption == NoCall \notin Requests
ASSUME TornAssumption == Torn \notin States
ASSUME SwitchAssumption == Editors \in BOOLEAN /\ IOErrors \in BOOLEAN
ASSUME BoundAssumption == MaxCalls \in Nat

VARIABLES
    disk,     \* Entries -> the bytes a reader of the target gets
    durable,  \* Entries -> the bytes a power loss may leave in the target
    temp,     \* Entries -> the target's temporary file
    lock,     \* Entries -> the holder of the flock on the stable sidecar
    pc,       \* Callers -> where in write_guarded / write_locked it is
    req,      \* Callers -> the arguments of the call
    todo,     \* Callers -> the inputs it has yet to compare
    answer,   \* Callers -> what its last call returned
    calls     \* Callers -> how many calls it has started

vars == <<disk, durable, temp, lock, pc, req, todo, answer, calls>>

Bytes == States \cup {Torn}

(* synced: sync_all has returned since the last write to the file. *)
TempFile == [data : Bytes, synced : BOOLEAN]
NoTemp == [data |-> Absent, synced |-> TRUE]

Steps == {"idle", "open", "lock", "inputs", "orphan", "target", "create", "write",
          "sync", "rename", "syncdir", "done", "discard", "discard_late"}

(* Ok; a conflict or an invalid path; any other error. *)
Answers == {"none", "ok", "refused", "failed"}

TypeOK ==
    /\ disk \in [Entries -> Bytes]
    /\ durable \in [Entries -> SUBSET Bytes]
    /\ temp \in [Entries -> TempFile]
    /\ lock \in [Entries -> Callers \cup {Free}]
    /\ pc \in [Callers -> Steps]
    /\ req \in [Callers -> Requests \cup {NoCall}]
    /\ todo \in [Callers -> SUBSET FilePrecondition]
    /\ answer \in [Callers -> Answers]
    /\ calls \in [Callers -> 0 .. MaxCalls]

Init ==
    /\ disk \in [Entries -> States]
    /\ durable = [e \in Entries |-> {disk[e]}]
    /\ temp \in [Entries -> {NoTemp, [data |-> Torn, synced |-> TRUE]}]
    /\ lock = [e \in Entries |-> Free]
    /\ pc = [p \in Callers |-> "idle"]
    /\ req = [p \in Callers |-> NoCall]
    /\ todo = [p \in Callers |-> {}]
    /\ answer = [p \in Callers |-> "none"]
    /\ calls = [p \in Callers |-> 0]

-----------------------------------------------------------------------------
Holds(p, e) == lock[e] = p
Held(p) == {e \in Entries : Holds(p, e)}
Target(p) == TargetEntry(req[p])

Goto(p, step) == pc' = [pc EXCEPT ![p] = step]

(* The descriptors drop and with them their locks; the sidecar files stay. *)
Leave(p, a) ==
    /\ Goto(p, "idle")
    /\ answer' = [answer EXCEPT ![p] = a]
    /\ lock' = [e \in Entries |-> IF lock[e] = p THEN Free ELSE lock[e]]
    /\ req' = [req EXCEPT ![p] = NoCall]
    /\ todo' = [todo EXCEPT ![p] = {}]
    /\ UNCHANGED calls

Files == <<disk, durable, temp>>
Call == <<lock, req, todo, answer, calls>>

(* write, write_if_matches, write_if_inputs_match. *)
Begin(p) ==
    /\ pc[p] = "idle"
    /\ calls[p] < MaxCalls
    /\ \E r \in Requests :
        /\ req' = [req EXCEPT ![p] = r]
        /\ todo' = [todo EXCEPT ![p] = r.inputs]
    /\ Goto(p, "open")
    /\ answer' = [answer EXCEPT ![p] = "none"]
    /\ calls' = [calls EXCEPT ![p] = @ + 1]
    /\ UNCHANGED <<disk, durable, temp, lock>>

(* Equal paths and lock sidecars with one physical identity are refused    *)
(* before anything is locked: flock on a second descriptor of the same     *)
(* inode would wait for the process itself.                                *)
OpenLocks(p) ==
    /\ pc[p] = "open"
    /\ DistinctLocks(req[p])
    /\ Goto(p, "lock")
    /\ UNCHANGED <<Files, Call>>

RefuseAliases(p) ==
    /\ pc[p] = "open"
    /\ ~DistinctLocks(req[p])
    /\ Leave(p, "refused")
    /\ UNCHANGED Files

Wanted(p) == LockSet(req[p]) \ Held(p)

(* Mistake: the locks are taken in the order of the arguments. *)
NextArgument(p, e) == e \in Wanted(p) /\ (Target(p) \in Wanted(p) => e = Target(p))

(* The lock wanted next: the least identity first. *)
NextLock(p, e) == e \in Wanted(p) /\ \A f \in Wanted(p) : e <= f

(* lock_exclusive blocks until the sidecar is free. *)
TakeLock(p) ==
    /\ pc[p] = "lock"
    /\ \E e \in Entries :
        /\ NextLock(p, e)
        /\ lock[e] = Free
        /\ lock' = [lock EXCEPT ![e] = p]
    /\ UNCHANGED <<Files, pc, req, todo, answer, calls>>

AllLocked(p) ==
    /\ pc[p] = "lock"
    /\ Wanted(p) = {}
    /\ Goto(p, "inputs")
    /\ UNCHANGED <<Files, Call>>

(* One input is read and compared at a time. *)
CompareInput(p) ==
    /\ pc[p] = "inputs"
    /\ \E i \in todo[p] :
        /\ InputMatches(disk, i)
        /\ todo' = [todo EXCEPT ![p] = @ \ {i}]
    /\ UNCHANGED <<Files, lock, pc, req, answer, calls>>

InputConflict(p) ==
    /\ pc[p] = "inputs"
    /\ \E i \in todo[p] : ~InputMatches(disk, i)
    /\ Leave(p, "refused")
    /\ UNCHANGED Files

InputsCompared(p) ==
    /\ pc[p] = "inputs"
    /\ todo[p] = {}
    /\ Goto(p, "orphan")
    /\ UNCHANGED <<Files, Call>>

(* A temporary file found here was left by a dead process. *)
CleanupOrphan(p) ==
    /\ pc[p] = "orphan"
    /\ temp' = [temp EXCEPT ![Target(p)] = NoTemp]
    /\ Goto(p, "target")
    /\ UNCHANGED <<disk, durable, Call>>

CompareTarget(p) ==
    /\ pc[p] = "target"
    /\ Matches(disk[Target(p)], req[p].expected)
    /\ Goto(p, "create")
    /\ UNCHANGED <<Files, Call>>

TargetConflict(p) ==
    /\ pc[p] = "target"
    /\ ~Matches(disk[Target(p)], req[p].expected)
    /\ Leave(p, "refused")
    /\ UNCHANGED Files

-----------------------------------------------------------------------------
(* create_new fails when the file exists. *)
CreateTemp(p) ==
    /\ pc[p] = "create"
    /\ IF temp[Target(p)] = NoTemp
       THEN /\ temp' = [temp EXCEPT ![Target(p)] = [data |-> Torn, synced |-> FALSE]]
            /\ Goto(p, "write")
       ELSE /\ Goto(p, "discard")
            /\ UNCHANGED temp
    /\ UNCHANGED <<disk, durable, Call>>

WriteTemp(p) ==
    /\ pc[p] = "write"
    /\ temp' = [temp EXCEPT ![Target(p)] = [data |-> req[p].content, synced |-> FALSE]]
    /\ Goto(p, "sync")
    /\ UNCHANGED <<disk, durable, Call>>

(* Mistake: the temporary file is renamed without having been synced. *)
SkipSync(p) ==
    /\ pc[p] = "sync"
    /\ Goto(p, "rename")
    /\ UNCHANGED <<Files, Call>>

SyncTemp(p) ==
    /\ pc[p] = "sync"
    /\ temp' = [temp EXCEPT ![Target(p)] = [data |-> @.data, synced |-> TRUE]]
    /\ Goto(p, "rename")
    /\ UNCHANGED <<disk, durable, Call>>

(* rename replaces the name at once for readers; the medium may still hold *)
(* what it held before, or the new name with bytes never written out.      *)
Replace(p) ==
    LET e == Target(p)
        file == temp[e]
    IN  /\ pc[p] = "rename"
        /\ file # NoTemp
        /\ disk' = [disk EXCEPT ![e] = file.data]
        /\ durable' = [durable EXCEPT ![e] = @ \cup {file.data}
                            \cup (IF file.synced THEN {} ELSE {Torn})]
        /\ temp' = [temp EXCEPT ![e] = NoTemp]
        /\ Goto(p, "syncdir")
        /\ UNCHANGED Call

(* Mistake: Ok is reported although the directory was not synced. *)
SkipSyncDirectory(p) ==
    /\ pc[p] = "syncdir"
    /\ Goto(p, "done")
    /\ UNCHANGED <<Files, Call>>

SyncDirectory(p) ==
    /\ pc[p] = "syncdir"
    /\ durable' = [durable EXCEPT ![Target(p)] = {disk[Target(p)]}]
    /\ Goto(p, "done")
    /\ UNCHANGED <<disk, temp, Call>>

ReturnOk(p) ==
    /\ pc[p] = "done"
    /\ Leave(p, "ok")
    /\ UNCHANGED Files

(* An error before the temporary file exists is returned at once. *)
FailEarly(p) ==
    /\ IOErrors
    /\ pc[p] \in {"open", "lock", "inputs", "orphan", "target"}
    /\ Leave(p, "failed")
    /\ UNCHANGED Files

(* A later one is returned after removing the temporary file. *)
FailLate(p) ==
    /\ IOErrors
    /\ \/ /\ pc[p] \in {"create", "write", "sync", "rename"}
          /\ Goto(p, "discard")
       \/ /\ pc[p] = "syncdir"
          /\ Goto(p, "discard_late")
    /\ UNCHANGED <<Files, Call>>

(* The result of this remove_file is ignored. *)
Discard(p) ==
    /\ pc[p] \in {"discard", "discard_late"}
    /\ \/ temp' = [temp EXCEPT ![Target(p)] = NoTemp]
       \/ IOErrors /\ UNCHANGED temp
    /\ Leave(p, "failed")
    /\ UNCHANGED <<disk, durable>>

-----------------------------------------------------------------------------
(* The process dies: the kernel drops its locks, its files stay. *)
Crash(p) ==
    /\ pc[p] # "idle"
    /\ Leave(p, "none")
    /\ UNCHANGED Files

(* The machine dies: each name keeps some content the medium may hold, an  *)
(* unfinished temporary file is kept, cut short or lost.                   *)
PowerLoss ==
    /\ disk' \in [Entries -> Bytes]
    /\ \A e \in Entries : disk'[e] \in durable[e]
    /\ durable' = [e \in Entries |-> {disk'[e]}]
    /\ \/ temp' = [e \in Entries |-> NoTemp]
       \/ temp' = [e \in Entries |-> IF temp[e] = NoTemp THEN NoTemp
                                     ELSE [data |-> Torn, synced |-> TRUE]]
    /\ lock' = [e \in Entries |-> Free]
    /\ pc' = [p \in Callers |-> "idle"]
    /\ req' = [p \in Callers |-> NoCall]
    /\ todo' = [p \in Callers |-> {}]
    /\ answer' = [p \in Callers |-> "none"]
    /\ UNCHANGED calls

(* A program that takes no lock saves the file, itself atomically. *)
ExternalEdit(e) ==
    /\ Editors
    /\ \E c \in Contents :
        /\ disk' = [disk EXCEPT ![e] = c]
        /\ durable' = [durable EXCEPT ![e] = @ \cup {c}]
    /\ UNCHANGED <<temp, lock, pc, req, todo, answer, calls>>

(* The steps of a call that the scheduler keeps running. *)
Step(p) ==
    \/ OpenLocks(p) \/ RefuseAliases(p) \/ TakeLock(p) \/ AllLocked(p)
    \/ CompareInput(p) \/ InputConflict(p) \/ InputsCompared(p)
    \/ CleanupOrphan(p) \/ CompareTarget(p) \/ TargetConflict(p)
    \/ CreateTemp(p) \/ WriteTemp(p) \/ SyncTemp(p) \/ Replace(p)
    \/ SyncDirectory(p) \/ ReturnOk(p) \/ Discard(p)

Next ==
    \/ \E p \in Callers : Begin(p) \/ Step(p) \/ FailEarly(p) \/ FailLate(p) \/ Crash(p)
    \/ PowerLoss
    \/ \E e \in Entries : ExternalEdit(e)

Spec == Init /\ [][Next]_vars
FairSpec == Spec /\ \A p \in Callers : WF_vars(Step(p))

-----------------------------------------------------------------------------
(* What a reader gets, now or after a power loss, is always one complete   *)
(* content: the temporary file is synced before it is renamed.             *)
NeverTorn == \A e \in Entries : Torn \notin durable[e] \cup {disk[e]}

(* The file about to be renamed holds all of what this writer was asked to *)
(* write: no orphan and no other writer's file is ever published, although *)
(* every writer of a target uses one temporary name.                       *)
PublishesOwnContent ==
    \A p \in Callers : pc[p] = "rename" =>
        temp[Target(p)] = [data |-> req[p].content, synced |-> TRUE]

(* Between the comparisons and the rename no cooperating writer can change *)
(* the target or any input: the guard compared still holds when the target *)
(* is replaced.                                                            *)
GuardHoldsAtReplace ==
    ~Editors => \A p \in Callers : pc[p] = "rename" => GuardHolds(disk, req[p])

(* p is blocked in lock_exclusive on a sidecar q has locked. *)
WaitsFor(p, q) == pc[p] = "lock" /\ \E e \in Entries : NextLock(p, e) /\ lock[e] = q

(* A call only waits for a process that is in a call itself, never for     *)
(* locks somebody left behind, and of any processes that wait one waits    *)
(* for a process outside them: however many calls, files and roles there   *)
(* are, they cannot wait for one another in a circle.                      *)
NoCircularWait ==
    /\ \A p, q \in Callers : WaitsFor(p, q) => pc[q] \notin {"idle", "open"}
    /\ \A S \in (SUBSET Callers) \ {{}} : \E p \in S : \A q \in S : ~WaitsFor(p, q)

(* The system of locks lets every call end, with success or an error, even *)
(* when two calls name the same files in opposite roles and when other     *)
(* processes die holding locks.                                            *)
EveryCallReturns == \A p \in Callers : pc[p] # "idle" ~> pc[p] = "idle"

(* Readers and callers cannot tell this from a store whose guarded write   *)
(* is one indivisible step, which refuses without a trace and whose        *)
(* acknowledged writes survive power loss.                                 *)
Phase(p) ==
    CASE pc[p] = "idle" -> "idle"
      [] pc[p] \in {"syncdir", "done", "discard_late"} -> "committed"
      [] OTHER -> "called"

Promise == INSTANCE GuardedStore WITH
    store <- disk,
    survivors <- durable,
    phase <- [p \in Callers |-> Phase(p)],
    call <- req

KeepsPromise == Promise!Spec
=============================================================================
