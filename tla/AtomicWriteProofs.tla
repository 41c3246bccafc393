------------------------- MODULE AtomicWriteProofs -------------------------
(***************************************************************************)
(* AtomicWrite is safe for every set of files, processes and requests: the *)
(* inductive invariant is TypeOK, SafeBytes and, for every process, what   *)
(* it holds and what it has established at each point of a call.           *)
(***************************************************************************)
EXTENDS AtomicWrite, NaturalsInduction, WellFoundedInduction, TLAPS

(* Once past the lock loop a process holds every file its request names. *)
AfterLocks == Steps \ {"idle", "open", "lock"}
AfterInputs == AfterLocks \ {"inputs"}
BeforeReplace == {"orphan", "target", "create", "write", "sync", "rename"}
AfterTarget == {"create", "write", "sync", "rename"}

CallOK(p) ==
    /\ pc[p] # "idle" => req[p] \in Requests
    /\ pc[p] \notin {"idle", "open"} => DistinctLocks(req[p])
    /\ pc[p] \in {"open", "lock"} => todo[p] = req[p].inputs

LocksOK(p) == pc[p] \in AfterLocks => \A e \in LockSet(req[p]) : lock[e] = p

TempOK(p) ==
    /\ pc[p] = "sync" => temp[Target(p)] = [data |-> req[p].content, synced |-> FALSE]
    /\ pc[p] = "rename" => temp[Target(p)] = [data |-> req[p].content, synced |-> TRUE]

GuardOK(p) ==
    /\ pc[p] = "inputs" => \A i \in req[p].inputs \ todo[p] : InputMatches(disk, i)
    /\ pc[p] \in BeforeReplace => \A i \in req[p].inputs : InputMatches(disk, i)
    /\ pc[p] \in AfterTarget => Matches(disk[Target(p)], req[p].expected)
    /\ pc[p] = "done" => durable[Target(p)] = {disk[Target(p)]}

ProcessOK(p) == CallOK(p) /\ LocksOK(p) /\ TempOK(p) /\ (~Editors => GuardOK(p))

SafeBytes == \A e \in Entries : disk[e] \in States /\ durable[e] \subseteq States

IInv == TypeOK /\ SafeBytes /\ \A p \in Callers : ProcessOK(p)

-----------------------------------------------------------------------------
(* The files a request names are entries of the store. *)
LEMMA LockSetEntries ==
    ASSUME NEW r \in Requests
    PROVE  /\ r \in WriteRequest
           /\ TargetEntry(r) \in Entries
           /\ LockSet(r) \subseteq Entries
           /\ TargetEntry(r) \in LockSet(r)
           /\ \A i \in r.inputs : i \in FilePrecondition /\ Entry[i.path] \in LockSet(r)
<1>1. r \in WriteRequest
    BY RequestAssumption
<1>2. r.target \in Paths /\ r.inputs \subseteq FilePrecondition
    BY <1>1 DEF WriteRequest
<1>3. \A i \in r.inputs : i \in FilePrecondition /\ i.path \in Paths
    BY <1>2 DEF FilePrecondition
<1>. QED
    BY <1>1, <1>2, <1>3 DEF Entries, LockSet, InputEntries, TargetEntry

(* The temporary files the steps leave behind. *)
LEMMA TempValues ==
    /\ NoTemp \in TempFile
    /\ \A d \in Bytes, b \in BOOLEAN : [data |-> d, synced |-> b] \in TempFile
    /\ Torn \in Bytes
    /\ [data |-> Torn, synced |-> TRUE] \in TempFile
    /\ [data |-> Torn, synced |-> FALSE] \in TempFile
    BY DEF NoTemp, TempFile, Bytes, States

(* Initially every value is of its type. *)
LEMMA InitTypeOK == Init => TypeOK
<1>. SUFFICES ASSUME Init PROVE TypeOK
    OBVIOUS
<1>1. durable \in [Entries -> SUBSET Bytes] /\ disk \in [Entries -> Bytes]
    BY DEF Init, Bytes
<1>2. temp \in [Entries -> TempFile]
    BY TempValues DEF Init
<1>3. calls \in [Callers -> 0 .. MaxCalls]
    BY BoundAssumption DEF Init
<1>. QED
    BY <1>1, <1>2, <1>3 DEF Init, TypeOK, Steps, Answers

(* Leaving a call keeps the types of what it resets. *)
LEMMA LeaveTypes ==
    ASSUME TypeOK, NEW p \in Callers, NEW a \in Answers, Leave(p, a)
    PROVE  /\ lock' \in [Entries -> Callers \cup {Free}]
           /\ pc' \in [Callers -> Steps]
           /\ req' \in [Callers -> Requests \cup {NoCall}]
           /\ todo' \in [Callers -> SUBSET FilePrecondition]
           /\ answer' \in [Callers -> Answers]
           /\ calls' \in [Callers -> 0 .. MaxCalls]
<1>1. lock' \in [Entries -> Callers \cup {Free}]
    BY DEF TypeOK, Leave
<1>2. pc' \in [Callers -> Steps]
    BY DEF TypeOK, Leave, Goto, Steps
<1>3. req' \in [Callers -> Requests \cup {NoCall}]
    BY DEF TypeOK, Leave
<1>4. todo' \in [Callers -> SUBSET FilePrecondition]
    BY DEF TypeOK, Leave
<1>. QED
    BY <1>1, <1>2, <1>3, <1>4 DEF TypeOK, Leave

(* Every step keeps every value in its type. *)
LEMMA NextTypeOK ==
    ASSUME TypeOK, \A p \in Callers : pc[p] # "idle" => req[p] \in Requests, [Next]_vars
    PROVE  TypeOK'
<1>. USE LockSetEntries, TempValues
<1>1. ASSUME NEW p \in Callers, Begin(p) PROVE TypeOK'
    <2>1. PICK r \in Requests : /\ req' = [req EXCEPT ![p] = r]
                               /\ todo' = [todo EXCEPT ![p] = r.inputs]
        BY <1>1 DEF Begin
    <2>2. r.inputs \subseteq FilePrecondition
        BY <2>1
    <2>3. req' \in [Callers -> Requests \cup {NoCall}]
        BY <2>1 DEF TypeOK
    <2>4. todo' \in [Callers -> SUBSET FilePrecondition]
        BY <2>1, <2>2 DEF TypeOK
    <2>5. calls' \in [Callers -> 0 .. MaxCalls]
        <3>1. calls[p] + 1 \in 0 .. MaxCalls
            BY <1>1, BoundAssumption DEF Begin, TypeOK
        <3>. QED
            BY <1>1, <3>1 DEF Begin, TypeOK
    <2>6. pc' \in [Callers -> Steps] /\ answer' \in [Callers -> Answers]
        BY <1>1 DEF Begin, Goto, Steps, TypeOK, Answers
    <2>. QED
        BY <1>1, <2>3, <2>4, <2>5, <2>6 DEF Begin, TypeOK
<1>2. ASSUME NEW p \in Callers, NEW a \in Answers, Leave(p, a), UNCHANGED <<disk, durable>>,
             temp' \in [Entries -> TempFile]
      PROVE  TypeOK'
    BY <1>2, LeaveTypes DEF TypeOK
<1>3. ASSUME NEW p \in Callers, TakeLock(p) PROVE TypeOK'
    <2>1. lock' \in [Entries -> Callers \cup {Free}]
        BY <1>3 DEF TakeLock, TypeOK
    <2>. QED
        BY <1>3, <2>1 DEF TakeLock, TypeOK, Files
<1>4. ASSUME NEW p \in Callers, CompareInput(p) PROVE TypeOK'
    <2>1. todo' \in [Callers -> SUBSET FilePrecondition]
        BY <1>4 DEF CompareInput, TypeOK
    <2>. QED
        BY <1>4, <2>1 DEF CompareInput, TypeOK, Files
<1>5. ASSUME NEW p \in Callers, NEW s \in Steps, Goto(p, s), UNCHANGED <<Files, Call>>
      PROVE  TypeOK'
    BY <1>5 DEF Goto, TypeOK, Files, Call
<1>6. ASSUME NEW p \in Callers, NEW s \in Steps, Goto(p, s), UNCHANGED <<disk, durable, Call>>,
             temp' \in [Entries -> TempFile]
      PROVE  TypeOK'
    BY <1>6 DEF Goto, TypeOK, Call
<1>7. ASSUME NEW p \in Callers, Replace(p) PROVE TypeOK'
    <2>1. temp[Target(p)] \in TempFile \/ Target(p) \notin Entries
        BY DEF TypeOK
    <2>2. disk' \in [Entries -> Bytes]
        BY <1>7, <2>1 DEF Replace, TypeOK, TempFile
    <2>3. durable' \in [Entries -> SUBSET Bytes]
        BY <1>7, <2>1 DEF Replace, TypeOK, TempFile
    <2>4. temp' \in [Entries -> TempFile]
        BY <1>7 DEF Replace, TypeOK
    <2>5. pc' \in [Callers -> Steps]
        BY <1>7 DEF Replace, Goto, Steps, TypeOK
    <2>. QED
        BY <1>7, <2>2, <2>3, <2>4, <2>5 DEF Replace, TypeOK, Call
<1>8. ASSUME NEW p \in Callers, SyncDirectory(p) PROVE TypeOK'
    <2>1. durable' \in [Entries -> SUBSET Bytes]
        <3>1. disk[Target(p)] \in Bytes
            BY <1>8 DEF SyncDirectory, Target, TypeOK
        <3>. QED
            BY <1>8, <3>1 DEF SyncDirectory, TypeOK
    <2>2. pc' \in [Callers -> Steps]
        BY <1>8 DEF SyncDirectory, Goto, Steps, TypeOK
    <2>. QED
        BY <1>8, <2>1, <2>2 DEF SyncDirectory, TypeOK, Call
<1>9. ASSUME NEW p \in Callers, FailLate(p) PROVE TypeOK'
    BY <1>9, <1>5 DEF FailLate, Steps
<1>10. ASSUME NEW p \in Callers, WriteTemp(p) PROVE TypeOK'
    <2>1. req[p].content \in Bytes
        BY <1>10 DEF WriteTemp, WriteRequest, Bytes, States
    <2>2. temp' \in [Entries -> TempFile]
        BY <1>10, <2>1 DEF WriteTemp, TypeOK
    <2>. QED
        BY <1>10, <2>2, <1>6 DEF WriteTemp, Steps
<1>11. ASSUME NEW p \in Callers, CleanupOrphan(p) \/ CreateTemp(p) \/ SyncTemp(p)
       PROVE  TypeOK'
    <2>1. CASE CleanupOrphan(p)
        BY <2>1, <1>6 DEF CleanupOrphan, Steps, TypeOK
    <2>2. CASE CreateTemp(p)
        <3>1. temp' \in [Entries -> TempFile]
            BY <2>2 DEF CreateTemp, TypeOK
        <3>2. "write" \in Steps /\ "discard" \in Steps
            BY DEF Steps
        <3>3. Goto(p, "write") \/ Goto(p, "discard")
            BY <2>2 DEF CreateTemp
        <3>. QED
            BY <2>2, <3>1, <3>2, <3>3, <1>6 DEF CreateTemp
    <2>3. CASE SyncTemp(p)
        <3>1. temp' \in [Entries -> TempFile]
            BY <2>3 DEF SyncTemp, TypeOK, TempFile
        <3>. QED
            BY <2>3, <3>1, <1>6 DEF SyncTemp, Steps
    <2>. QED
        BY <1>11, <2>1, <2>2, <2>3
<1>12. ASSUME NEW p \in Callers, Discard(p) PROVE TypeOK'
    <2>1. temp' \in [Entries -> TempFile]
        BY <1>12 DEF Discard, TypeOK
    <2>. QED
        BY <1>12, <2>1, <1>2 DEF Discard, Answers
<1>13. ASSUME NEW p \in Callers,
              OpenLocks(p) \/ AllLocked(p) \/ InputsCompared(p) \/ CompareTarget(p)
       PROVE  TypeOK'
    BY <1>13, <1>5 DEF OpenLocks, AllLocked, InputsCompared, CompareTarget, Steps
<1>14. ASSUME NEW p \in Callers,
              \/ RefuseAliases(p) \/ InputConflict(p) \/ TargetConflict(p)
              \/ ReturnOk(p) \/ FailEarly(p) \/ Crash(p)
       PROVE  TypeOK'
    <2>1. \E a \in Answers : Leave(p, a) /\ UNCHANGED Files
        BY <1>14 DEF RefuseAliases, InputConflict, TargetConflict, ReturnOk, FailEarly, Crash,
               Answers
    <2>. QED
        BY <2>1, <1>2 DEF Files, TypeOK
<1>15. ASSUME PowerLoss PROVE TypeOK'
    <2>1. durable' \in [Entries -> SUBSET Bytes] /\ disk' \in [Entries -> Bytes]
        BY <1>15 DEF PowerLoss
    <2>2. temp' \in [Entries -> TempFile]
        BY <1>15 DEF PowerLoss
    <2>3. pc' \in [Callers -> Steps] /\ answer' \in [Callers -> Answers]
        BY <1>15 DEF PowerLoss, Steps, Answers
    <2>. QED
        BY <1>15, <2>1, <2>2, <2>3 DEF PowerLoss, TypeOK
<1>16. ASSUME NEW e \in Entries, ExternalEdit(e) PROVE TypeOK'
    BY <1>16 DEF ExternalEdit, TypeOK, Bytes, States
<1>17. CASE UNCHANGED vars
    BY <1>17 DEF vars, TypeOK
<1>. QED
    BY <1>1, <1>3, <1>4, <1>7, <1>8, <1>9, <1>10, <1>11, <1>12, <1>13, <1>14, <1>15,
       <1>16, <1>17 DEF Next, Step

-----------------------------------------------------------------------------
(* What a process has established survives a step that leaves its own      *)
(* control state and the files it holds as they are.                       *)
LEMMA Frame ==
    ASSUME NEW p \in Callers, TypeOK, ProcessOK(p),
           pc'[p] = pc[p], req'[p] = req[p], todo'[p] = todo[p],
           \A e \in Entries : lock[e] = p =>
               /\ lock'[e] = p
               /\ temp'[e] = temp[e]
               /\ ~Editors => disk'[e] = disk[e] /\ durable'[e] = durable[e]
    PROVE  ProcessOK(p)'
<1>1. CallOK(p)'
    BY DEF ProcessOK, CallOK
<1>2. CASE pc[p] \notin AfterLocks
    <2>1. pc[p] \notin {"inputs", "sync", "rename", "done"} \cup BeforeReplace \cup AfterTarget
        BY <1>2 DEF AfterLocks, BeforeReplace, AfterTarget, Steps
    <2>. QED
        BY <1>1, <1>2, <2>1 DEF ProcessOK, LocksOK, TempOK, GuardOK
<1>3. CASE pc[p] \in AfterLocks
    <2>1. req[p] \in Requests
        BY <1>3 DEF ProcessOK, CallOK, AfterLocks
    <2>2. \A e \in LockSet(req[p]) : e \in Entries /\ lock[e] = p
        BY <1>3, <2>1, LockSetEntries DEF ProcessOK, LocksOK
    <2>3. LocksOK(p)'
        BY <2>2 DEF LocksOK
    <2>4. Target(p) \in LockSet(req[p]) /\ Target(p)' = Target(p)
        BY <2>1, LockSetEntries DEF Target
    <2>5. TempOK(p)'
        BY <2>2, <2>4 DEF ProcessOK, TempOK
    <2>6. ASSUME ~Editors PROVE GuardOK(p)'
        <3>1. /\ disk'[Target(p)] = disk[Target(p)]
              /\ durable'[Target(p)] = durable[Target(p)]
            BY <2>2, <2>4, <2>6
        <3>2. \A i \in req[p].inputs : disk'[Entry[i.path]] = disk[Entry[i.path]]
            BY <2>1, <2>2, <2>6, LockSetEntries
        <3>3. \A i \in req[p].inputs : InputMatches(disk, i) => InputMatches(disk, i)'
            BY <3>2 DEF InputMatches
        <3>. QED
            BY <2>4, <2>6, <3>1, <3>3 DEF ProcessOK, GuardOK
    <2>. QED
        BY <1>1, <2>3, <2>5, <2>6 DEF ProcessOK
<1>. QED
    BY <1>2, <1>3

(* A step of q leaves every other process and the files it holds alone. *)
Undisturbed(q) ==
    /\ \A p \in Callers \ {q} : pc'[p] = pc[p] /\ req'[p] = req[p] /\ todo'[p] = todo[p]
    /\ \A e \in Entries : lock[e] \notin {q, Free} =>
        /\ lock'[e] = lock[e]
        /\ temp'[e] = temp[e]
        /\ disk'[e] = disk[e]
        /\ durable'[e] = durable[e]

(* What a process knows survives a step of another that does not disturb   *)
(* the files and locks it relies on.                                       *)
LEMMA OthersOK ==
    ASSUME IInv, NEW q \in Callers, Undisturbed(q), NEW p \in Callers, p # q
    PROVE  ProcessOK(p)'
<1>1. \A e \in Entries : lock[e] = p => lock[e] \notin {q, Free}
    BY FreeAssumption
<1>2. TypeOK /\ ProcessOK(p)
    BY DEF IInv
<1>. QED
    BY <1>1, <1>2, Frame DEF Undisturbed

(* The target of a process past the lock loop is a file it holds. *)
LEMMA TargetHeld ==
    ASSUME IInv, NEW q \in Callers, pc[q] \in AfterLocks
    PROVE  /\ req[q] \in Requests
           /\ Target(q) \in Entries
           /\ lock[Target(q)] = q
<1>1. req[q] \in Requests
    BY DEF IInv, ProcessOK, CallOK, AfterLocks
<1>. QED
    BY <1>1, LockSetEntries DEF IInv, ProcessOK, LocksOK, Target

(* Releasing one's own locks disturbs nobody. *)
LEMMA LeaveUndisturbed ==
    ASSUME TypeOK, NEW q \in Callers, NEW a \in Answers, Leave(q, a), UNCHANGED <<disk, durable>>,
           \A e \in Entries : lock[e] # q => temp'[e] = temp[e]
    PROVE  Undisturbed(q) /\ ProcessOK(q)'
<1>1. pc'[q] = "idle"
    BY DEF Leave, Goto, TypeOK
<1>2. ProcessOK(q)'
    BY <1>1 DEF ProcessOK, CallOK, LocksOK, TempOK, GuardOK, AfterLocks, BeforeReplace, AfterTarget
<1>3. Undisturbed(q)
    BY DEF Undisturbed, Leave, Goto, TypeOK
<1>. QED
    BY <1>2, <1>3

(* What one step of process q does to the invariant. *)
Kept(q) == SafeBytes' /\ ProcessOK(q)' /\ Undisturbed(q)

(* Up to the lock loop a call touches no file.                             *)
LEMMA BeforeLocksKept ==
    ASSUME IInv, NEW q \in Callers,
           Begin(q) \/ OpenLocks(q) \/ TakeLock(q) \/ AllLocked(q)
    PROVE  Kept(q)
<1>. USE DEF IInv
<1>0. SafeBytes'
    BY DEF Begin, OpenLocks, TakeLock, AllLocked, SafeBytes, Files
<1>1. Undisturbed(q)
    BY DEF Begin, OpenLocks, TakeLock, AllLocked, Undisturbed, Goto, Files, Call, TypeOK
<1>2. CASE Begin(q)
    <2>1. pc'[q] = "open" /\ req'[q] \in Requests /\ todo'[q] = req'[q].inputs
        BY <1>2 DEF Begin, Goto, TypeOK
    <2>. QED
        BY <1>0, <1>1, <2>1
        DEF Kept, ProcessOK, CallOK, LocksOK, TempOK, GuardOK, AfterLocks, BeforeReplace, AfterTarget
<1>3. CASE OpenLocks(q) \/ TakeLock(q)
    <2>1. /\ pc'[q] = "lock" /\ req'[q] = req[q] /\ todo'[q] = todo[q]
          /\ req[q] \in Requests /\ DistinctLocks(req[q]) /\ todo[q] = req[q].inputs
        BY <1>3 DEF OpenLocks, TakeLock, Goto, TypeOK, Call, ProcessOK, CallOK
    <2>. QED
        BY <1>0, <1>1, <2>1
        DEF Kept, ProcessOK, CallOK, LocksOK, TempOK, GuardOK, AfterLocks, BeforeReplace, AfterTarget
<1>4. CASE AllLocked(q)
    <2>1. pc'[q] = "inputs" /\ UNCHANGED Call /\ req[q] \in Requests /\ DistinctLocks(req[q])
        BY <1>4 DEF AllLocked, Goto, TypeOK, ProcessOK, CallOK
    <2>2. \A e \in LockSet(req[q]) : lock'[e] = q
        BY <1>4, <2>1, LockSetEntries DEF AllLocked, Wanted, Held, Holds, Call
    <2>3. req[q].inputs \ todo[q] = {}
        BY <1>4 DEF AllLocked, ProcessOK, CallOK
    <2>. QED
        BY <1>0, <1>1, <2>1, <2>2, <2>3
        DEF Kept, ProcessOK, CallOK, LocksOK, TempOK, GuardOK, AfterLocks, BeforeReplace, AfterTarget, Call
<1>. QED
    BY <1>2, <1>3, <1>4

(* A comparison that succeeds adds the input, or the target, to what is    *)
(* known to hold.                                                          *)
LEMMA CompareKept ==
    ASSUME IInv, NEW q \in Callers,
           \/ CompareInput(q) \/ InputsCompared(q) \/ CleanupOrphan(q) \/ CompareTarget(q)
    PROVE  Kept(q)
<1>. USE DEF IInv
<1>1. pc[q] \in {"inputs", "orphan", "target"}
    BY DEF CompareInput, InputsCompared, CleanupOrphan, CompareTarget
<1>2. req[q] \in Requests /\ Target(q) \in Entries /\ lock[Target(q)] = q
    BY <1>1, TargetHeld DEF AfterLocks, Steps
<1>3. CallOK(q) /\ LocksOK(q) /\ (~Editors => GuardOK(q))
    BY DEF ProcessOK
<1>4. UNCHANGED <<lock, req, disk, durable>>
    BY DEF CompareInput, InputsCompared, CleanupOrphan, CompareTarget, Files, Call
<1>5. SafeBytes'
    BY <1>4 DEF SafeBytes
<1>6. Undisturbed(q)
    <2>1. \A e \in Entries : lock[e] # q => temp'[e] = temp[e]
        BY <1>2 DEF CompareInput, InputsCompared, CleanupOrphan, CompareTarget, Files, TypeOK
    <2>. QED
        BY <1>4, <2>1
        DEF CompareInput, InputsCompared, CleanupOrphan, CompareTarget, Goto, Call, TypeOK, Undisturbed
<1>7. /\ pc'[q] \in {"inputs", "orphan", "target", "create"}
      /\ CallOK(q)' /\ LocksOK(q)' /\ TempOK(q)'
    <2>1. pc'[q] \in {"inputs", "orphan", "target", "create"}
        BY DEF CompareInput, InputsCompared, CleanupOrphan, CompareTarget, Goto, TypeOK
    <2>. QED
        BY <1>1, <1>3, <1>4, <2>1 DEF CallOK, LocksOK, TempOK, AfterLocks, Steps
<1>8. ASSUME ~Editors PROVE GuardOK(q)'
    <2>1. CASE CompareInput(q)
        <3>1. PICK i \in todo[q] : InputMatches(disk, i) /\ todo' = [todo EXCEPT ![q] = @ \ {i}]
            BY <2>1 DEF CompareInput
        <3>2. pc'[q] = "inputs" /\ pc[q] = "inputs" /\ todo'[q] = todo[q] \ {i}
            BY <2>1, <3>1 DEF CompareInput, TypeOK
        <3>3. \A j \in req'[q].inputs \ todo'[q] : InputMatches(disk', j)
            BY <1>3, <1>4, <1>8, <3>1, <3>2 DEF GuardOK
        <3>. QED
            BY <3>2, <3>3 DEF GuardOK, BeforeReplace, AfterTarget, InputMatches
    <2>2. CASE InputsCompared(q)
        <3>1. pc'[q] = "orphan" /\ pc[q] = "inputs" /\ todo[q] = {}
            BY <2>2 DEF InputsCompared, Goto, TypeOK
        <3>. QED
            BY <1>3, <1>4, <1>8, <3>1 DEF GuardOK, BeforeReplace, AfterTarget, InputMatches
    <2>3. CASE CleanupOrphan(q)
        <3>1. pc'[q] = "target" /\ pc[q] = "orphan"
            BY <2>3 DEF CleanupOrphan, Goto, TypeOK
        <3>. QED
            BY <1>3, <1>4, <1>8, <3>1 DEF GuardOK, BeforeReplace, AfterTarget, InputMatches
    <2>4. CASE CompareTarget(q)
        <3>1. /\ pc'[q] = "create" /\ pc[q] = "target"
              /\ Matches(disk[Target(q)], req[q].expected)
            BY <2>4 DEF CompareTarget, Goto, TypeOK
        <3>. QED
            BY <1>3, <1>4, <1>8, <3>1 DEF GuardOK, BeforeReplace, AfterTarget, InputMatches, Target
    <2>. QED
        BY <2>1, <2>2, <2>3, <2>4
<1>. QED
    BY <1>5, <1>6, <1>7, <1>8 DEF Kept, ProcessOK

(* The temporary file is touched by the holder of its target only.         *)
LEMMA TempKept ==
    ASSUME IInv, NEW q \in Callers,
           CreateTemp(q) \/ WriteTemp(q) \/ SyncTemp(q) \/ FailLate(q)
    PROVE  Kept(q)
<1>. USE DEF IInv
<1>1. pc[q] \in {"create", "write", "sync", "rename", "syncdir"}
    BY DEF CreateTemp, WriteTemp, SyncTemp, FailLate
<1>2. req[q] \in Requests /\ Target(q) \in Entries /\ lock[Target(q)] = q
    BY <1>1, TargetHeld DEF AfterLocks, Steps
<1>3. CallOK(q) /\ LocksOK(q) /\ TempOK(q) /\ (~Editors => GuardOK(q))
    BY DEF ProcessOK
<1>4. UNCHANGED <<lock, req, todo, disk, durable>>
    BY DEF CreateTemp, WriteTemp, SyncTemp, FailLate, Files, Call
<1>5. SafeBytes'
    BY <1>4 DEF SafeBytes
<1>6. Undisturbed(q)
    <2>1. \A e \in Entries : lock[e] # q => temp'[e] = temp[e]
        BY <1>2 DEF CreateTemp, WriteTemp, SyncTemp, FailLate, Files, TypeOK
    <2>. QED
        BY <1>4, <2>1 DEF CreateTemp, WriteTemp, SyncTemp, FailLate, Goto, TypeOK, Undisturbed
<1>7. \/ pc'[q] \in {"write", "discard", "discard_late"}
      \/ WriteTemp(q) /\ pc'[q] = "sync"
      \/ SyncTemp(q) /\ pc'[q] = "rename"
    BY DEF CreateTemp, WriteTemp, SyncTemp, FailLate, Goto, TypeOK
<1>8. CallOK(q)' /\ LocksOK(q)'
    BY <1>1, <1>3, <1>4, <1>7 DEF CallOK, LocksOK, AfterLocks, Steps
<1>9. TempOK(q)'
    <2>1. CASE WriteTemp(q) /\ pc'[q] = "sync"
        <3>1. temp'[Target(q)] = [data |-> req[q].content, synced |-> FALSE]
            BY <1>2, <2>1 DEF WriteTemp, TypeOK
        <3>. QED
            BY <1>4, <2>1, <3>1 DEF TempOK, Target
    <2>2. CASE SyncTemp(q) /\ pc'[q] = "rename"
        <3>1. temp[Target(q)] = [data |-> req[q].content, synced |-> FALSE]
            BY <1>3, <2>2 DEF SyncTemp, TempOK
        <3>2. temp'[Target(q)] = [data |-> temp[Target(q)].data, synced |-> TRUE]
            BY <1>2, <2>2 DEF SyncTemp, TypeOK
        <3>3. temp'[Target(q)] = [data |-> req[q].content, synced |-> TRUE]
            BY <3>1, <3>2
        <3>. QED
            BY <1>4, <2>2, <3>3 DEF TempOK, Target
    <2>. QED
        BY <1>7, <2>1, <2>2 DEF TempOK
<1>10. ASSUME ~Editors PROVE GuardOK(q)'
    <2>1. pc'[q] \in BeforeReplace => pc[q] \in BeforeReplace
        BY <1>1, <1>7 DEF BeforeReplace, SyncTemp, WriteTemp, CreateTemp, FailLate, Goto, TypeOK
    <2>2. pc'[q] \in AfterTarget => pc[q] \in AfterTarget
        BY <2>1, <1>1 DEF BeforeReplace, AfterTarget
    <2>3. pc'[q] \notin {"inputs", "done"}
        BY <1>7
    <2>. QED
        BY <1>3, <1>4, <1>10, <2>1, <2>2, <2>3 DEF GuardOK, InputMatches, Target
<1>. QED
    BY <1>5, <1>6, <1>8, <1>9, <1>10 DEF Kept, ProcessOK

(* The rename publishes the writer's own synced content, and the           *)
(* directory sync makes it the only content a power loss can leave.        *)
LEMMA PublishKept ==
    ASSUME IInv, NEW q \in Callers, Replace(q) \/ SyncDirectory(q)
    PROVE  Kept(q)
<1>. USE DEF IInv
<1>. DEFINE t == Target(q)
<1>1. pc[q] \in {"rename", "syncdir"}
    BY DEF Replace, SyncDirectory
<1>2. req[q] \in Requests /\ t \in Entries /\ lock[t] = q
    BY <1>1, TargetHeld DEF AfterLocks, Steps
<1>3. CallOK(q) /\ LocksOK(q) /\ TempOK(q)
    BY DEF ProcessOK
<1>4. UNCHANGED <<lock, req, todo>>
    BY DEF Replace, SyncDirectory, Call
<1>5. \A e \in Entries \ {t} : /\ temp'[e] = temp[e]
                                 /\ disk'[e] = disk[e]
                                 /\ durable'[e] = durable[e]
    BY <1>2 DEF Replace, SyncDirectory, TypeOK
<1>6. SafeBytes'
    <2>1. CASE Replace(q)
        <3>1. temp[t] = [data |-> req[q].content, synced |-> TRUE]
            BY <1>3, <2>1 DEF Replace, TempOK
        <3>2. req[q].content \in States
            BY <1>2, LockSetEntries DEF WriteRequest, States
        <3>3. disk'[t] = req[q].content /\ durable'[t] = durable[t] \cup {req[q].content}
            BY <1>2, <2>1, <3>1 DEF Replace, TypeOK
        <3>. QED
            BY <1>5, <3>2, <3>3 DEF SafeBytes
    <2>2. CASE SyncDirectory(q)
        <3>1. disk'[t] = disk[t] /\ durable'[t] = {disk[t]}
            BY <1>2, <2>2 DEF SyncDirectory, TypeOK
        <3>. QED
            BY <1>2, <1>5, <3>1 DEF SafeBytes
    <2>. QED
        BY <2>1, <2>2
<1>7. Undisturbed(q)
    BY <1>2, <1>4, <1>5 DEF Replace, SyncDirectory, Goto, TypeOK, Undisturbed
<1>8. \/ pc'[q] = "syncdir"
      \/ SyncDirectory(q) /\ pc'[q] = "done"
    BY DEF Replace, SyncDirectory, Goto, TypeOK
<1>9. CallOK(q)' /\ LocksOK(q)' /\ TempOK(q)'
    BY <1>1, <1>3, <1>4, <1>8 DEF CallOK, LocksOK, TempOK, AfterLocks, Steps
<1>10. GuardOK(q)'
    <2>1. CASE SyncDirectory(q)
        <3>1. durable'[t] = {disk'[t]}
            BY <1>2, <2>1 DEF SyncDirectory, TypeOK
        <3>. QED
            BY <1>4, <1>8, <3>1 DEF GuardOK, BeforeReplace, AfterTarget, Target
    <2>2. CASE pc'[q] = "syncdir"
        BY <2>2 DEF GuardOK, BeforeReplace, AfterTarget
    <2>. QED
        BY <1>8, <2>1, <2>2
<1>. QED
    BY <1>6, <1>7, <1>9, <1>10 DEF Kept, ProcessOK

(* Returning, failing or dying lets go of the files without touching them; *)
(* Discard removes the temporary file of a target still held.              *)
LEMMA LeavingKept ==
    ASSUME IInv, NEW q \in Callers,
           \/ RefuseAliases(q) \/ InputConflict(q) \/ TargetConflict(q)
           \/ ReturnOk(q) \/ FailEarly(q) \/ Crash(q) \/ Discard(q)
    PROVE  Kept(q)
<1>. USE DEF IInv
<1>1. \E a \in Answers : Leave(q, a) /\ UNCHANGED <<disk, durable>>
    BY DEF RefuseAliases, InputConflict, TargetConflict, ReturnOk, FailEarly, Crash, Discard, Files,
           Answers
<1>2. \A e \in Entries : lock[e] # q => temp'[e] = temp[e]
    <2>1. CASE Discard(q)
        <3>1. lock[Target(q)] = q
            BY <2>1, TargetHeld DEF Discard, AfterLocks, Steps
        <3>. QED
            BY <2>1, <3>1 DEF Discard, TypeOK
    <2>2. CASE ~Discard(q)
        BY <2>2 DEF RefuseAliases, InputConflict, TargetConflict, ReturnOk, FailEarly, Crash, Files
    <2>. QED
        BY <2>1, <2>2
<1>3. SafeBytes'
    BY <1>1 DEF SafeBytes
<1>. QED
    BY <1>1, <1>2, <1>3, LeaveUndisturbed DEF Kept

(* The invariant is inductive. *)
LEMMA InitInv == Init => IInv
<1>. SUFFICES ASSUME Init PROVE IInv
    OBVIOUS
<1>1. SafeBytes
    BY DEF Init, SafeBytes
<1>2. \A p \in Callers : ProcessOK(p)
    BY DEF Init, ProcessOK, CallOK, LocksOK, TempOK, GuardOK, AfterLocks, BeforeReplace, AfterTarget
<1>. QED
    BY <1>1, <1>2, InitTypeOK DEF IInv

(* Every step preserves the invariant: the process that moves by the       *)
(* lemmas above, the others because they are not disturbed.                *)
LEMMA NextInv == IInv /\ [Next]_vars => IInv'
<1>. SUFFICES ASSUME IInv, [Next]_vars PROVE IInv'
    OBVIOUS
<1>1. TypeOK'
    BY NextTypeOK DEF IInv, ProcessOK, CallOK
<1>2. ASSUME NEW q \in Callers, Kept(q) PROVE IInv'
    BY <1>1, <1>2, OthersOK DEF IInv, Kept
<1>3. ASSUME NEW q \in Callers,
             Begin(q) \/ Step(q) \/ FailEarly(q) \/ FailLate(q) \/ Crash(q)
      PROVE  IInv'
    <2>1. Kept(q)
        BY <1>3, BeforeLocksKept, CompareKept, TempKept, PublishKept, LeavingKept DEF Step
    <2>. QED
        BY <1>2, <2>1
<1>4. CASE PowerLoss
    <2>1. \A p \in Callers : ProcessOK(p)'
        BY <1>4 DEF PowerLoss, ProcessOK, CallOK, LocksOK, TempOK, GuardOK, AfterLocks,
                    BeforeReplace, AfterTarget
    <2>2. SafeBytes'
        BY <1>4 DEF PowerLoss, SafeBytes, IInv
    <2>. QED
        BY <1>1, <2>1, <2>2 DEF IInv
<1>5. ASSUME NEW e \in Entries, ExternalEdit(e) PROVE IInv'
    <2>1. SafeBytes'
        BY <1>5 DEF ExternalEdit, SafeBytes, IInv, TypeOK, States
    <2>2. ASSUME NEW p \in Callers PROVE ProcessOK(p)'
        BY <1>5, Frame DEF ExternalEdit, IInv
    <2>. QED
        BY <1>1, <2>1, <2>2 DEF IInv
<1>6. CASE UNCHANGED vars
    BY <1>6 DEF vars, IInv, TypeOK, SafeBytes, ProcessOK, CallOK, LocksOK, TempOK, GuardOK, Target,
                InputMatches
<1>. QED
    BY <1>3, <1>4, <1>5, <1>6 DEF Next

(* The strengthened invariant holds throughout, whatever the requests, the *)
(* callers and the failures.                                               *)
THEOREM Invariance == Spec => []IInv
    BY InitInv, NextInv, PTL DEF Spec

-----------------------------------------------------------------------------
(* write_and_replace: every variable of the writer always has its type.    *)
THEOREM TypeCorrect == Spec => []TypeOK
    BY Invariance, PTL DEF IInv

(* write_and_replace: no reader and no power loss ever exposes bytes that  *)
(* are not one complete content.                                           *)
THEOREM TornFree == Spec => []NeverTorn
<1>1. IInv => NeverTorn
    BY TornAssumption DEF IInv, SafeBytes, NeverTorn
<1>. QED
    BY <1>1, Invariance, PTL

(* write_and_replace: the file renamed over a target is the one this       *)
(* writer created, filled and synced under the target's lock.              *)
THEOREM OwnContent == Spec => []PublishesOwnContent
<1>1. IInv => PublishesOwnContent
    BY DEF IInv, ProcessOK, TempOK, PublishesOwnContent
<1>. QED
    BY <1>1, Invariance, PTL

(* write_guarded: what was compared under the ordered locks is still there *)
(* when the target is replaced.                                            *)
THEOREM GuardedReplace == Spec => []GuardHoldsAtReplace
<1>1. IInv => GuardHoldsAtReplace
    BY DEF IInv, ProcessOK, GuardOK, GuardHoldsAtReplace, GuardHolds, BeforeReplace,
           AfterTarget, Target
<1>. QED
    BY <1>1, Invariance, PTL

-----------------------------------------------------------------------------
(* The locks.  Every lock a process holds comes before the ones it wants.  *)
LockOrder(p) ==
    /\ pc[p] \in {"idle", "open"} => \A e \in Entries : lock[e] # p
    /\ pc[p] = "lock" => \A e \in Entries, f \in Wanted(p) : lock[e] = p => e < f

LockInv == \A p \in Callers : LockOrder(p)

(* A step of q neither moves another process nor changes what it holds.    *)
SameLocks(q) ==
    \A p \in Callers \ {q} :
        /\ pc'[p] = pc[p] /\ req'[p] = req[p]
        /\ \A e \in Entries : lock'[e] = p <=> lock[e] = p

(* A process whose position, request and locks stay keeps its order.       *)
LEMMA SameOrder ==
    ASSUME NEW p \in Callers, LockOrder(p), pc'[p] = pc[p], req'[p] = req[p],
           \A e \in Entries : lock'[e] = p <=> lock[e] = p
    PROVE  LockOrder(p)'
<1>1. Held(p)' = Held(p)
    BY DEF Held, Holds
<1>2. Wanted(p)' = Wanted(p)
    BY <1>1 DEF Wanted
<1>. QED
    BY <1>2 DEF LockOrder

(* Taking the least of the wanted locks keeps the order of one's own.      *)
LEMMA TakeLockOrdered ==
    ASSUME IInv, NEW q \in Callers, LockOrder(q), TakeLock(q)
    PROVE  LockOrder(q)' /\ SameLocks(q)
<1>1. pc[q] = "lock" /\ pc' = pc /\ req' = req
    BY DEF TakeLock
<1>2. PICK e \in Entries : NextLock(q, e) /\ lock[e] = Free /\ lock' = [lock EXCEPT ![e] = q]
    BY DEF TakeLock
<1>3. \A d \in Entries : lock'[d] = IF d = e THEN q ELSE lock[d]
    BY <1>2 DEF IInv, TypeOK
<1>4. Wanted(q)' = Wanted(q) \ {e}
    BY <1>1, <1>2, <1>3 DEF Wanted, Held, Holds
<1>5. req[q] \in Requests
    BY <1>1 DEF IInv, ProcessOK, CallOK
<1>6. Entries \subseteq Nat /\ Wanted(q) \subseteq Entries
    BY <1>5, LockSetEntries, EntryAssumption DEF Entries, Wanted
<1>7. ASSUME NEW d \in Entries, NEW f \in Wanted(q) \ {e}, lock'[d] = q PROVE d < f
    <2>1. CASE d = e
        BY <1>2, <1>6, <2>1 DEF NextLock
    <2>2. CASE d # e
        BY <1>1, <1>3, <1>7, <2>2 DEF LockOrder
    <2>. QED
        BY <2>1, <2>2
<1>8. LockOrder(q)'
    BY <1>1, <1>4, <1>7 DEF LockOrder
<1>9. SameLocks(q)
    BY <1>1, <1>2, <1>3, FreeAssumption DEF SameLocks
<1>. QED
    BY <1>8, <1>9

(* A step that takes no lock keeps the order: a call begins and opens its  *)
(* lock files with none held, and ends with none held.                     *)
LEMMA StepOrdered ==
    ASSUME IInv, NEW q \in Callers, LockOrder(q),
           Begin(q) \/ Step(q) \/ FailEarly(q) \/ FailLate(q) \/ Crash(q)
    PROVE  LockOrder(q)' /\ SameLocks(q)
<1>1. ASSUME NEW a, Leave(q, a) PROVE LockOrder(q)' /\ SameLocks(q)
    <2>1. pc'[q] = "idle" /\ \A p \in Callers \ {q} : pc'[p] = pc[p] /\ req'[p] = req[p]
        BY <1>1 DEF Leave, Goto, IInv, TypeOK
    <2>2. \A e \in Entries : lock'[e] = IF lock[e] = q THEN Free ELSE lock[e]
        BY <1>1 DEF Leave
    <2>. QED
        BY <2>1, <2>2, FreeAssumption DEF LockOrder, SameLocks
<1>2. ASSUME NEW s \in Steps, Goto(q, s), lock' = lock,
             \A p \in Callers \ {q} : req'[p] = req[p],
             s \in AfterLocks \/ (s \in {"open", "lock"} /\ pc[q] \in {"idle", "open"})
      PROVE  LockOrder(q)' /\ SameLocks(q)
    <2>1. pc'[q] = s /\ \A p \in Callers \ {q} : pc'[p] = pc[p]
        BY <1>2 DEF Goto, IInv, TypeOK
    <2>2. SameLocks(q)
        BY <1>2, <2>1 DEF SameLocks
    <2>3. CASE s \in AfterLocks
        BY <2>1, <2>2, <2>3 DEF LockOrder, AfterLocks
    <2>4. CASE s \in {"open", "lock"} /\ pc[q] \in {"idle", "open"}
        BY <1>2, <2>1, <2>2, <2>4 DEF LockOrder
    <2>. QED
        BY <1>2, <2>3, <2>4
<1>3. CASE Begin(q)
    <2>1. \A p \in Callers \ {q} : req'[p] = req[p]
        BY <1>3 DEF Begin, IInv, TypeOK
    <2>. QED
        BY <1>2, <1>3, <2>1 DEF Begin, Steps
<1>4. CASE OpenLocks(q)
    BY <1>2, <1>4 DEF OpenLocks, Call, Steps
<1>5. CASE TakeLock(q)
    BY <1>5, TakeLockOrdered
<1>6. CASE CompareInput(q)
    BY <1>6, SameOrder DEF CompareInput, SameLocks
<1>7. CASE \/ AllLocked(q) \/ InputsCompared(q) \/ CleanupOrphan(q) \/ CompareTarget(q)
           \/ WriteTemp(q) \/ SyncTemp(q) \/ SyncDirectory(q)
    BY <1>2, <1>7 DEF AllLocked, InputsCompared, CleanupOrphan, CompareTarget, WriteTemp,
                      SyncTemp, SyncDirectory, Call, Steps, AfterLocks
<1>8. CASE CreateTemp(q) \/ Replace(q) \/ FailLate(q)
    <2>1. \E s \in {"write", "discard", "syncdir", "discard_late"} : Goto(q, s)
        BY <1>8 DEF CreateTemp, Replace, FailLate
    <2>2. lock' = lock /\ req' = req
        BY <1>8 DEF CreateTemp, Replace, FailLate, Call
    <2>. QED
        BY <1>2, <2>1, <2>2 DEF Steps, AfterLocks
<1>9. CASE \/ RefuseAliases(q) \/ InputConflict(q) \/ TargetConflict(q) \/ ReturnOk(q)
           \/ Discard(q) \/ FailEarly(q) \/ Crash(q)
    BY <1>1, <1>9 DEF RefuseAliases, InputConflict, TargetConflict, ReturnOk, Discard, FailEarly,
                      Crash
<1>. QED
    BY <1>3, <1>4, <1>5, <1>6, <1>7, <1>8, <1>9 DEF Step

(* The order of the locks is kept throughout.                              *)
LEMMA LocksOrdered == Spec => [](IInv /\ LockInv)
<1>1. Init => LockInv
    BY FreeAssumption DEF Init, LockInv, LockOrder
<1>2. IInv /\ LockInv /\ [Next]_vars => LockInv'
    <2>. SUFFICES ASSUME IInv, LockInv, [Next]_vars PROVE LockInv'
        OBVIOUS
    <2>1. ASSUME NEW q \in Callers,
                 Begin(q) \/ Step(q) \/ FailEarly(q) \/ FailLate(q) \/ Crash(q)
          PROVE  LockInv'
        <3>1. LockOrder(q)' /\ SameLocks(q)
            BY <2>1, StepOrdered DEF LockInv
        <3>2. \A p \in Callers \ {q} : LockOrder(p)'
            BY <3>1, SameOrder DEF LockInv, SameLocks
        <3>. QED
            BY <3>1, <3>2 DEF LockInv
    <2>2. CASE PowerLoss
        BY <2>2, FreeAssumption DEF PowerLoss, LockInv, LockOrder
    <2>3. ASSUME NEW e \in Entries, ExternalEdit(e) PROVE LockInv'
        BY <2>3, SameOrder DEF ExternalEdit, LockInv
    <2>4. CASE UNCHANGED vars
        BY <2>4, SameOrder DEF vars, LockInv
    <2>. QED
        BY <2>1, <2>2, <2>3, <2>4 DEF Next
<1>. QED
    BY <1>1, <1>2, InitInv, NextInv, PTL DEF Spec

(* A bounded set of numbers has a greatest one.                            *)
LEMMA Greatest ==
    ASSUME NEW M, M \subseteq Nat, M # {}, NEW b \in Nat, \A e \in M : e <= b
    PROVE  \E m \in M : \A e \in M : e <= m
<1>. DEFINE Less == {pair \in Nat \X Nat : pair[1] < pair[2]}
            Below == {d \in Nat : \E e \in M : e + d = b}
<1>1. IsWellFoundedOn(Less, Nat)
    BY NatLessThanWellFounded DEF OpToRel
<1>2. \A a, c \in Nat : a < c => <<a, c>> \in Less
    OBVIOUS
<1>3. \A e \in M : b - e \in Below
    OBVIOUS
<1>4. Below # {} /\ Below \subseteq Nat
    BY <1>3
<1>. HIDE DEF Less
<1>5. PICK d \in Below : \A c \in Below : ~(<<c, d>> \in Less)
    BY <1>1, <1>4, WFMin
<1>6. PICK m \in M : m + d = b
    BY <1>5
<1>7. ASSUME NEW e \in M PROVE e <= m
    <2>1. ~(b - e < d)
        BY <1>2, <1>3, <1>4, <1>5
    <2>. QED
        BY <1>6, <2>1
<1>. QED
    BY <1>7

(* write_guarded: a process waits for a greater lock than any it holds, so *)
(* around a circle of waiting processes the locks would grow for ever.     *)
(* The physical identities of the files are bounded, as inode numbers are. *)
THEOREM NobodyWaitsInACircle ==
    ASSUME NEW b \in Nat, \A e \in Entries : e <= b
    PROVE  Spec => []NoCircularWait
<1>1. ASSUME IInv, LockInv PROVE NoCircularWait
    <2>1. ASSUME NEW p \in Callers, NEW q \in Callers, WaitsFor(p, q)
          PROVE  pc[q] \notin {"idle", "open"}
        BY <1>1, <2>1 DEF WaitsFor, LockInv, LockOrder
    <2>2. ASSUME NEW S \in (SUBSET Callers) \ {{}}, \A p \in S : \E q \in S : WaitsFor(p, q)
          PROVE  FALSE
        <3>. DEFINE Waited == {e \in Entries : \E p, q \in S : /\ pc[p] = "lock"
                                                              /\ NextLock(p, e)
                                                              /\ lock[e] = q}
        <3>1. \A p \in S : pc[p] = "lock"
            BY <2>2 DEF WaitsFor
        <3>2. ASSUME NEW p \in S PROVE \E e \in Waited : NextLock(p, e)
            BY <2>2 DEF WaitsFor
        <3>3. Waited # {} /\ Waited \subseteq Nat
            BY <2>2, <3>2, EntryAssumption DEF Entries
        <3>4. PICK m \in Waited : \A e \in Waited : e <= m
            BY <3>3, Greatest
        <3>5. PICK q \in S : lock[m] = q
            BY <3>4
        <3>6. PICK f \in Waited : NextLock(q, f)
            BY <3>2
        <3>7. m < f
            BY <1>1, <3>1, <3>4, <3>5, <3>6 DEF LockInv, LockOrder, NextLock
        <3>. QED
            BY <3>3, <3>4, <3>6, <3>7
    <2>. QED
        BY <2>1, <2>2 DEF NoCircularWait
<1>. QED
    BY <1>1, LocksOrdered, PTL

-----------------------------------------------------------------------------
(* Refinement.  Phase(p) only depends on pc[p]; a step moves one process.  *)
Phases == [p \in Callers |-> Phase(p)]

(* A step of one process moves its phase alone.                            *)
LEMMA PhaseMoves ==
    ASSUME TypeOK, NEW q \in Callers, NEW s \in Steps, Goto(q, s)
    PROVE  Phases' = [Phases EXCEPT ![q] =
                        CASE s = "idle" -> "idle"
                          [] s \in {"syncdir", "done", "discard_late"} -> "committed"
                          [] OTHER -> "called"]
<1>1. pc' = [pc EXCEPT ![q] = s] /\ pc \in [Callers -> Steps]
    BY DEF Goto, TypeOK
<1>2. \A p \in Callers \ {q} : pc'[p] = pc[p]
    BY <1>1
<1>3. pc'[q] = s
    BY <1>1
<1>. QED
    BY <1>2, <1>3 DEF Phases, Phase

(* A step that stays on one side of the rename is not visible. *)
LEMMA InternalStep ==
    ASSUME TypeOK, NEW q \in Callers, NEW s \in Steps, Goto(q, s),
           \/ /\ pc[q] \in {"open", "lock", "inputs", "orphan", "target", "create", "write", "sync",
                            "rename"}
              /\ s \notin {"idle", "syncdir", "done", "discard_late"}
           \/ /\ pc[q] \in {"syncdir", "done", "discard_late"}
              /\ s \in {"syncdir", "done", "discard_late"}
    PROVE  Phases' = Phases
<1>1. \A p \in Callers : Phase(p)' = Phase(p)
    <2>1. \A p \in Callers \ {q} : pc'[p] = pc[p]
        BY DEF Goto, TypeOK
    <2>2. pc'[q] = s
        BY DEF Goto, TypeOK
    <2>3. \A p \in Callers \ {q} : Phase(p)' = Phase(p)
        BY <2>1 DEF Phase
    <2>4. Phase(q)' = Phase(q)
        BY <2>2 DEF Phase
    <2>. QED
        BY <2>3, <2>4
<1>. QED
    BY <1>1 DEF Phases

(* The abstract store speaks of the same files and requests. *)
LEMMA SameVocabulary ==
    /\ Promise!Entries = Entries
    /\ Promise!States = States
    /\ \A r : Promise!TargetEntry(r) = TargetEntry(r)
    /\ \A r : Promise!DistinctLocks(r) <=> DistinctLocks(r)
    /\ \A files, r : Promise!GuardHolds(files, r) <=> GuardHolds(files, r)
<1>1. \A r : Promise!TargetEntry(r) = TargetEntry(r) /\ Promise!InputEntries(r) = InputEntries(r)
    BY DEF Promise!TargetEntry, TargetEntry, Promise!InputEntries, InputEntries
<1>2. \A r : Promise!DistinctLocks(r) <=> DistinctLocks(r)
    BY <1>1 DEF Promise!DistinctLocks, DistinctLocks
<1>3. \A files, r : Promise!GuardHolds(files, r) <=> GuardHolds(files, r)
    BY <1>1 DEF Promise!GuardHolds, GuardHolds, Promise!InputMatches, InputMatches,
                Promise!Matches, Matches
<1>. QED
    BY <1>1, <1>2, <1>3 DEF Promise!Entries, Entries, Promise!States, States

(* The initial files, and no call, are those of the promised store.        *)
LEMMA InitImplements == Init => Promise!Init
<1>. SUFFICES ASSUME Init PROVE Promise!Init
    OBVIOUS
<1>1. [p \in Callers |-> Phase(p)] = [p \in Callers |-> "idle"]
    BY DEF Init, Phase
<1>. QED
    BY <1>1, SameVocabulary DEF Init, Promise!Init

(* Returning or dying is one of the abstract ends of a call. *)
LEMMA LeaveImplements ==
    ASSUME TypeOK, NEW q \in Callers, NEW a \in Answers, Leave(q, a), UNCHANGED <<disk, durable>>
    PROVE  Promise!Return(q, a)
<1>1. Phases' = [Phases EXCEPT ![q] = "idle"]
    BY PhaseMoves DEF Leave, Steps
<1>. QED
    BY <1>1 DEF Leave, Phases, Promise!Return

(* Replace is Commit, SyncDirectory is Settle, every way to leave a call is *)
(* one of the returns, and the other steps stutter.                        *)
LEMMA NextImplements ==
    ASSUME ~Editors, IInv, [Next]_vars
    PROVE  [Promise!Next]_(Promise!vars)
<1>. USE DEF IInv
<1>1. ASSUME Phases' = Phases, UNCHANGED <<disk, durable, req, answer>>
      PROVE  UNCHANGED Promise!vars
    BY <1>1 DEF Phases, Promise!vars
<1>2. ASSUME NEW q \in Callers, Begin(q) PROVE Promise!Invoke(q)
    <2>1. Phases' = [Phases EXCEPT ![q] = "called"]
        BY <1>2, PhaseMoves DEF Begin, Steps
    <2>2. Phases[q] = "idle"
        BY <1>2 DEF Begin, Phases, Phase
    <2>. QED
        BY <1>2, <2>1, <2>2 DEF Begin, Phases, Promise!Invoke
<1>3. ASSUME NEW q \in Callers, TakeLock(q) \/ CompareInput(q) PROVE UNCHANGED Promise!vars
    BY <1>1, <1>3 DEF TakeLock, CompareInput, Phases, Phase, Files
<1>4. ASSUME NEW q \in Callers,
             \/ OpenLocks(q) \/ AllLocked(q) \/ InputsCompared(q) \/ CleanupOrphan(q)
             \/ CompareTarget(q) \/ CreateTemp(q) \/ WriteTemp(q) \/ SyncTemp(q) \/ FailLate(q)
      PROVE  UNCHANGED Promise!vars
    <2>1. PICK s \in Steps :
            /\ Goto(q, s)
            /\ \/ /\ pc[q] \in {"open", "lock", "inputs", "orphan", "target", "create", "write",
                                 "sync", "rename"}
                  /\ s \notin {"idle", "syncdir", "done", "discard_late"}
               \/ pc[q] = "syncdir" /\ s = "discard_late"
        BY <1>4 DEF OpenLocks, AllLocked, InputsCompared, CleanupOrphan, CompareTarget,
                    CreateTemp, WriteTemp, SyncTemp, FailLate, Steps
    <2>2. Phases' = Phases
        BY <2>1, InternalStep
    <2>3. UNCHANGED <<disk, durable, req, answer>>
        BY <1>4 DEF OpenLocks, AllLocked, InputsCompared, CleanupOrphan, CompareTarget,
                    CreateTemp, WriteTemp, SyncTemp, FailLate, Files, Call
    <2>. QED
        BY <1>1, <2>2, <2>3
<1>5. ASSUME NEW q \in Callers, Replace(q) PROVE Promise!Commit(q)
    <2>1. Phases' = [Phases EXCEPT ![q] = "committed"] /\ Phases[q] = "called"
        BY <1>5, PhaseMoves DEF Replace, Steps, Phases, Phase
    <2>2. temp[Target(q)] = [data |-> req[q].content, synced |-> TRUE]
        BY <1>5 DEF Replace, ProcessOK, TempOK
    <2>3. GuardHolds(disk, req[q]) /\ DistinctLocks(req[q])
        BY <1>5 DEF Replace, ProcessOK, GuardOK, CallOK, GuardHolds, BeforeReplace, AfterTarget, Target
    <2>4. /\ disk' = [disk EXCEPT ![Target(q)] = req[q].content]
          /\ durable' = [durable EXCEPT ![Target(q)] = @ \cup {req[q].content}]
          /\ UNCHANGED <<req, answer>>
        BY <1>5, <2>2 DEF Replace, Call
    <2>. QED
        BY <2>1, <2>3, <2>4, SameVocabulary DEF Phases, Promise!Commit, Target
<1>6. ASSUME NEW q \in Callers, SyncDirectory(q)
      PROVE  Target(q) \in Entries /\ Promise!Settle(Target(q))
    <2>1. Target(q) \in Entries
        BY <1>6, TargetHeld DEF SyncDirectory, AfterLocks, Steps
    <2>2. Phases' = Phases
        BY <1>6, InternalStep DEF SyncDirectory, Steps
    <2>. QED
        BY <1>6, <2>1, <2>2 DEF SyncDirectory, Phases, Promise!Settle, Call
<1>7. ASSUME NEW q \in Callers, RefuseAliases(q) \/ InputConflict(q) \/ TargetConflict(q)
      PROVE  Promise!ReturnRefused(q)
    <2>1. Promise!Return(q, "refused")
        BY <1>7, LeaveImplements
        DEF RefuseAliases, InputConflict, TargetConflict, Files, Answers
    <2>2. [p \in Callers |-> Phase(p)][q] = "called"
        BY <1>7 DEF RefuseAliases, InputConflict, TargetConflict, Phase
    <2>. QED
        BY <2>1, <2>2 DEF Promise!ReturnRefused
<1>8. ASSUME NEW q \in Callers, ReturnOk(q) PROVE Promise!ReturnOk(q)
    <2>1. Promise!Return(q, "ok")
        BY <1>8, LeaveImplements DEF ReturnOk, Files, Answers
    <2>2. [p \in Callers |-> Phase(p)][q] = "committed"
        BY <1>8 DEF ReturnOk, Phase
    <2>3. durable[Target(q)] = {disk[Target(q)]}
        BY <1>8 DEF ReturnOk, ProcessOK, GuardOK
    <2>. QED
        BY <2>1, <2>2, <2>3, SameVocabulary DEF Promise!ReturnOk, Target
<1>9. ASSUME NEW q \in Callers, FailEarly(q) \/ Discard(q) PROVE Promise!ReturnFailed(q)
    <2>1. Promise!Return(q, "failed")
        BY <1>9, LeaveImplements DEF FailEarly, Discard, Files, Answers
    <2>2. [p \in Callers |-> Phase(p)][q] # "idle"
        BY <1>9 DEF FailEarly, Discard, Phase
    <2>. QED
        BY <2>1, <2>2 DEF Promise!ReturnFailed
<1>10. ASSUME NEW q \in Callers, Crash(q) PROVE Promise!Crash(q)
    <2>1. Promise!Return(q, "none")
        BY <1>10, LeaveImplements DEF Crash, Files, Answers
    <2>2. [p \in Callers |-> Phase(p)][q] # "idle"
        BY <1>10 DEF Crash, Phase, TypeOK
    <2>. QED
        BY <2>1, <2>2 DEF Promise!Crash
<1>11. ASSUME PowerLoss PROVE Promise!PowerLoss
    <2>1. disk' \in [Entries -> States]
        BY <1>11 DEF PowerLoss, SafeBytes
    <2>2. [p \in Callers |-> Phase(p)]' = [p \in Callers |-> "idle"]
        BY <1>11 DEF PowerLoss, Phase
    <2>. QED
        BY <1>11, <2>1, <2>2, SameVocabulary DEF PowerLoss, Promise!PowerLoss
<1>12. CASE UNCHANGED vars
    BY <1>1, <1>12 DEF vars, Phases, Phase
<1>13. ASSUME NEW q \in Callers,
              Begin(q) \/ Step(q) \/ FailEarly(q) \/ FailLate(q) \/ Crash(q)
       PROVE  Promise!Next \/ UNCHANGED Promise!vars
    BY <1>2, <1>3, <1>4, <1>5, <1>6, <1>7, <1>8, <1>9, <1>10, <1>13, SameVocabulary
    DEF Step, Promise!Next
<1>. QED
    BY <1>11, <1>12, <1>13 DEF Next, Promise!Next, ExternalEdit

(* write_guarded and write: among writers that take the locks, the trait's *)
(* promise of one indivisible compare-and-replace is kept, acknowledged    *)
(* writes survive a power loss and a refused call has replaced nothing.    *)
THEOREM StoreImplements ==
    ASSUME ~Editors
    PROVE  Spec => KeepsPromise
<1>1. IInv /\ [Next]_vars => [Promise!Next]_(Promise!vars)
    BY NextImplements
<1>. QED
    BY <1>1, InitImplements, Invariance, PTL DEF Spec, KeepsPromise, Promise!Spec
=============================================================================
