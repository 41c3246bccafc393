--------------------------- MODULE GuardedStore ----------------------------
(***************************************************************************)
(* What the FileStore trait promises its callers (src/src/io/mod.rs,       *)
(* lines 26-50): a file is an atomic register, a write replaces it only    *)
(* while the target and every input hold the bytes the caller named, a     *)
(* refused call changes nothing, and a write reported as done survives a   *)
(* power loss.  A call may also fail after its write took effect.          *)
(***************************************************************************)
EXTENDS FileStore

CONSTANTS Callers, NoCall

VARIABLES
    store,      \* Entries -> States, what a reader sees
    survivors,  \* Entries -> the contents a power loss may leave behind
    phase,      \* Callers -> idle, called or committed
    call,       \* Callers -> the request being served, or NoCall
    answer      \* Callers -> what the last call returned

vars == <<store, survivors, phase, call, answer>>

Init ==
    /\ store \in [Entries -> States]
    /\ survivors = [e \in Entries |-> {store[e]}]
    /\ phase = [c \in Callers |-> "idle"]
    /\ call = [c \in Callers |-> NoCall]
    /\ answer = [c \in Callers |-> "none"]

Invoke(c) ==
    /\ phase[c] = "idle"
    /\ \E r \in Requests : call' = [call EXCEPT ![c] = r]
    /\ phase' = [phase EXCEPT ![c] = "called"]
    /\ answer' = [answer EXCEPT ![c] = "none"]
    /\ UNCHANGED <<store, survivors>>

(* The indivisible compare-and-replace. *)
Commit(c) ==
    LET r == call[c]
        e == TargetEntry(r)
    IN  /\ phase[c] = "called"
        /\ DistinctLocks(r)
        /\ GuardHolds(store, r)
        /\ store' = [store EXCEPT ![e] = r.content]
        /\ survivors' = [survivors EXCEPT ![e] = @ \cup {r.content}]
        /\ phase' = [phase EXCEPT ![c] = "committed"]
        /\ UNCHANGED <<call, answer>>

(* The medium catches up with what readers see. *)
Settle(e) ==
    /\ survivors' = [survivors EXCEPT ![e] = {store[e]}]
    /\ UNCHANGED <<store, phase, call, answer>>

Return(c, a) ==
    /\ phase' = [phase EXCEPT ![c] = "idle"]
    /\ call' = [call EXCEPT ![c] = NoCall]
    /\ answer' = [answer EXCEPT ![c] = a]
    /\ UNCHANGED <<store, survivors>>

(* Ok is returned only for a replacement that can no longer be lost. *)
ReturnOk(c) ==
    /\ phase[c] = "committed"
    /\ survivors[TargetEntry(call[c])] = {store[TargetEntry(call[c])]}
    /\ Return(c, "ok")

(* A conflict or an invalid path means that nothing was replaced. *)
ReturnRefused(c) == phase[c] = "called" /\ Return(c, "refused")

(* Another error may follow the replacement, and a process may die at any  *)
(* time.                                                                   *)
ReturnFailed(c) == phase[c] # "idle" /\ Return(c, "failed")

Crash(c) == phase[c] # "idle" /\ Return(c, "none")

PowerLoss ==
    /\ store' \in [Entries -> States]
    /\ \A e \in Entries : store'[e] \in survivors[e]
    /\ survivors' = [e \in Entries |-> {store'[e]}]
    /\ phase' = [c \in Callers |-> "idle"]
    /\ call' = [c \in Callers |-> NoCall]
    /\ answer' = [c \in Callers |-> "none"]

Next ==
    \/ \E c \in Callers :
        \/ Invoke(c) \/ Commit(c)
        \/ ReturnOk(c) \/ ReturnRefused(c) \/ ReturnFailed(c) \/ Crash(c)
    \/ \E e \in Entries : Settle(e)
    \/ PowerLoss

Spec == Init /\ [][Next]_vars
=============================================================================
