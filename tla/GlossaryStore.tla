---------------------------- MODULE GlossaryStore ----------------------------
(***************************************************************************)
(* The glossary file and its clients (tools/glossary.rs,                   *)
(* guidance_operation.rs).  A client reads the file or previews an edit,   *)
(* is told the revision, and names that revision when it applies an edit;  *)
(* the server loads the file again, computes the candidate and replaces    *)
(* the bytes it loaded through the store's guarded write (what that        *)
(* promises is module GuardedStore).  Servers share nothing but the file,  *)
(* and people edit it too.                                                 *)
(***************************************************************************)
EXTENDS TerminologyRules

CONSTANTS
    Clients,
    Server,        \* Clients -> the process a client talks to
    Edits,         \* what clients ask for
    EditorFiles,   \* what an editor leaves in the file
    MaxEdits       \* editor saves

VARIABLES
    policy,    \* the glossary file
    known,     \* Clients -> the contents whose revision it was told last, or None
    session,   \* Clients -> the apply that is between its load and its write
    edits      \* editor saves so far

vars == <<policy, known, session, edits>>

-----------------------------------------------------------------------------
(* There is no file; it cannot be read or parsed, or is an alias.          *)
Absent == [schema |-> "absent"]
Unusable == [schema |-> "unusable"]

Legacy(entries) == [schema |-> "legacy", entries |-> entries]
Structured(terms) == [schema |-> "2", terms |-> terms]

NoTerms == [id \in {} |-> None]

LegacyTerms(entries) ==
    [id \in UNION {{legacy_id(locales, source) : source \in DOMAIN entries[locales]} :
                    locales \in DOMAIN entries}
        |-> legacy_term(id[2], id[3], entries[id[2]][id[3]])]

Terms(file) == IF file.schema = "legacy" THEN LegacyTerms(file.entries) ELSE file.terms

IsTerm(term) == DOMAIN term = DOMAIN legacy_term(None, None, None)

ASSUME EditorAssumption ==
    /\ MaxEdits \in Nat
    /\ \A file \in EditorFiles :
        file \notin {Absent, Unusable} /\ file.schema # "legacy" =>
            \A id \in DOMAIN file.terms : IsTerm(file.terms[id])

ASSUME EditsAssumption ==
    \A edit \in Edits :
        /\ edit.kind \in {"entries", "rules"}
        /\ edit.kind = "rules" => \A id \in DOMAIN edit.upsert : IsTerm(edit.upsert[id])

(* GuidanceSnapshot: its terms, or None when the policy is unavailable.    *)
Document(file) ==
    IF file = Absent THEN NoTerms
    ELSE IF file = Unusable \/ ~validate_glossary(Terms(file)) THEN None
    ELSE Terms(file)

needs_migration(file) == file # Absent /\ file.schema = "legacy"

(* An edit of rules, or the entries adapter.                               *)
RichEdit(terms, edit) ==
    IF edit.kind = "entries" THEN legacy_upsert(terms, edit.locales, edit.entries)
    ELSE [upsert |-> edit.upsert, remove |-> edit.remove]

Candidate(terms, edit) == apply_glossary_edit(terms, RichEdit(terms, edit))

Accepted(terms, edit) ==
    /\ edit.kind = "entries" => ~LegacyIdentityCollision(terms, edit.locales, edit.entries)
    /\ edit.kind = "rules" => DOMAIN edit.upsert \cap edit.remove = {}
    /\ validate_glossary(Candidate(terms, edit))

Idle == [pc |-> "idle", edit |-> None, expected |-> None, snapshot |-> None]

Init ==
    /\ policy \in EditorFiles \cup {Absent}
    /\ known = [c \in Clients |-> None]
    /\ session = [c \in Clients |-> Idle]
    /\ edits = 0

-----------------------------------------------------------------------------
(* Of an unavailable policy a client may not even learn a revision.        *)
get_glossary(c) ==
    /\ \E told \in {policy} \cup (IF Document(policy) = None THEN {None} ELSE {}) :
        known' = [known EXCEPT ![c] = told]
    /\ UNCHANGED <<policy, session, edits>>

(* One lock per server: it loads while no apply of its own is under way.   *)
Unlocked(c) == \A d \in Clients : Server[d] = Server[c] => session[d].pc = "idle"

(* A dry run answers the revision whether the candidate is valid or not.   *)
Preview(c) ==
    /\ Unlocked(c) /\ Document(policy) # None
    /\ \E edit \in Edits, expected \in {None, known[c]} :
        expected # None => expected = policy
    /\ known' = [known EXCEPT ![c] = policy]
    /\ UNCHANGED <<policy, session, edits>>

(* Mistake: the revision the client names is not looked at.                *)
LoadWhatever(c) ==
    /\ Unlocked(c) /\ Document(policy) # None
    /\ known[c] # None
    /\ \E edit \in Edits :
        /\ Accepted(Document(policy), edit)
        /\ Candidate(Document(policy), edit) # Document(policy) \/ needs_migration(policy)
        /\ session' = [session EXCEPT ![c] = [pc |-> "writing", edit |-> edit,
                                              expected |-> known[c], snapshot |-> policy]]
    /\ UNCHANGED <<policy, known, edits>>

(* update_glossary up to its write; an answer without a write changes      *)
(* nothing.                                                                *)
Load(c) ==
    /\ Unlocked(c) /\ Document(policy) # None
    /\ known[c] # None /\ known[c] = policy
    /\ \E edit \in Edits :
        /\ Accepted(Document(policy), edit)
        /\ Candidate(Document(policy), edit) # Document(policy) \/ needs_migration(policy)
        /\ session' = [session EXCEPT ![c] = [pc |-> "writing", edit |-> edit,
                                              expected |-> known[c], snapshot |-> policy]]
    /\ UNCHANGED <<policy, known, edits>>

Result(c) == Structured(Candidate(Document(session[c].snapshot), session[c].edit))

(* Mistake: the loaded bytes are not compared.                             *)
WriteOver(c) ==
    /\ session[c].pc = "writing"
    /\ policy' = Result(c)
    /\ known' \in {known, [known EXCEPT ![c] = policy']}
    /\ session' = [session EXCEPT ![c] = Idle]
    /\ UNCHANGED edits

(* The write takes effect; its answer carries the new revision, or it      *)
(* failed late or was lost, and the client knows the old one.              *)
Write(c) ==
    /\ session[c].pc = "writing" /\ policy = session[c].snapshot
    /\ policy' = Result(c)
    /\ known' \in {known, [known EXCEPT ![c] = policy']}
    /\ session' = [session EXCEPT ![c] = Idle]
    /\ UNCHANGED edits

(* A conflict, an I/O error or the end of the server before the write.     *)
Fail(c) ==
    /\ session[c].pc = "writing"
    /\ session' = [session EXCEPT ![c] = Idle]
    /\ UNCHANGED <<policy, known, edits>>

EditFile ==
    /\ edits < MaxEdits
    /\ policy' \in (EditorFiles \cup {Absent}) \ {policy}
    /\ edits' = edits + 1
    /\ UNCHANGED <<known, session>>

Next ==
    \/ \E c \in Clients : get_glossary(c) \/ Preview(c) \/ Load(c) \/ Write(c) \/ Fail(c)
    \/ EditFile

Spec == Init /\ [][Next]_vars

-----------------------------------------------------------------------------
(* What a server is about to write is a valid document, computed from what *)
(* its client named.                                                       *)
TypeOK ==
    /\ edits \in 0 .. MaxEdits
    /\ \A c \in Clients :
        \/ session[c] = Idle
        \/ /\ session[c].pc = "writing" /\ session[c].edit \in Edits
           /\ Document(session[c].snapshot) # None
           /\ Accepted(Document(session[c].snapshot), session[c].edit)
           /\ session[c].expected = session[c].snapshot

(* The glossary changes by an editor's save, or by one accepted edit of    *)
(* one client on exactly the contents that this client named: no rule of   *)
(* anyone is overwritten unseen, whatever interleaves and fails.           *)
AppliesToWhatWasShown ==
    [][policy' # policy =>
        \/ edits' # edits
        \/ \E c \in Clients :
            /\ session[c].expected = policy
            /\ Accepted(Document(policy), session[c].edit)
            /\ policy' = Structured(Candidate(Document(policy), session[c].edit))]_vars

(* The places of the legacy map that a document speaks of.                 *)
Places(terms) == {<<terms[id].locales, terms[id].source>> : id \in DOMAIN terms}

Addressed(terms, edit) ==
    IF edit.kind = "entries" THEN {<<edit.locales, source>> : source \in DOMAIN edit.entries}
    ELSE Places(edit.upsert)
         \cup {<<terms[id].locales, terms[id].source>> :
                id \in DOMAIN terms \cap (edit.remove \cup DOMAIN edit.upsert)}

(* Through every apply, a migration of the legacy map included: an entry   *)
(* that was put through the entries adapter reads back, or its rule is     *)
(* listed as one the entries do not stand for; and the entries nobody      *)
(* addressed read as before.                                               *)
EntriesReadBack ==
    [][\A c \in Clients :
        session[c].pc = "writing" /\ policy' # policy /\ edits' = edits /\ session'[c] # session[c] =>
            LET old == Document(policy)
                new == Document(policy')
                edit == session[c].edit
            IN  \A place \in Places(old) \cup Places(new) :
                    IF place \notin Addressed(old, edit)
                    THEN Entry(new, place[1], place[2]) = Entry(old, place[1], place[2])
                    ELSE edit.kind = "entries" =>
                        \/ Entry(new, place[1], place[2]) = edit.entries[place[2]]
                        \/ legacy_id(place[1], place[2]) \in omitted_term_ids(new, place[1])]_vars
=============================================================================
