---------------------------- MODULE GuidanceProofs ----------------------------
(***************************************************************************)
(* Proofs about the guidance of translations: the glossary file and its    *)
(* clients, the adapter between the rules and the legacy map, what a       *)
(* report may leave out while the context of a leaf is not known, rules    *)
(* that a translation can meet together, and the repair of stale contexts. *)
(***************************************************************************)
EXTENDS Guidance, TLAPS

-----------------------------------------------------------------------------
(* The glossary file.  The invariant adds to TypeOK that the file holds    *)
(* terms with all their fields, so that an edit of one field leaves the    *)
(* others what they were.                                                  *)
TermsOnly(terms) == \A id \in DOMAIN terms : IsTerm(terms[id])

FileOK(file) == file \notin {Absent, Unusable} => TermsOnly(Terms(file))

IInv ==
    /\ TypeOK
    /\ DOMAIN session = Clients
    /\ FileOK(policy)

(* legacy_term writes out every field.                                     *)
LEMMA LegacyTermIsTerm ==
    ASSUME NEW locales, NEW source, NEW translation
    PROVE  IsTerm(legacy_term(locales, source, translation))
BY DEF legacy_term, IsTerm

LEMMA FieldEdit ==
    ASSUME NEW term, IsTerm(term), NEW forms
    PROVE  LET new == [term EXCEPT !.preferred = forms]
           IN  /\ IsTerm(new) /\ new.preferred = forms
               /\ new.locales = term.locales /\ new.source = term.source
BY DEF legacy_term, IsTerm

(* Whatever the legacy map holds, it stands for terms.                     *)
LEMMA LegacyFileOK ==
    ASSUME NEW entries
    PROVE  TermsOnly(LegacyTerms(entries))
<1>1. ASSUME NEW id \in DOMAIN LegacyTerms(entries) PROVE IsTerm(LegacyTerms(entries)[id])
    <2>1. LegacyTerms(entries)[id] = legacy_term(id[2], id[3], entries[id[2]][id[3]])
        BY <1>1 DEF LegacyTerms
    <2> QED BY <2>1, LegacyTermIsTerm
<1> QED BY <1>1 DEF TermsOnly

LEMMA EditorFileOK ==
    ASSUME NEW file \in EditorFiles \cup {Absent}
    PROVE  FileOK(file)
<1>1. CASE file.schema = "legacy"
    BY <1>1, LegacyFileOK DEF FileOK, Terms
<1>2. CASE file.schema # "legacy"
    BY <1>2, EditorAssumption DEF FileOK, Terms, TermsOnly
<1> QED BY <1>1, <1>2

(* The document of a file is made of terms.                                *)
LEMMA DocumentTerms ==
    ASSUME NEW file, FileOK(file), Document(file) # None
    PROVE  TermsOnly(Document(file))
<1>1. TermsOnly(NoTerms)
    BY DEF TermsOnly, NoTerms
<1> QED BY <1>1 DEF Document, FileOK

(* The rules that an edit puts.                                            *)
LEMMA UpsertTerms ==
    ASSUME NEW terms, TermsOnly(terms), NEW edit \in Edits
    PROVE  TermsOnly(RichEdit(terms, edit).upsert)
<1>1. CASE edit.kind = "entries"
    <2> DEFINE rich == legacy_upsert(terms, edit.locales, edit.entries)
    <2>1. ASSUME NEW id \in DOMAIN rich.upsert PROVE IsTerm(rich.upsert[id])
        <3>1. rich.upsert[id] = IF id \in DOMAIN terms
                                THEN [terms[id] EXCEPT !.preferred = {edit.entries[id[3]]}]
                                ELSE legacy_term(edit.locales, id[3], edit.entries[id[3]])
            BY <2>1 DEF legacy_upsert
        <3> QED BY <3>1, FieldEdit, LegacyTermIsTerm DEF TermsOnly
    <2> QED BY <1>1, <2>1 DEF RichEdit, TermsOnly
<1>2. CASE edit.kind = "rules"
    BY <1>2, EditsAssumption DEF RichEdit, TermsOnly
<1> QED BY <1>1, <1>2, EditsAssumption

LEMMA CandidateTerms ==
    ASSUME NEW terms, TermsOnly(terms), NEW edit \in Edits
    PROVE  TermsOnly(Candidate(terms, edit))
<1> DEFINE rich == RichEdit(terms, edit)
<1>1. TermsOnly(rich.upsert)
    BY UpsertTerms
<1>2. ASSUME NEW id \in DOMAIN Candidate(terms, edit)
      PROVE  IsTerm(Candidate(terms, edit)[id])
    <2>1. Candidate(terms, edit)[id] = IF id \in DOMAIN rich.upsert THEN rich.upsert[id] ELSE terms[id]
        BY <1>2 DEF Candidate, apply_glossary_edit
    <2>2. id \in DOMAIN rich.upsert \/ id \in DOMAIN terms
        BY <1>2 DEF Candidate, apply_glossary_edit
    <2> QED BY <1>1, <2>1, <2>2 DEF TermsOnly
<1> QED BY <1>2 DEF TermsOnly

(* What a client's write leaves in the file.                               *)
LEMMA WrittenDocument ==
    ASSUME NEW terms, validate_glossary(terms)
    PROVE  Document(Structured(terms)) = terms /\ Terms(Structured(terms)) = terms
<1>1. Structured(terms).schema = "2" /\ Structured(terms).terms = terms
    BY DEF Structured
<1>2. Structured(terms) # Absent /\ Structured(terms) # Unusable
    BY <1>1 DEF Absent, Unusable
<1>3. Terms(Structured(terms)) = terms
    BY <1>1 DEF Terms
<1> QED BY <1>2, <1>3 DEF Document

LEMMA InitInvariant == Init => IInv
<1> SUFFICES ASSUME Init PROVE IInv
    OBVIOUS
<1>1. TypeOK
    BY EditorAssumption DEF Init, TypeOK
<1>2. DOMAIN session = Clients
    BY DEF Init
<1>3. FileOK(policy)
    BY EditorFileOK DEF Init
<1> QED BY <1>1, <1>2, <1>3 DEF IInv

LEMMA WritingInvariant ==
    ASSUME IInv, NEW c \in Clients, session[c].pc = "writing"
    PROVE  /\ session[c].edit \in Edits
           /\ Document(session[c].snapshot) # None
           /\ Accepted(Document(session[c].snapshot), session[c].edit)
           /\ session[c].expected = session[c].snapshot
BY DEF IInv, TypeOK, Idle

LEMMA NextInvariant == IInv /\ [Next]_vars => IInv'
<1> SUFFICES ASSUME IInv, [Next]_vars PROVE IInv'
    OBVIOUS
<1> USE DEF IInv
<1>1. ASSUME NEW c \in Clients, get_glossary(c) PROVE IInv'
    BY <1>1 DEF get_glossary, TypeOK
<1>2. ASSUME NEW c \in Clients, Preview(c) PROVE IInv'
    BY <1>2 DEF Preview, TypeOK
<1>3. ASSUME NEW c \in Clients, Load(c) PROVE IInv'
    <2>1. PICK edit \in Edits :
            /\ Accepted(Document(policy), edit)
            /\ session' = [session EXCEPT ![c] = [pc |-> "writing", edit |-> edit,
                                                  expected |-> known[c], snapshot |-> policy]]
        BY <1>3 DEF Load
    <2>2. DOMAIN session' = Clients /\ FileOK(policy)'
        BY <1>3, <2>1 DEF Load
    <2>3. ASSUME NEW d \in Clients
          PROVE  \/ session'[d] = Idle
                 \/ /\ session'[d].pc = "writing" /\ session'[d].edit \in Edits
                    /\ Document(session'[d].snapshot) # None
                    /\ Accepted(Document(session'[d].snapshot), session'[d].edit)
                    /\ session'[d].expected = session'[d].snapshot
        <3>1. CASE d = c
            BY <1>3, <2>1, <3>1 DEF Load
        <3>2. CASE d # c
            BY <2>1, <3>2 DEF TypeOK
        <3> QED BY <3>1, <3>2
    <2>4. edits' \in 0 .. MaxEdits
        BY <1>3 DEF Load, TypeOK
    <2> QED BY <2>2, <2>3, <2>4 DEF TypeOK
<1>4. ASSUME NEW c \in Clients, Write(c) PROVE IInv'
    <2>1. /\ TypeOK'
          /\ DOMAIN session' = Clients
        BY <1>4 DEF Write, TypeOK, Idle
    <2> DEFINE terms == Document(policy)
               edit == session[c].edit
    <2>2. edit \in Edits /\ terms # None /\ Accepted(terms, edit)
        BY <1>4, WritingInvariant DEF Write
    <2>3. policy' = Structured(Candidate(terms, edit))
        BY <1>4 DEF Write, Result
    <2>4. TermsOnly(Candidate(terms, edit))
        BY <2>2, DocumentTerms, CandidateTerms
    <2>5. Terms(policy') = Candidate(terms, edit)
        BY <2>2, <2>3, WrittenDocument DEF Accepted
    <2> QED BY <2>1, <2>4, <2>5 DEF FileOK
<1>5. ASSUME NEW c \in Clients, Fail(c) PROVE IInv'
    BY <1>5 DEF Fail, TypeOK, Idle
<1>6. CASE EditFile
    <2>1. FileOK(policy')
        BY <1>6, EditorFileOK DEF EditFile
    <2>2. edits' \in 0 .. MaxEdits
        BY <1>6, EditorAssumption DEF EditFile, TypeOK
    <2> QED BY <1>6, <2>1, <2>2 DEF EditFile, TypeOK
<1>7. CASE UNCHANGED vars
    BY <1>7 DEF vars, TypeOK
<1> QED BY <1>1, <1>2, <1>3, <1>4, <1>5, <1>6, <1>7 DEF Next

(* Whatever clients, servers and editors do, a server writes only what     *)
(* accepted edits make of valid documents, computed from the contents that *)
(* its client named.                                                       *)
THEOREM TypeCorrect == Spec => []TypeOK
<1>1. IInv => TypeOK
    BY DEF IInv
<1> QED BY InitInvariant, NextInvariant, <1>1, PTL DEF Spec

(* No rule is overwritten unseen: the glossary changes by an editor's save *)
(* or by one accepted edit on exactly the contents that its client named,  *)
(* for any clients, servers, edits and files.                              *)
THEOREM NothingOverwrittenUnseen == Spec => AppliesToWhatWasShown
<1> DEFINE Applied(c) == /\ session[c].expected = policy
                         /\ Accepted(Document(policy), session[c].edit)
                         /\ policy' = Structured(Candidate(Document(policy), session[c].edit))
           A == policy' # policy => edits' # edits \/ \E c \in Clients : Applied(c)
<1>1. ASSUME IInv, [Next]_vars PROVE [A]_vars
    <2>1. ASSUME NEW c \in Clients, get_glossary(c) PROVE policy' = policy
        BY <2>1 DEF get_glossary
    <2>2. ASSUME NEW c \in Clients, Preview(c) PROVE policy' = policy
        BY <2>2 DEF Preview
    <2>3. ASSUME NEW c \in Clients, Load(c) PROVE policy' = policy
        BY <2>3 DEF Load
    <2>4. ASSUME NEW c \in Clients, Write(c) PROVE Applied(c)
        BY <1>1, <2>4, WritingInvariant DEF Write, Result
    <2>5. ASSUME NEW c \in Clients, Fail(c) PROVE policy' = policy
        BY <2>5 DEF Fail
    <2>6. ASSUME EditFile PROVE edits' # edits
        BY <1>1, <2>6, EditorAssumption DEF EditFile, IInv, TypeOK
    <2>7. ASSUME UNCHANGED vars PROVE policy' = policy
        BY <2>7 DEF vars
    <2> QED BY <1>1, <2>1, <2>2, <2>3, <2>4, <2>5, <2>6, <2>7 DEF Next
<1> QED BY InitInvariant, NextInvariant, <1>1, PTL DEF Spec, AppliesToWhatWasShown

-----------------------------------------------------------------------------
(* The entries adapter.                                                    *)

(* A rule that the adapter has put stands for its entry and no other.      *)
LEMMA AdaptedRule ==
    ASSUME NEW terms, TermsOnly(terms), NEW edit \in Edits, edit.kind = "entries",
           ~LegacyIdentityCollision(terms, edit.locales, edit.entries),
           NEW source \in DOMAIN edit.entries
    PROVE  LET id == legacy_id(edit.locales, source)
               new == Candidate(terms, edit)
           IN  /\ id \in DOMAIN new
               /\ new[id].locales = edit.locales /\ new[id].source = source
               /\ new[id].preferred = {edit.entries[source]}
<1> DEFINE id == legacy_id(edit.locales, source)
           new == Candidate(terms, edit)
           upsert == RichEdit(terms, edit).upsert
<1>1. id[3] = source
    BY DEF legacy_id
<1>2. id \in DOMAIN upsert
    BY DEF RichEdit, legacy_upsert
<1>3. upsert[id] = IF id \in DOMAIN terms
                   THEN [terms[id] EXCEPT !.preferred = {edit.entries[source]}]
                   ELSE legacy_term(edit.locales, source, edit.entries[source])
    BY <1>1, <1>2 DEF RichEdit, legacy_upsert
<1>4. id \in DOMAIN new /\ new[id] = upsert[id]
    BY <1>2 DEF Candidate, apply_glossary_edit
<1>5. CASE id \in DOMAIN terms
    <2>1. terms[id].source = source /\ terms[id].locales = edit.locales
        BY <1>5 DEF LegacyIdentityCollision
    <2>2. IsTerm(terms[id])
        BY <1>5 DEF TermsOnly
    <2> QED BY <1>3, <1>4, <1>5, <2>1, <2>2, FieldEdit
<1>6. CASE id \notin DOMAIN terms
    BY <1>3, <1>4, <1>6 DEF legacy_term
<1> QED BY <1>4, <1>5, <1>6

LEMMA PutReadsBack ==
    ASSUME NEW terms, TermsOnly(terms), NEW edit \in Edits, edit.kind = "entries",
           ~LegacyIdentityCollision(terms, edit.locales, edit.entries),
           NEW source \in DOMAIN edit.entries
    PROVE  LET new == Candidate(terms, edit)
           IN  \/ Entry(new, edit.locales, source) = edit.entries[source]
               \/ legacy_id(edit.locales, source) \in omitted_term_ids(new, edit.locales)
<1> DEFINE id == legacy_id(edit.locales, source)
           new == Candidate(terms, edit)
           simple == Simple(new, edit.locales, source)
<1>1. /\ id \in DOMAIN new
      /\ new[id].locales = edit.locales /\ new[id].source = source
      /\ new[id].preferred = {edit.entries[source]}
    BY AdaptedRule
<1>2. CASE simple = {id}
    <2>1. UNION {new[i].preferred : i \in simple} = {edit.entries[source]}
        BY <1>1, <1>2
    <2>2. Entry(new, edit.locales, source) = CHOOSE form \in {edit.entries[source]} : TRUE
        BY <1>2, <2>1 DEF Entry
    <2>3. (CHOOSE form \in {edit.entries[source]} : TRUE) = edit.entries[source]
        OBVIOUS
    <2> QED BY <2>2, <2>3
<1>3. CASE simple # {id}
    BY <1>1, <1>3 DEF omitted_term_ids
<1> QED BY <1>2, <1>3

(* An edit disturbs only the entries of the places it addresses.           *)
LEMMA OthersReadAsBefore ==
    ASSUME NEW terms, TermsOnly(terms), NEW edit \in Edits, Accepted(terms, edit),
           NEW locales, NEW source, <<locales, source>> \notin Addressed(terms, edit)
    PROVE  Entry(Candidate(terms, edit), locales, source) = Entry(terms, locales, source)
<1> DEFINE new == Candidate(terms, edit)
           rich == RichEdit(terms, edit)
           Here(t) == t.locales = locales /\ t.source = source
<1>1. ASSUME NEW id \in DOMAIN rich.upsert PROVE ~Here(rich.upsert[id])
    <2>1. CASE edit.kind = "entries"
        <3>1. PICK s \in DOMAIN edit.entries : id = legacy_id(edit.locales, s)
            BY <1>1, <2>1 DEF RichEdit, legacy_upsert
        <3>2. /\ new[id].locales = edit.locales /\ new[id].source = s
              /\ new[id] = rich.upsert[id]
            BY <1>1, <2>1, <3>1, AdaptedRule DEF Accepted, Candidate, apply_glossary_edit
        <3>3. <<edit.locales, s>> # <<locales, source>>
            BY <2>1 DEF Addressed
        <3> QED BY <3>2, <3>3
    <2>2. CASE edit.kind = "rules"
        <3>1. rich.upsert = edit.upsert
            BY <2>2 DEF RichEdit
        <3>2. <<edit.upsert[id].locales, edit.upsert[id].source>> \in Addressed(terms, edit)
            BY <1>1, <2>2, <3>1 DEF Addressed, Places
        <3> QED BY <3>1, <3>2
    <2> QED BY <2>1, <2>2, EditsAssumption
<1>2. ASSUME NEW id \in DOMAIN terms, id \in DOMAIN rich.upsert \cup rich.remove
      PROVE  ~Here(terms[id])
    <2>1. CASE edit.kind = "entries"
        <3>1. PICK s \in DOMAIN edit.entries : id = legacy_id(edit.locales, s)
            BY <1>2, <2>1 DEF RichEdit, legacy_upsert
        <3>2. terms[id].source = s /\ terms[id].locales = edit.locales
            BY <1>2, <2>1, <3>1 DEF Accepted, LegacyIdentityCollision
        <3>3. <<edit.locales, s>> # <<locales, source>>
            BY <2>1 DEF Addressed
        <3> QED BY <3>2, <3>3
    <2>2. CASE edit.kind = "rules"
        <3>1. <<terms[id].locales, terms[id].source>> \in Addressed(terms, edit)
            BY <1>2, <2>2 DEF Addressed, RichEdit
        <3> QED BY <3>1
    <2> QED BY <2>1, <2>2, EditsAssumption
<1>3. ASSUME NEW id PROVE id \in DOMAIN new /\ Here(new[id]) <=> id \in DOMAIN terms /\ Here(terms[id])
    BY <1>1, <1>2 DEF Candidate, apply_glossary_edit
<1>4. ASSUME NEW id \in DOMAIN new, Here(new[id]) PROVE new[id] = terms[id]
    BY <1>1, <1>4 DEF Candidate, apply_glossary_edit
<1>5. Simple(new, locales, source) = Simple(terms, locales, source)
    BY <1>3, <1>4 DEF Simple
<1> DEFINE here == Simple(terms, locales, source)
<1>6. \A id \in here : new[id] = terms[id]
    BY <1>4, <1>5 DEF Simple
<1> DEFINE only == \E id \in here : here = {id}
           after == UNION {new[id].preferred : id \in here}
           before == UNION {terms[id].preferred : id \in here}
           TheOne(forms) == CHOOSE form \in forms : TRUE
<1>7. after = before
    BY <1>6
<1>8. Entry(new, locales, source) = IF only THEN TheOne(after) ELSE None
    BY <1>5 DEF Entry
<1>9. Entry(terms, locales, source) = IF only THEN TheOne(before) ELSE None
    BY DEF Entry
<1> HIDE DEF only, after, before, TheOne
<1> QED BY <1>7, <1>8, <1>9

(* Through every apply of every client an entry that was put reads back or *)
(* its rule is listed as one the entries do not stand for, and entries     *)
(* nobody addressed read as before, for all rules, edits and files.        *)
THEOREM EntriesReadBackAlways == Spec => EntriesReadBack
<1> DEFINE Done(c) == session[c].pc = "writing" /\ policy' # policy /\ edits' = edits
                      /\ session'[c] # session[c]
           Reads(c) ==
            LET old == Document(policy)
                new == Document(policy')
                edit == session[c].edit
            IN  \A place \in Places(old) \cup Places(new) :
                    IF place \notin Addressed(old, edit)
                    THEN Entry(new, place[1], place[2]) = Entry(old, place[1], place[2])
                    ELSE edit.kind = "entries" =>
                        \/ Entry(new, place[1], place[2]) = edit.entries[place[2]]
                        \/ legacy_id(place[1], place[2]) \in omitted_term_ids(new, place[1])
<1>1. ASSUME IInv, [Next]_vars, NEW c \in Clients, Done(c) PROVE Write(c)
    <2>1. ASSUME NEW d \in Clients, Load(d) PROVE FALSE
        BY <1>1, <2>1 DEF Load
    <2>2. ASSUME NEW d \in Clients, get_glossary(d) \/ Preview(d) \/ Fail(d) PROVE FALSE
        BY <1>1, <2>2 DEF get_glossary, Preview, Fail
    <2>3. ASSUME NEW d \in Clients, Write(d) PROVE d = c
        BY <1>1, <2>3 DEF Write
    <2>4. ~EditFile /\ ~UNCHANGED vars
        BY <1>1 DEF EditFile, vars
    <2> QED BY <1>1, <2>1, <2>2, <2>3, <2>4 DEF Next
<1>2. ASSUME IInv, NEW c \in Clients, Write(c) PROVE Reads(c)
    <2> DEFINE old == Document(policy)
               edit == session[c].edit
               new == Candidate(old, edit)
    <2>1. edit \in Edits /\ old # None /\ Accepted(old, edit)
        BY <1>2, WritingInvariant DEF Write
    <2>2. TermsOnly(old)
        BY <1>2, <2>1, DocumentTerms DEF IInv
    <2>3. Document(policy') = new
        BY <1>2, <2>1, WrittenDocument DEF Write, Result, Accepted
    <2>4. ASSUME NEW place \in Places(old) \cup Places(new)
          PROVE  IF place \notin Addressed(old, edit)
                 THEN Entry(new, place[1], place[2]) = Entry(old, place[1], place[2])
                 ELSE edit.kind = "entries" =>
                    \/ Entry(new, place[1], place[2]) = edit.entries[place[2]]
                    \/ legacy_id(place[1], place[2]) \in omitted_term_ids(new, place[1])
        <3>1. place = <<place[1], place[2]>>
            BY <2>4 DEF Places
        <3>2. CASE place \notin Addressed(old, edit)
            BY <2>1, <2>2, <3>1, <3>2, OthersReadAsBefore
        <3>3. CASE place \in Addressed(old, edit) /\ edit.kind = "entries"
            <4>1. place[1] = edit.locales /\ place[2] \in DOMAIN edit.entries
                BY <3>3 DEF Addressed
            <4> QED BY <2>1, <2>2, <3>3, <4>1, PutReadsBack DEF Accepted
        <3> QED BY <3>2, <3>3
    <2> QED BY <2>3, <2>4
<1>3. ASSUME IInv, [Next]_vars PROVE [\A c \in Clients : Done(c) => Reads(c)]_vars
    BY <1>1, <1>2, <1>3
<1> QED BY InitInvariant, NextInvariant, <1>3, PTL DEF Spec, EntriesReadBack

-----------------------------------------------------------------------------
(* Reports.  v is u with its screen and role, if these were not known.     *)
Completes(u, v) ==
    /\ v.key = u.key /\ v.path = u.path /\ v.locales = u.locales
    /\ v.source = u.source /\ v.target = u.target
    /\ u.context.screen \in {None, v.context.screen}
    /\ u.context.role \in {None, v.context.role}

(* What is known settles a scope for good.                                 *)
LEMMA ScopesSettle ==
    ASSUME NEW u, NEW v, Completes(u, v), NEW scope
    PROVE  scope_match(scope, u) # "unknown" => scope_match(scope, v) = scope_match(scope, u)
<1>1. Excluded(scope, u) => Excluded(scope, v)
    BY DEF Completes, Excluded
<1>2. scope_match(scope, u) = "yes" => ~Excluded(scope, v)
    BY DEF Completes, Excluded, scope_match
<1>3. scope_match(scope, u) = "yes" => scope_match(scope, v) = "yes"
    BY <1>2 DEF Completes, scope_match
<1> QED BY <1>1, <1>3 DEF scope_match

LEMMA SameOccurrences ==
    ASSUME NEW u, NEW v, Completes(u, v), NEW term
    PROVE  /\ Spans(term, u) = Spans(term, v)
           /\ matched_source(term, u) = matched_source(term, v)
           /\ \A form : InTarget(term, form, u) = InTarget(term, form, v)
<1>1. \A form : Found(term, form, u) = Found(term, form, v)
    BY DEF Completes, Found
<1>2. Spans(term, u) = Spans(term, v)
    BY <1>1 DEF Spans
<1>3. matched_source(term, u) = matched_source(term, v)
    BY <1>1 DEF matched_source
<1>4. \A form : InTarget(term, form, u) = InTarget(term, form, v)
    BY DEF Completes, InTarget
<1> QED BY <1>2, <1>3, <1>4

(* A rule that is settled stays what it is, with its exceptions.           *)
LEMMA ApplicableStays ==
    ASSUME NEW u, NEW v, Completes(u, v), NEW term, applicable(term, u)
    PROVE  applicable(term, v) /\ Granted(term, v) = Granted(term, u)
<1>1. ASSUME NEW e \in term.exceptions
      PROVE  /\ scope_match(e.scope, u) = "no" \/ e \in Granted(term, u)
             /\ scope_match(e.scope, v) = scope_match(e.scope, u)
    <2>1. scope_match(e.scope, u) = "no" \/ e \in Granted(term, u)
        BY <1>1 DEF applicable
    <2>2. scope_match(e.scope, u) # "unknown"
        BY <2>1 DEF Granted
    <2> QED BY <2>1, <2>2, ScopesSettle
<1>2. Granted(term, v) = Granted(term, u)
    BY <1>1 DEF Granted
<1>3. scope_match(term.scope, v) = "yes"
    BY ScopesSettle DEF applicable
<1>4. matched_source(term, u) = matched_source(term, v)
    BY SameOccurrences
<1>5. applicable(term, v)
    BY <1>1, <1>2, <1>3, <1>4 DEF applicable
<1> QED BY <1>2, <1>5

(* More knowledge takes rules away, and only longer rules that were sure   *)
(* to apply hide shorter ones.                                             *)
LEMMA RelevantBefore ==
    ASSUME NEW terms, NEW u, NEW v, Completes(u, v)
    PROVE  relevant_terms(terms, v) \subseteq relevant_terms(terms, u)
<1>1. Candidates(terms, v) \subseteq Candidates(terms, u)
    <2>1. ASSUME NEW id \in Candidates(terms, v) PROVE id \in Candidates(terms, u)
        <3>1. scope_match(terms[id].scope, v) # "no"
            BY <2>1 DEF Candidates
        <3>2. scope_match(terms[id].scope, u) # "no"
            BY <3>1, ScopesSettle
        <3> QED BY <2>1, <3>2, SameOccurrences DEF Candidates, Completes
    <2> QED BY <2>1
<1>2. ASSUME NEW other \in Candidates(terms, u), applicable(terms[other], u)
      PROVE  other \in Candidates(terms, v) /\ applicable(terms[other], v)
    <2>1. applicable(terms[other], v)
        BY <1>2, ApplicableStays
    <2>2. scope_match(terms[other].scope, v) # "no"
        BY <2>1 DEF applicable
    <2> QED BY <1>2, <2>1, <2>2, SameOccurrences DEF Candidates, Completes
<1>3. ASSUME NEW id, Hidden(terms, u, id) PROVE Hidden(terms, v, id)
    <2>1. ASSUME NEW span \in Spans(terms[id], v)
          PROVE  \E other \in Candidates(terms, v) \ {id} :
                    /\ applicable(terms[other], v)
                    /\ \E long \in Spans(terms[other], v) : Within(span, long)
        <3>1. span \in Spans(terms[id], u)
            BY <2>1, SameOccurrences
        <3>2. PICK other \in Candidates(terms, u) \ {id} :
                /\ applicable(terms[other], u)
                /\ \E long \in Spans(terms[other], u) : Within(span, long)
            BY <1>3, <3>1 DEF Hidden
        <3>3. Spans(terms[other], u) = Spans(terms[other], v)
            BY SameOccurrences
        <3> QED BY <1>2, <3>2, <3>3
    <2> QED BY <2>1 DEF Hidden
<1> QED BY <1>1, <1>3 DEF relevant_terms

(* The verdict on a rule that could be evaluated before.                   *)
LEMMA VerdictStays ==
    ASSUME NEW terms, NEW u, NEW v, Completes(u, v),
           NEW id \in Broken(terms, v), id \in evaluated(terms, u)
    PROVE  id \in Broken(terms, u)
<1> DEFINE term == terms[id]
<1>1. applicable(term, u)
    BY DEF evaluated
<1>2. Granted(term, v) = Granted(term, u)
    BY <1>1, ApplicableStays
<1>3. /\ accepted_variants(term, v) = accepted_variants(term, u)
      /\ ignored_checks(term, v) = ignored_checks(term, u)
    BY <1>2 DEF accepted_variants, ignored_checks
<1>4. forbidden_forms(term, v) = forbidden_forms(term, u)
    BY <1>3 DEF forbidden_forms
<1>5. /\ matched_source(term, u) = matched_source(term, v)
      /\ \A form : InTarget(term, form, u) = InTarget(term, form, v)
    BY SameOccurrences
<1>6. /\ UntranslatableChanged(term, v) => UntranslatableChanged(term, u)
      /\ PreferredMissing(term, v) => PreferredMissing(term, u)
      /\ ForbiddenUsed(term, v) => ForbiddenUsed(term, u)
    BY <1>3, <1>4, <1>5 DEF UntranslatableChanged, PreferredMissing, ForbiddenUsed
<1> QED BY <1>6 DEF Broken

LEMMA NamedBefore ==
    ASSUME NEW terms, NEW u, NEW v, Completes(u, v), u.target # None
    PROVE  Broken(terms, v) \subseteq check_terminology(terms, u)
<1>1. ASSUME NEW id \in Broken(terms, v) PROVE id \in check_terminology(terms, u)
    <2>1. id \in relevant_terms(terms, u)
        BY <1>1, RelevantBefore DEF Broken, evaluated
    <2>2. CASE id \in evaluated(terms, u)
        BY <1>1, <2>2, VerdictStays DEF check_terminology
    <2>3. CASE id \notin evaluated(terms, u)
        BY <2>1, <2>3 DEF check_terminology, Unevaluated
    <2> QED BY <2>2, <2>3
<1> QED BY <1>1

(* The records of the workflow file and of a report are authored records,  *)
(* a report answers what it was asked, and an edit that is about to be     *)
(* written is what its batch makes of what was read.                       *)
RecordsOnly(contexts) == \A key \in DOMAIN contexts : contexts[key] \in Records

ReportOK ==
    report # None =>
        /\ report.terms \in Documents /\ report.use \in Uses
        /\ RecordsOnly(report.contexts)
        /\ report.answer = check_destination(report.terms, report.contexts, report.use)

ComputedEdit(edit) ==
    /\ RecordsOnly(edit.contexts) /\ edit.batch \in Batches
    /\ edit.result = apply_context_edits(edit.file, edit.contexts, edit.batch)

EditsOK ==
    /\ DOMAIN editing = Clients
    /\ \A c \in Clients :
        editing[c] # None /\ editing[c].pc = "writing" => ComputedEdit(editing[c])

ContextInv == RecordsOnly(authored) /\ EditsOK /\ ReportOK

LEMMA ContextInitInvariant == GuidanceInit => ContextInv
BY DEF GuidanceInit, ContextInv, RecordsOnly, EditsOK, ReportOK, Nothing, NoEdit

LEMMA EditedRecords ==
    ASSUME NEW contexts, RecordsOnly(contexts), NEW batch \in Batches
    PROVE  RecordsOnly(Edited(contexts, batch))
<1>1. ASSUME NEW key \in DOMAIN Edited(contexts, batch)
      PROVE  Edited(contexts, batch)[key] \in Records
    <2>1. /\ key \in (DOMAIN contexts \ DOMAIN batch) \cup Set(batch)
          /\ Edited(contexts, batch)[key] = IF key \in DOMAIN batch THEN batch[key] ELSE contexts[key]
        BY <1>1 DEF Edited
    <2>2. CASE key \in Set(batch)
        BY <2>1, <2>2, BatchesAssumption DEF Set
    <2>3. CASE key \notin Set(batch)
        BY <2>1, <2>3 DEF RecordsOnly
    <2> QED BY <2>2, <2>3
<1> QED BY <1>1 DEF RecordsOnly

(* What apply_context_edits answers with is the batch made of the records, *)
(* or the records as they were.                                            *)
LEMMA AppliedContexts ==
    ASSUME NEW file, NEW contexts, NEW batch
    PROVE  LET result == apply_context_edits(file, contexts, batch)
           IN  result.contexts = IF result.rejected = {} THEN Edited(contexts, batch) ELSE contexts
BY DEF apply_context_edits

LEMMA EditInvariant ==
    ASSUME ContextInv, NEW c \in Clients,
           ReadCatalog(c) \/ WriteContexts(c) \/ EndEdit(c)
           \/ \E batch \in Batches : ApplyEdits(c, batch)
    PROVE  ContextInv'
<1> USE DEF ContextInv
<1>1. CASE ReadCatalog(c)
    BY <1>1 DEF ReadCatalog, RecordsOnly, EditsOK, ReportOK, ComputedEdit
<1>2. CASE WriteContexts(c)
    <2> DEFINE edit == editing[c]
    <2>1. ComputedEdit(edit) /\ edit.result.rejected = {} /\ authored' = edit.result.contexts
        BY <1>2 DEF WriteContexts, EditsOK
    <2>2. authored' = Edited(edit.contexts, edit.batch)
        BY <2>1, AppliedContexts DEF ComputedEdit
    <2>3. RecordsOnly(authored)'
        BY <2>1, <2>2, EditedRecords DEF ComputedEdit, RecordsOnly
    <2> QED BY <1>2, <2>3 DEF WriteContexts, EditsOK, ReportOK, ComputedEdit
<1>3. CASE EndEdit(c)
    BY <1>3 DEF EndEdit, RecordsOnly, EditsOK, ReportOK, ComputedEdit
<1>4. ASSUME NEW batch \in Batches, ApplyEdits(c, batch) PROVE ContextInv'
    <2> DEFINE edit == [pc |-> "writing", file |-> editing[c].file, contexts |-> authored,
                        batch |-> batch,
                        result |-> apply_context_edits(editing[c].file, authored, batch)]
    <2>1. editing' = [editing EXCEPT ![c] = edit] /\ UNCHANGED <<catalog, authored, report>>
        BY <1>4 DEF ApplyEdits
    <2>2. ComputedEdit(edit)
        BY <1>4 DEF ComputedEdit
    <2> HIDE DEF edit
    <2>3. EditsOK'
        BY <2>1, <2>2 DEF EditsOK
    <2> QED BY <2>1, <2>3 DEF RecordsOnly, ReportOK
<1> QED BY <1>1, <1>2, <1>3, <1>4

LEMMA ContextNextInvariant ==
    ContextInv /\ [GuidanceNext]_<<vars, contextVars>> => ContextInv'
<1> SUFFICES ASSUME ContextInv, [GuidanceNext]_<<vars, contextVars>> PROVE ContextInv'
    OBVIOUS
<1>1. CASE UNCHANGED contextVars
    BY <1>1 DEF ContextInv, contextVars, RecordsOnly, EditsOK, ReportOK
<1>2. CASE ChangeCatalog
    BY <1>2 DEF ContextInv, ChangeCatalog, RecordsOnly, EditsOK, ReportOK
<1>3. ASSUME NEW c \in Clients,
             ReadCatalog(c) \/ WriteContexts(c) \/ EndEdit(c)
             \/ \E batch \in Batches : ApplyEdits(c, batch)
      PROVE  ContextInv'
    BY <1>3, EditInvariant
<1>4. ASSUME NEW terms \in Documents, NEW use \in Uses, Report(terms, use) PROVE ContextInv'
    BY <1>4 DEF ContextInv, Report, RecordsOnly, EditsOK, ReportOK
<1>5. CASE Read
    BY <1>5 DEF ContextInv, Read, RecordsOnly, EditsOK, ReportOK
<1> QED BY <1>1, <1>2, <1>3, <1>4, <1>5 DEF GuidanceNext, ContextNext

(* The facts of a leaf have every field, whatever was recorded.            *)
LEMMA FactsHaveFields ==
    ASSUME NEW contexts, RecordsOnly(contexts), NEW key, NEW path,
           resolve_context(contexts, key, path) # None
    PROVE  IsFields(resolve_context(contexts, key, path))
<1>1. IsFields(NoFields)
    BY DEF IsFields
<1>2. ASSUME key \in DOMAIN contexts PROVE IsFields(resolve_validated(contexts[key], path))
    <2>1. contexts[key] \in Records
        BY <1>2 DEF RecordsOnly
    <2>2. IsFields(contexts[key].context)
        BY <2>1, RecordsAssumption
    <2>3. ASSUME NEW own PROVE IsFields(overlay(contexts[key].context, own))
        BY <2>2 DEF IsFields, overlay
    <2> QED BY <2>2, <2>3 DEF resolve_validated
<1> QED BY <1>1, <1>2 DEF resolve_context

(* What one report leaves out.                                            *)
LEMMA CleanReport ==
    ASSUME NEW terms, NEW contexts, RecordsOnly(contexts), NEW use \in Uses,
           check_destination(terms, contexts, use).status = "available",
           use.target # None,
           NEW full \in Completions(resolve_context(contexts, use.key, use.path))
    PROVE  Broken(terms, [use EXCEPT !.context = full])
                \subseteq check_destination(terms, contexts, use).named
<1> DEFINE known_ == resolve_context(contexts, use.key, use.path)
           u == [use EXCEPT !.context = known_]
           v == [use EXCEPT !.context = full]
<1>1. known_ # None /\ check_destination(terms, contexts, use).named = check_terminology(terms, u)
    BY DEF check_destination
<1>2. IsFields(known_)
    BY <1>1, FactsHaveFields
<1> DEFINE screens == IF known_.screen = None THEN Screens ELSE {known_.screen}
           roles == IF known_.role = None THEN Roles ELSE {known_.role}
           With(screen, role) == [known_ EXCEPT !.screen = screen, !.role = role]
<1>3. PICK screen \in screens, role \in roles : full = With(screen, role)
    <2>1. Completions(known_) = UNION {{With(screen, role) : role \in roles} : screen \in screens}
        BY DEF Completions
    <2> HIDE DEF With, screens, roles
    <2> QED BY <2>1
<1>4. full.screen = screen /\ full.role = role
    BY <1>2, <1>3 DEF IsFields, NoFields
<1>5. DOMAIN use = {"key", "path", "locales", "source", "target", "context"}
    BY UsesAssumption
<1>6. u.context = known_ /\ v.context = full
    BY <1>5
<1>7. /\ u.key = v.key /\ u.path = v.path /\ u.locales = v.locales
      /\ u.source = v.source /\ u.target = v.target /\ u.target = use.target
    BY <1>5
<1>8. Completes(u, v)
    BY <1>3, <1>4, <1>6, <1>7 DEF Completes
<1> QED BY <1>1, <1>7, <1>8, NamedBefore

(* Never a false clean result, for any rules, texts and contexts: a rule   *)
(* that a translation breaks once its screen and role are known is named   *)
(* while they are not, unless the report says that it is unavailable.      *)
THEOREM NeverFalselyClean == GuidanceSpec => []NoFalseClean
<1>1. ContextInv => NoFalseClean
    BY CleanReport DEF ContextInv, ReportOK, NoFalseClean
<1> QED BY ContextInitInvariant, ContextNextInvariant, <1>1, PTL DEF GuidanceSpec

-----------------------------------------------------------------------------
(* What can be met.  A text is searched by its segments.                   *)

IsForm(form) == form \in Seq(ToSet(form)) /\ form # <<>>
IsProse(text) == ToSet(text) \cap (Specifiers \cup {Mask}) = {}

LEMMA FormFacts ==
    ASSUME NEW form, IsForm(form)
    PROVE  /\ Len(form) \in Nat /\ Len(form) # 0 /\ DOMAIN form = 1 .. Len(form)
           /\ \A i \in 1 .. Len(form) : form[i] \in ToSet(form)
<1>1. Len(form) \in Nat /\ DOMAIN form = 1 .. Len(form) /\ Len(form) # 0
    BY DEF IsForm
<1> QED BY <1>1 DEF ToSet

(* A form lies in a text after so many segments.                           *)
Lies(text, at, form) ==
    /\ at \in Nat /\ at + Len(form) <= Len(text)
    /\ \A i \in 1 .. Len(form) : text[at + i] = form[i]

LEMMA Lying ==
    ASSUME NEW S, NEW text \in Seq(S), NEW form, IsForm(form), NEW at \in Nat,
           at + Len(form) <= Len(text)
    PROVE  SubSeq(text, at + 1, at + Len(form)) = form <=> Lies(text, at, form)
<1> DEFINE n == Len(form)
           cut == SubSeq(text, at + 1, at + n)
<1>1. n \in Nat /\ n # 0 /\ form = [i \in 1 .. n |-> form[i]]
    BY DEF IsForm
<1>2. cut = [i \in 1 .. n |-> text[at + i]]
    BY <1>1
<1> QED BY <1>1, <1>2 DEF Lies

LEMMA OccursWhere ==
    ASSUME NEW S, NEW text \in Seq(S), NEW form, IsForm(form), NEW mode
    PROVE  /\ occurrences(text, form, mode) # {} => \E at \in 0 .. Len(text) : Lies(text, at, form)
           /\ \A at \in 0 .. Len(text) :
                Lies(text, at, form) /\ (mode = "literal" \/ (Boundary(text, at) /\ Boundary(text, at + Len(form))))
                    => occurrences(text, form, mode) # {}
<1> DEFINE n == Len(form)
           Here(at) == /\ form # <<>> /\ at + n <= Len(text)
                       /\ SubSeq(text, at + 1, at + n) = form
                       /\ mode = "literal" \/ (Boundary(text, at) /\ Boundary(text, at + n))
<1>1. occurrences(text, form, mode) = {<<at, at + n>> : at \in {at \in 0 .. Len(text) : Here(at)}}
    BY DEF occurrences
<1>2. Len(text) \in Nat /\ n \in Nat /\ form # <<>>
    BY FormFacts DEF IsForm
<1>3. ASSUME NEW at \in 0 .. Len(text)
      PROVE  Here(at) <=> /\ Lies(text, at, form)
                          /\ mode = "literal" \/ (Boundary(text, at) /\ Boundary(text, at + n))
    <2>1. CASE at + n <= Len(text)
        <3>1. SubSeq(text, at + 1, at + n) = form <=> Lies(text, at, form)
            BY <1>2, <2>1, Lying
        <3> QED BY <1>2, <2>1, <3>1
    <2>2. CASE ~(at + n <= Len(text))
        BY <2>2 DEF Lies
    <2> QED BY <2>1, <2>2
<1> HIDE DEF Here, n
<1>4. occurrences(text, form, mode) # {} <=> \E at \in 0 .. Len(text) : Here(at)
    BY <1>1
<1> QED BY <1>3, <1>4 DEF n

Pair(f, g) == <<Mask>> \o f \o <<Mask, Mask>> \o g \o <<Mask>>

LEMMA TwoParts ==
    ASSUME NEW S, NEW a \in Seq(S), NEW b \in Seq(S)
    PROVE  /\ a \o b \in Seq(S) /\ Len(a) \in Nat /\ Len(b) \in Nat /\ Len(a \o b) = Len(a) + Len(b)
           /\ \A i \in 1 .. Len(a) : (a \o b)[i] = a[i]
           /\ \A i \in 1 .. Len(b) : (a \o b)[Len(a) + i] = b[i]
OBVIOUS

LEMMA PairFacts ==
    ASSUME NEW f, IsForm(f), NEW g, IsForm(g)
    PROVE  LET T == Pair(f, g)
               n == Len(f)
               m == Len(g)
           IN  /\ T \in Seq(ToSet(f) \cup ToSet(g) \cup {Mask}) /\ Len(T) = n + m + 4
               /\ Lies(T, 1, f) /\ Lies(T, n + 3, g)
               /\ T[1] = Mask /\ T[n + 2] = Mask /\ T[n + 3] = Mask /\ T[n + m + 4] = Mask
<1> DEFINE S == ToSet(f) \cup ToSet(g) \cup {Mask}
           n == Len(f)
           m == Len(g)
           a == <<Mask>>
           b == a \o f
           c == b \o <<Mask, Mask>>
           d == c \o g
           T == d \o <<Mask>>
<1>1. n \in Nat /\ n # 0 /\ m \in Nat /\ m # 0
    BY FormFacts
<1>2. f \in Seq(S) /\ g \in Seq(S) /\ a \in Seq(S) /\ <<Mask, Mask>> \in Seq(S)
    <2>1. ToSet(f) \subseteq S /\ ToSet(g) \subseteq S /\ Mask \in S
        OBVIOUS
    <2> HIDE DEF S
    <2> QED BY <2>1 DEF IsForm
<1> HIDE DEF S
<1>3. b \in Seq(S) /\ Len(b) = n + 1 /\ b[1] = Mask /\ \A i \in 1 .. n : b[1 + i] = f[i]
    <2>1. Len(a) = 1 /\ a[1] = Mask
        OBVIOUS
    <2> HIDE DEF a, n
    <2>2. /\ b \in Seq(S) /\ Len(b) = Len(a) + Len(f)
          /\ \A i \in 1 .. Len(a) : b[i] = a[i]
          /\ \A i \in 1 .. Len(f) : b[Len(a) + i] = f[i]
        BY <1>2, TwoParts
    <2> HIDE DEF b
    <2> QED BY <1>1, <2>1, <2>2 DEF n
<1> HIDE DEF b
<1>4. /\ c \in Seq(S) /\ Len(c) = n + 3 /\ c[n + 2] = Mask /\ c[n + 3] = Mask
      /\ \A i \in 1 .. n + 1 : c[i] = b[i]
    <2> DEFINE two == <<Mask, Mask>>
    <2>1. Len(two) = 2 /\ two[1] = Mask /\ two[2] = Mask /\ two \in Seq(S)
        BY <1>2
    <2> HIDE DEF two
    <2>2. /\ b \o two \in Seq(S) /\ Len(b \o two) = Len(b) + Len(two)
          /\ \A i \in 1 .. Len(b) : (b \o two)[i] = b[i]
          /\ \A i \in 1 .. Len(two) : (b \o two)[Len(b) + i] = two[i]
        <3>1. b \in Seq(S) /\ two \in Seq(S)
            BY <1>3, <2>1
        <3> QED BY <3>1, TwoParts
    <2>3. c = b \o two
        BY DEF two
    <2> HIDE DEF c, n
    <2>4. n + 2 = n + 1 + 1 /\ n + 3 = n + 1 + 2 /\ 1 \in 1 .. 2 /\ 2 \in 1 .. 2
        BY <1>1
    <2> QED BY <1>1, <1>3, <2>1, <2>2, <2>3, <2>4
<1> HIDE DEF c
<1>5. /\ d \in Seq(S) /\ Len(d) = n + m + 3
      /\ \A i \in 1 .. n + 3 : d[i] = c[i]
      /\ \A i \in 1 .. m : d[n + 3 + i] = g[i]
    <2>1. /\ d \in Seq(S) /\ Len(d) = Len(c) + Len(g)
          /\ \A i \in 1 .. Len(c) : d[i] = c[i]
          /\ \A i \in 1 .. Len(g) : d[Len(c) + i] = g[i]
        <3>1. c \in Seq(S) /\ g \in Seq(S)
            BY <1>2, <1>4
        <3> QED BY <3>1, TwoParts
    <2> HIDE DEF d
    <2> QED BY <1>1, <1>4, <2>1
<1> HIDE DEF d
<1>6. /\ T \in Seq(S) /\ Len(T) = n + m + 4 /\ T[n + m + 4] = Mask
      /\ \A i \in 1 .. n + m + 3 : T[i] = d[i]
    <2>1. Len(a) = 1 /\ a[1] = Mask
        OBVIOUS
    <2>2. T = d \o a
        OBVIOUS
    <2> HIDE DEF a, T
    <2>3. /\ T \in Seq(S) /\ Len(T) = Len(d) + Len(a)
          /\ \A i \in 1 .. Len(d) : T[i] = d[i]
          /\ \A i \in 1 .. Len(a) : T[Len(d) + i] = a[i]
        <3>1. d \in Seq(S) /\ a \in Seq(S)
            BY <1>2, <1>5 DEF a
        <3> HIDE DEF d
        <3> QED BY <2>2, <3>1, TwoParts
    <2>4. n + m + 4 = n + m + 3 + 1 /\ 1 \in 1 .. 1
        BY <1>1
    <2> QED BY <1>1, <1>5, <2>1, <2>3, <2>4
<1> HIDE DEF T
<1>7. T[1] = Mask /\ T[n + 2] = Mask /\ T[n + 3] = Mask
    <2>1. 1 \in 1 .. n + 1 /\ {1, n + 2, n + 3} \subseteq 1 .. n + 3 /\ 1 .. n + 3 \subseteq 1 .. n + m + 3
        BY <1>1
    <2> QED BY <1>3, <1>4, <1>5, <1>6, <2>1
<1>8. \A i \in 1 .. n : T[1 + i] = f[i]
    <2>1. ASSUME NEW i \in 1 .. n
          PROVE 1 + i \in 1 .. n + 1 /\ 1 + i \in 1 .. n + 3 /\ 1 + i \in 1 .. n + m + 3
        BY <1>1
    <2> QED BY <1>3, <1>4, <1>5, <1>6, <2>1
<1>9. \A i \in 1 .. m : T[n + 3 + i] = g[i]
    <2>1. ASSUME NEW i \in 1 .. m PROVE n + 3 + i \in 1 .. n + m + 3
        BY <1>1
    <2> QED BY <1>5, <1>6, <2>1
<1>10. Lies(T, 1, f) /\ Lies(T, n + 3, g)
    BY <1>1, <1>6, <1>8, <1>9 DEF Lies
<1> QED BY <1>6, <1>7, <1>10 DEF S, T, d, c, b, Pair

LEMMA PairIsProse ==
    ASSUME NEW f, IsForm(f), IsProse(f), NEW g, IsForm(g), IsProse(g)
    PROVE  prose(Pair(f, g)) = Pair(f, g)
<1> DEFINE T == Pair(f, g)
           S == ToSet(f) \cup ToSet(g) \cup {Mask}
<1>1. T \in Seq(S)
    BY PairFacts
<1>2. S \cap Specifiers = {}
    BY MaskAssumption DEF IsProse
<1> HIDE DEF T, S
<1>3. T = [i \in DOMAIN T |-> T[i]] /\ \A i \in DOMAIN T : T[i] \in S
    BY <1>1
<1>4. prose(T) = [i \in DOMAIN T |-> T[i]]
    BY <1>2, <1>3 DEF prose
<1> QED BY <1>3, <1>4 DEF T

(* Both forms are found in their text, as words too.                       *)
LEMMA PairHolds ==
    ASSUME NEW f, IsForm(f), NEW g, IsForm(g), NEW mode
    PROVE  occurrences(Pair(f, g), f, mode) # {} /\ occurrences(Pair(f, g), g, mode) # {}
<1> DEFINE T == Pair(f, g)
           S == ToSet(f) \cup ToSet(g) \cup {Mask}
           n == Len(f)
           m == Len(g)
<1>1. T \in Seq(S) /\ Len(T) = n + m + 4
    BY PairFacts
<1>2. Lies(T, 1, f) /\ Lies(T, n + 3, g)
    BY PairFacts
<1>3. T[1] = Mask /\ T[n + 2] = Mask /\ T[n + 3] = Mask /\ T[n + m + 4] = Mask
    BY PairFacts
<1>4. n \in Nat /\ m \in Nat
    BY FormFacts
<1> HIDE DEF T, S, n, m
<1>5. Boundary(T, 1) /\ Boundary(T, 1 + n) /\ Boundary(T, n + 3) /\ Boundary(T, n + 3 + m)
    <2>1. 1 + n + 1 = n + 2 /\ n + 3 + m + 1 = n + m + 4
        BY <1>4
    <2> QED BY <1>3, <2>1, MaskAssumption DEF Boundary
<1>6. 1 \in 0 .. Len(T) /\ n + 3 \in 0 .. Len(T)
    BY <1>1, <1>4
<1>7. occurrences(T, f, mode) # {}
    BY <1>1, <1>2, <1>5, <1>6, OccursWhere DEF n
<1>8. occurrences(T, g, mode) # {}
    BY <1>1, <1>2, <1>5, <1>6, OccursWhere DEF m
<1> QED BY <1>7, <1>8 DEF T

(* A form within another.                                                  *)
LEMMA LiesWithin ==
    ASSUME NEW text, NEW f, IsForm(f), NEW bad, IsForm(bad), NEW at \in Nat, NEW start \in Nat,
           Lies(text, start, f), Lies(text, at, bad),
           start <= at, at + Len(bad) <= start + Len(f)
    PROVE  occurrences(f, bad, "literal") # {}
<1> DEFINE k == at - start
<1>1. Len(f) \in Nat /\ Len(bad) \in Nat
    BY FormFacts
<1>2. k \in 0 .. Len(f) /\ k + Len(bad) <= Len(f)
    BY <1>1
<1>3. ASSUME NEW i \in 1 .. Len(bad) PROVE f[k + i] = bad[i]
    <2>1. k + i \in 1 .. Len(f) /\ start + (k + i) = at + i
        BY <1>1, <1>2
    <2>2. text[start + (k + i)] = f[k + i]
        BY <2>1 DEF Lies
    <2>3. text[at + i] = bad[i]
        BY DEF Lies
    <2> QED BY <2>1, <2>2, <2>3
<1> HIDE DEF k
<1>4. Lies(f, k, bad)
    BY <1>1, <1>2, <1>3 DEF Lies
<1>5. f \in Seq(ToSet(f))
    BY DEF IsForm
<1> QED BY <1>2, <1>4, <1>5, OccursWhere

(* What is found in the text of two forms is found in one of them.         *)
LEMMA PairApart ==
    ASSUME NEW f, IsForm(f), NEW g, IsForm(g), NEW bad, IsForm(bad), IsProse(bad), NEW mode,
           occurrences(Pair(f, g), bad, mode) # {}
    PROVE  occurrences(f, bad, "literal") # {} \/ occurrences(g, bad, "literal") # {}
<1> DEFINE T == Pair(f, g)
           S == ToSet(f) \cup ToSet(g) \cup {Mask}
           n == Len(f)
           m == Len(g)
           l == Len(bad)
<1>1. T \in Seq(S) /\ Len(T) = n + m + 4
    BY PairFacts
<1>2. Lies(T, 1, f) /\ Lies(T, n + 3, g)
    BY PairFacts
<1>3. T[1] = Mask /\ T[n + 2] = Mask /\ T[n + 3] = Mask /\ T[n + m + 4] = Mask
    BY PairFacts
<1>4. n \in Nat /\ m \in Nat /\ l \in Nat /\ l # 0 /\ \A i \in 1 .. l : bad[i] \in ToSet(bad)
    BY FormFacts
<1>5. occurrences(T, bad, mode) # {}
    OBVIOUS
<1> HIDE DEF T, S
<1>6. PICK at \in 0 .. Len(T) : Lies(T, at, bad)
    BY <1>1, <1>5, OccursWhere
<1> HIDE DEF n, m, l
<1>7. \A j \in at + 1 .. at + l : T[j] # Mask
    <2>1. ASSUME NEW j \in at + 1 .. at + l PROVE T[j] # Mask
        <3>1. j - at \in 1 .. l /\ at + (j - at) = j
            BY <1>1, <1>4
        <3>2. T[at + (j - at)] = bad[j - at]
            BY <1>6, <3>1 DEF Lies, l
        <3>3. bad[j - at] # Mask
            BY <1>4, <3>1 DEF IsProse
        <3> QED BY <3>1, <3>2, <3>3
    <2> QED BY <2>1
<1>8. at + l <= n + m + 4
    BY <1>1, <1>6 DEF Lies, l
<1>9. at \in Nat /\ 1 \in Nat /\ n + 3 \in Nat
    BY <1>1, <1>4
<1>10. 1 \notin at + 1 .. at + l /\ n + 2 \notin at + 1 .. at + l
       /\ n + 3 \notin at + 1 .. at + l /\ n + m + 4 \notin at + 1 .. at + l
    BY <1>3, <1>7
<1>11. \/ 1 <= at /\ at + l <= 1 + n
       \/ n + 3 <= at /\ at + l <= n + 3 + m
    BY <1>4, <1>8, <1>9, <1>10
<1>12. CASE 1 <= at /\ at + l <= 1 + n
    BY <1>2, <1>6, <1>9, <1>12, LiesWithin DEF n, l
<1>13. CASE n + 3 <= at /\ at + l <= n + 3 + m
    BY <1>2, <1>6, <1>9, <1>13, LiesWithin DEF m, l
<1> QED BY <1>11, <1>12, <1>13

(* The forms of a valid rule are not empty.                                *)
IsRule(term) == validate_term(term) /\ \A form \in FormsOf(term) : form \in Seq(ToSet(form))

LEMMA RuleForms ==
    ASSUME NEW term, IsRule(term), NEW use
    PROVE  \A form \in required_forms(term, use) \cup forbidden_forms(term, use) : IsForm(form)
<1>1. matched_source(term, use) \subseteq Spellings(term)
    BY DEF matched_source
<1>2. accepted_variants(term, use) \subseteq
            term.preferred \cup term.accepted \cup UNION {e.accepted : e \in term.exceptions}
    BY DEF accepted_variants, Granted
<1>3. forbidden_forms(term, use) \subseteq term.forbidden
    BY DEF forbidden_forms
<1>4. required_forms(term, use) \cup forbidden_forms(term, use) \subseteq FormsOf(term)
    BY <1>1, <1>2, <1>3 DEF required_forms, FormsOf
<1>5. <<>> \notin FormsOf(term)
    <2>1. <<>> \notin UNION {e.accepted : e \in term.exceptions}
        BY DEF IsRule, validate_term, ValidException
    <2>2. <<>> \notin Spellings(term)
        BY DEF IsRule, validate_term, Spellings
    <2>3. <<>> \notin term.preferred \cup term.accepted \cup term.forbidden
        BY DEF IsRule, validate_term
    <2> QED BY <2>1, <2>2, <2>3 DEF FormsOf
<1> QED BY <1>4, <1>5 DEF IsRule, IsForm

(* Which checks a rule makes depends on everything but the target.         *)
LEMMA OffTarget ==
    ASSUME NEW u, NEW v, NEW term, v.key = u.key, v.path = u.path, v.source = u.source,
           v.context = u.context
    PROVE  /\ matched_source(term, v) = matched_source(term, u)
           /\ accepted_variants(term, v) = accepted_variants(term, u)
           /\ ignored_checks(term, v) = ignored_checks(term, u)
           /\ forbidden_forms(term, v) = forbidden_forms(term, u)
<1>1. \A form : Found(term, form, v) = Found(term, form, u)
    BY DEF Found
<1>2. matched_source(term, v) = matched_source(term, u)
    BY <1>1 DEF matched_source
<1>3. \A scope : scope_match(scope, v) = scope_match(scope, u)
    <2>1. \A scope : Excluded(scope, v) <=> Excluded(scope, u)
        BY DEF Excluded
    <2> QED BY <2>1 DEF scope_match
<1>4. Granted(term, v) = Granted(term, u)
    BY <1>3 DEF Granted
<1>5. /\ accepted_variants(term, v) = accepted_variants(term, u)
      /\ ignored_checks(term, v) = ignored_checks(term, u)
    BY <1>4 DEF accepted_variants, ignored_checks
<1> QED BY <1>2, <1>5 DEF forbidden_forms

(* A text meets a rule that has a form it demands and none it forbids.     *)
LEMMA MeetsRule ==
    ASSUME NEW u, NEW v, NEW term, v.key = u.key, v.path = u.path, v.source = u.source,
           v.context = u.context,
           \A bad \in forbidden_forms(term, u) : ~InTarget(term, bad, v),
           Demands(term, u) => \E form \in required_forms(term, u) : InTarget(term, form, v),
           Demands(term, u) /\ term.do_not_translate =>
                \E form \in Spellings(term) : matched_source(term, u) = {form}
    PROVE  /\ ~UntranslatableChanged(term, v)
           /\ ~PreferredMissing(term, v)
           /\ ~ForbiddenUsed(term, v)
<1>1. /\ matched_source(term, v) = matched_source(term, u)
      /\ accepted_variants(term, v) = accepted_variants(term, u)
      /\ ignored_checks(term, v) = ignored_checks(term, u)
      /\ forbidden_forms(term, v) = forbidden_forms(term, u)
    BY OffTarget
<1>2. ~ForbiddenUsed(term, v)
    BY <1>1 DEF ForbiddenUsed
<1>3. ~PreferredMissing(term, v)
    BY <1>1 DEF PreferredMissing, Demands, required_forms
<1>4. ~UntranslatableChanged(term, v)
    BY <1>1 DEF UntranslatableChanged, Demands, required_forms
<1> QED BY <1>2, <1>3, <1>4

(* A text of two forms that no rule of the two forbids.                    *)
LEMMA PairMeets ==
    ASSUME NEW term, NEW u, NEW v, IsRule(term),
           NEW f, IsForm(f), IsProse(f), NEW g, IsForm(g), IsProse(g),
           v.target = Pair(f, g),
           \A bad \in forbidden_forms(term, u) :
                /\ IsProse(bad) /\ bad # f /\ bad # g
                /\ \A form \in {f, g} : occurrences(form, bad, "literal") # {} => form = bad
    PROVE  /\ InTarget(term, f, v) /\ InTarget(term, g, v)
           /\ \A bad \in forbidden_forms(term, u) : ~InTarget(term, bad, v)
<1>1. prose(v.target) = Pair(f, g)
    BY PairIsProse
<1>2. InTarget(term, f, v) /\ InTarget(term, g, v)
    BY <1>1, PairHolds DEF InTarget
<1>3. ASSUME NEW bad \in forbidden_forms(term, u), InTarget(term, bad, v) PROVE FALSE
    <2>1. IsForm(bad)
        BY RuleForms
    <2>2. occurrences(Pair(f, g), bad, term.mode) # {}
        BY <1>1, <1>3 DEF InTarget
    <2>3. occurrences(f, bad, "literal") # {} \/ occurrences(g, bad, "literal") # {}
        BY <2>1, <2>2, PairApart
    <2> QED BY <2>3
<1> QED BY <1>2, <1>3

(* The checks of one rule.                                                 *)
Fine(term, use) ==
    ~UntranslatableChanged(term, use) /\ ~PreferredMissing(term, use) /\ ~ForbiddenUsed(term, use)

LEMMA NothingIsFine ==
    ASSUME NEW u, NEW v, v.key = u.key, v.path = u.path, v.source = u.source,
           v.context = u.context, v.target = <<>>,
           NEW term, IsRule(term), ~Demands(term, u)
    PROVE  Fine(term, v)
<1>1. prose(v.target) = <<>>
    BY DEF prose
<1>2. ASSUME NEW bad \in forbidden_forms(term, u) PROVE ~InTarget(term, bad, v)
    <2>1. Len(bad) \in Nat /\ Len(bad) # 0
        BY RuleForms, FormFacts
    <2>2. Len(<<>>) = 0
        OBVIOUS
    <2>3. ASSUME NEW i \in 0 .. 0 PROVE ~(i + Len(bad) <= 0)
        BY <2>1
    <2>4. occurrences(<<>>, bad, term.mode) = {}
        BY <2>2, <2>3 DEF occurrences
    <2> QED BY <1>1, <2>4 DEF InTarget
<1> QED BY <1>2, MeetsRule DEF Fine

LEMMA PairIsFine ==
    ASSUME NEW u, NEW v, v.key = u.key, v.path = u.path, v.source = u.source,
           v.context = u.context,
           NEW term, IsRule(term),
           NEW f, IsForm(f), IsProse(f), NEW g, IsForm(g), IsProse(g),
           v.target = Pair(f, g),
           \A bad \in forbidden_forms(term, u) :
                /\ IsProse(bad) /\ bad # f /\ bad # g
                /\ \A form \in {f, g} : occurrences(form, bad, "literal") # {} => form = bad,
           Demands(term, u) => {f, g} \cap required_forms(term, u) # {},
           Demands(term, u) /\ term.do_not_translate =>
                \E form \in Spellings(term) : matched_source(term, u) = {form}
    PROVE  Fine(term, v)
<1>1. /\ InTarget(term, f, v) /\ InTarget(term, g, v)
      /\ \A bad \in forbidden_forms(term, u) : ~InTarget(term, bad, v)
    BY PairMeets
<1>2. Demands(term, u) => \E form \in required_forms(term, u) : InTarget(term, form, v)
    BY <1>1
<1> QED BY <1>1, <1>2, MeetsRule DEF Fine

(* A form that a rule demands and neither forbids, with what Plain says of *)
(* the rest.                                                               *)
Choice(f, p, q, u) ==
    /\ IsForm(f) /\ IsProse(f)
    /\ \A bad \in forbidden_forms(p, u) \cup forbidden_forms(q, u) :
            /\ IsProse(bad) /\ bad # f
            /\ occurrences(f, bad, "literal") # {} => f = bad

LEMMA FormChosen ==
    ASSUME NEW p, IsRule(p), NEW q, IsRule(q), NEW u, Plain(p, q, u), Demands(p, u),
           NEW f \in required_forms(p, u),
           f \notin forbidden_forms(p, u) \cup forbidden_forms(q, u)
    PROVE  f \in Asked(p, u) /\ Choice(f, p, q, u) /\ Choice(f, q, p, u)
<1>1. Asked(p, u) = required_forms(p, u)
    BY DEF Asked
<1>2. IsForm(f)
    BY RuleForms
<1>3. IsProse(f) /\ \A bad \in forbidden_forms(p, u) \cup forbidden_forms(q, u) : IsProse(bad)
    BY <1>1 DEF Plain, IsProse
<1>4. \A bad \in forbidden_forms(p, u) \cup forbidden_forms(q, u) :
        bad # f /\ (occurrences(f, bad, "literal") # {} => f = bad)
    BY <1>1 DEF Plain
<1> QED BY <1>1, <1>2, <1>3, <1>4 DEF Choice

(* Two rules of one spelling that are not in conflict.                     *)
LEMMA TwoRulesMet ==
    ASSUME NEW p, IsRule(p), NEW q, IsRule(q),
           NEW u, DOMAIN u = {"key", "path", "locales", "source", "target", "context"},
           applicable(p, u), applicable(q, u),
           matched_source(p, u) \cap matched_source(q, u) # {},
           ~conflicting(p, q, u), Plain(p, q, u), Plain(q, p, u)
    PROVE  \E text \in Made(Asked(p, u) \cup Asked(q, u)) :
                Fine(p, [u EXCEPT !.target = text]) /\ Fine(q, [u EXCEPT !.target = text])
<1> DEFINE forbidden == forbidden_forms(p, u) \cup forbidden_forms(q, u)
           asked == Asked(p, u) \cup Asked(q, u)
           With(text) == [u EXCEPT !.target = text]
<1>1. ASSUME NEW text
      PROVE  /\ With(text).key = u.key /\ With(text).path = u.path
             /\ With(text).source = u.source /\ With(text).context = u.context
             /\ With(text).target = text
    OBVIOUS
<1>2. /\ Demands(p, u) => ~(required_forms(p, u) \subseteq forbidden)
      /\ Demands(q, u) => ~(required_forms(q, u) \subseteq forbidden)
    BY DEF conflicting
<1>3. /\ Demands(p, u) /\ p.do_not_translate =>
            \E form \in Spellings(p) : matched_source(p, u) = {form}
      /\ Demands(q, u) /\ q.do_not_translate =>
            \E form \in Spellings(q) : matched_source(q, u) = {form}
    BY DEF Plain
<1>4. CASE ~Demands(p, u) /\ ~Demands(q, u)
    <2>1. <<>> \in Made(asked)
        BY DEF Made
    <2> HIDE DEF With, asked
    <2>2. Fine(p, With(<<>>)) /\ Fine(q, With(<<>>))
        BY <1>1, <1>4, NothingIsFine
    <2> QED BY <2>1, <2>2 DEF With, asked
<1>5. ASSUME NEW f \in asked, NEW g \in asked, Choice(f, p, q, u), Choice(g, p, q, u),
             Demands(p, u) => {f, g} \cap required_forms(p, u) # {},
             Demands(q, u) => {f, g} \cap required_forms(q, u) # {}
      PROVE  \E text \in Made(asked) : Fine(p, With(text)) /\ Fine(q, With(text))
    <2> DEFINE text == Pair(f, g)
    <2>1. text \in Made(asked)
        BY DEF Made, Pair
    <2>2. IsForm(f) /\ IsProse(f) /\ IsForm(g) /\ IsProse(g)
        BY <1>5 DEF Choice
    <2>3. \A bad \in forbidden :
                /\ IsProse(bad) /\ bad # f /\ bad # g
                /\ \A form \in {f, g} : occurrences(form, bad, "literal") # {} => form = bad
        BY <1>5 DEF Choice
    <2> HIDE DEF With, asked
    <2>4. Fine(p, With(text))
        BY <1>1, <1>3, <1>5, <2>2, <2>3, PairIsFine
    <2>5. Fine(q, With(text))
        BY <1>1, <1>3, <1>5, <2>2, <2>3, PairIsFine
    <2> QED BY <2>1, <2>4, <2>5
<1>6. ASSUME Demands(p, u)
      PROVE  \E f \in required_forms(p, u) : f \in asked /\ Choice(f, p, q, u)
    BY <1>2, <1>6, FormChosen
<1>7. ASSUME Demands(q, u)
      PROVE  \E g \in required_forms(q, u) : g \in asked /\ Choice(g, p, q, u)
    <2>1. PICK g \in required_forms(q, u) : g \notin forbidden
        BY <1>2, <1>7
    <2>2. g \in Asked(q, u) /\ Choice(g, p, q, u)
        BY <1>7, <2>1, FormChosen
    <2> QED BY <2>1, <2>2
<1> HIDE DEF With, asked
<1>8. CASE Demands(p, u) /\ Demands(q, u)
    <2>1. PICK f \in required_forms(p, u) : f \in asked /\ Choice(f, p, q, u)
        BY <1>6, <1>8
    <2>2. PICK g \in required_forms(q, u) : g \in asked /\ Choice(g, p, q, u)
        BY <1>7, <1>8
    <2>3. f \in {f, g} /\ g \in {f, g}
        OBVIOUS
    <2> QED BY <1>5, <2>1, <2>2, <2>3 DEF With, asked
<1>9. CASE Demands(p, u) /\ ~Demands(q, u)
    <2>1. PICK f \in required_forms(p, u) : f \in asked /\ Choice(f, p, q, u)
        BY <1>6, <1>9
    <2> QED BY <1>5, <1>9, <2>1 DEF With, asked
<1>10. CASE ~Demands(p, u) /\ Demands(q, u)
    <2>1. PICK g \in required_forms(q, u) : g \in asked /\ Choice(g, p, q, u)
        BY <1>7, <1>10
    <2> QED BY <1>5, <1>10, <2>1 DEF With, asked
<1> QED BY <1>4, <1>8, <1>9, <1>10 DEF With, asked

LEMMA RulesMet ==
    ASSUME NEW terms \in Documents,
           NEW u, DOMAIN u = {"key", "path", "locales", "source", "target", "context"},
           NEW a \in evaluated(terms, u), NEW b \in evaluated(terms, u), a # b,
           matched_source(terms[a], u) \cap matched_source(terms[b], u) # {},
           Plain(terms[a], terms[b], u), Plain(terms[b], terms[a], u)
    PROVE  \E text \in Made(Asked(terms[a], u) \cup Asked(terms[b], u)) :
                {a, b} \cap Broken(terms, [u EXCEPT !.target = text]) = {}
<1> DEFINE p == terms[a]
           q == terms[b]
<1>1. /\ a \in relevant_terms(terms, u) /\ b \in relevant_terms(terms, u)
      /\ a \notin Conflicts(terms, u)
      /\ applicable(p, u) /\ applicable(q, u)
    BY DEF evaluated
<1>2. ~conflicting(p, q, u)
    BY <1>1 DEF Conflicts
<1>3. a \in DOMAIN terms /\ b \in DOMAIN terms
    BY <1>1 DEF relevant_terms, Candidates
<1>4. IsRule(p) /\ IsRule(q)
    BY <1>3, DocumentsAssumption DEF IsRule, validate_glossary
<1>5. PICK text \in Made(Asked(p, u) \cup Asked(q, u)) :
            Fine(p, [u EXCEPT !.target = text]) /\ Fine(q, [u EXCEPT !.target = text])
    BY <1>1, <1>2, <1>4, TwoRulesMet
<1>6. {a, b} \cap Broken(terms, [u EXCEPT !.target = text]) = {}
    BY <1>5 DEF Broken, Fine
<1> QED BY <1>5, <1>6

(* Rules about one spelling that are not reported as a conflict can be met *)
(* together, whatever the rules, texts and contexts: some text made of the *)
(* forms that they demand has one of each rule and none that they forbid,  *)
(* but for what Plain says the conflict check does not look at.            *)
THEOREM RulesAlwaysMeetable == GuidanceSpec => []RulesCanBeMet
<1>1. ASSUME ContextInv, report # None, NEW screen \in Screens, NEW role \in Roles
      PROVE  LET terms == report.terms
                 use == [report.use EXCEPT
                            !.context = [NoFields EXCEPT !.screen = screen, !.role = role]]
             IN  \A a, b \in evaluated(terms, use) :
                    /\ a # b
                    /\ matched_source(terms[a], use) \cap matched_source(terms[b], use) # {}
                    /\ Plain(terms[a], terms[b], use) /\ Plain(terms[b], terms[a], use)
                    => \E text \in Made(Asked(terms[a], use) \cup Asked(terms[b], use)) :
                        {a, b} \cap Broken(terms, [use EXCEPT !.target = text]) = {}
    <2> DEFINE terms == report.terms
               use == [report.use EXCEPT
                        !.context = [NoFields EXCEPT !.screen = screen, !.role = role]]
    <2>1. terms \in Documents /\ report.use \in Uses
        BY <1>1 DEF ContextInv, ReportOK
    <2>2. DOMAIN use = {"key", "path", "locales", "source", "target", "context"}
        BY <2>1, UsesAssumption
    <2> HIDE DEF terms, use
    <2>3. \A a, b \in evaluated(terms, use) :
                    /\ a # b
                    /\ matched_source(terms[a], use) \cap matched_source(terms[b], use) # {}
                    /\ Plain(terms[a], terms[b], use) /\ Plain(terms[b], terms[a], use)
                    => \E text \in Made(Asked(terms[a], use) \cup Asked(terms[b], use)) :
                        {a, b} \cap Broken(terms, [use EXCEPT !.target = text]) = {}
        BY <2>1, <2>2, RulesMet
    <2> QED BY <2>3 DEF terms, use
<1>2. ContextInv => RulesCanBeMet
    BY <1>1 DEF RulesCanBeMet
<1> QED BY ContextInitInvariant, ContextNextInvariant, <1>2, PTL DEF GuidanceSpec

-----------------------------------------------------------------------------
(* Repairs.  Whether the record of a key is refused depends on nothing     *)
(* that the document has for other keys.                                   *)
LEMMA RefusedBatch ==
    ASSUME NEW file, NEW contexts, NEW batch
    PROVE  LET result == apply_context_edits(file, contexts, batch)
               refused == Set(batch) \cap validate_context_bindings(file, Edited(contexts, batch))
           IN  /\ result.rejected \subseteq refused
               /\ result.rejected = {} <=> refused = {}
<1> DEFINE result == apply_context_edits(file, contexts, batch)
           refused == Set(batch) \cap validate_context_bindings(file, Edited(contexts, batch))
           changed == [key \in Set(batch) |-> batch[key]]
<1>1. refused = {key \in Set(batch) : ~Fits(file, key, batch[key])}
    <2>1. \A key \in Set(batch) :
            key \in DOMAIN Edited(contexts, batch) /\ Edited(contexts, batch)[key] = batch[key]
        BY DEF Edited, Set
    <2> QED BY <2>1 DEF validate_context_bindings
<1>2. validate_context_bindings(file, changed) = {key \in Set(batch) : ~Fits(file, key, batch[key])}
    BY DEF validate_context_bindings
<1>3. Malformed(file, batch) \subseteq {key \in Set(batch) : ~Fits(file, key, batch[key])}
    BY DEF Malformed, Fits
<1>4. result.rejected = IF Malformed(file, batch) # {} THEN Malformed(file, batch)
                        ELSE validate_context_bindings(file, changed)
    BY DEF apply_context_edits
<1> HIDE DEF result, refused, changed
<1>5. result.rejected \subseteq refused /\ (result.rejected = {} <=> refused = {})
    BY <1>1, <1>2, <1>3, <1>4
<1> QED BY <1>5 DEF result, refused

LEMMA EditedOthers ==
    ASSUME NEW contexts, NEW batch
    PROVE  Kept(contexts, Edited(contexts, batch),
                (DOMAIN contexts \cup DOMAIN Edited(contexts, batch)) \ DOMAIN batch)
BY DEF Kept, Edited, Set

(* A write of what fits: the other keys are refused as before.             *)
LEMMA UnfitAfterEdit ==
    ASSUME NEW file, NEW contexts, NEW batch,
           Set(batch) \cap validate_context_bindings(file, Edited(contexts, batch)) = {}
    PROVE  validate_context_bindings(file, Edited(contexts, batch))
                = validate_context_bindings(file, contexts) \ DOMAIN batch
<1> DEFINE new == Edited(contexts, batch)
<1>1. /\ DOMAIN new = (DOMAIN contexts \ DOMAIN batch) \cup Set(batch)
      /\ Set(batch) \subseteq DOMAIN batch
      /\ \A key \in DOMAIN contexts \ DOMAIN batch : new[key] = contexts[key]
    BY DEF Edited, Set
<1> HIDE DEF new
<1>2. ASSUME NEW key
      PROVE  key \in validate_context_bindings(file, new)
                <=> key \in validate_context_bindings(file, contexts) \ DOMAIN batch
    <2>1. CASE key \in DOMAIN batch
        <3>1. key \notin validate_context_bindings(file, new)
            BY <1>1, <2>1 DEF new, validate_context_bindings
        <3> QED BY <2>1, <3>1
    <2>2. CASE key \notin DOMAIN batch
        BY <1>1, <2>2 DEF validate_context_bindings
    <2> QED BY <2>1, <2>2
<1> QED BY <1>2 DEF new

LEMMA DecidedStep ==
    ASSUME ContextInv, [GuidanceNext]_<<vars, contextVars>>, NEW c \in Clients, Decided(c)
    PROVE  LET edit == editing'[c]
               refused == Set(edit.batch) \cap
                    validate_context_bindings(edit.file, Edited(edit.contexts, edit.batch))
           IN  edit.result.rejected \subseteq refused /\ (edit.result.rejected = {} <=> refused = {})
<1>1. ContextInv'
    BY ContextNextInvariant
<1>2. ComputedEdit(editing[c])'
    BY <1>1 DEF ContextInv, EditsOK, Decided
<1>3. editing'[c].result
        = apply_context_edits(editing'[c].file, editing'[c].contexts, editing'[c].batch)
    BY <1>2 DEF ComputedEdit
<1> QED BY <1>3, RefusedBatch

LEMMA WrittenStep ==
    ASSUME ContextInv, [GuidanceNext]_<<vars, contextVars>>, NEW c \in Clients,
           authored' # authored, editing'[c] # editing[c]
    PROVE  LET addressed == DOMAIN editing[c].batch
           IN  /\ Unfit' = Unfit \ addressed
               /\ Kept(authored, authored', (DOMAIN authored \cup DOMAIN authored') \ addressed)
<1>1. \E d \in Clients : WriteContexts(d)
    BY DEF GuidanceNext, ContextNext, vars, contextVars, ChangeCatalog, ReadCatalog, ApplyEdits,
           EndEdit, Report, Read
<1>2. WriteContexts(c)
    BY <1>1 DEF WriteContexts, ContextInv, EditsOK
<1> DEFINE edit == editing[c]
<1>3. ComputedEdit(edit)
    BY <1>2 DEF ContextInv, EditsOK, WriteContexts
<1>4. /\ edit.contexts = authored /\ edit.file = catalog /\ catalog' = catalog
      /\ edit.result.rejected = {} /\ authored' = edit.result.contexts
    BY <1>2 DEF WriteContexts
<1>5. edit.result = apply_context_edits(catalog, authored, edit.batch)
    BY <1>3, <1>4 DEF ComputedEdit
<1> HIDE DEF edit
<1>6. authored' = Edited(authored, edit.batch)
    BY <1>4, <1>5, AppliedContexts
<1>7. Set(edit.batch) \cap validate_context_bindings(catalog, Edited(authored, edit.batch)) = {}
    BY <1>4, <1>5, RefusedBatch
<1>8. validate_context_bindings(catalog, Edited(authored, edit.batch))
            = validate_context_bindings(catalog, authored) \ DOMAIN edit.batch
    BY <1>7, UnfitAfterEdit
<1>9. Unfit' = Unfit \ DOMAIN edit.batch
    BY <1>4, <1>6, <1>8 DEF Unfit
<1>10. Kept(authored, authored', (DOMAIN authored \cup DOMAIN authored') \ DOMAIN edit.batch)
    BY <1>6, EditedOthers
<1> QED BY <1>9, <1>10 DEF edit

(* Stale contexts, for any clients, servers, catalogs, records and batches:*)
(* an edit is rejected only for what it sets, and when the records change, *)
(* the keys that it addresses fit the catalog there is and nothing else    *)
(* about the records has changed.                                          *)
THEOREM RepairsStayExact == GuidanceSpec => RepairsAreExact
<1>1. ContextInv /\ [GuidanceNext]_<<vars, contextVars>> =>
        [\A c \in Clients :
            /\ Decided(c) =>
                LET edit == editing'[c]
                    refused == Set(edit.batch) \cap
                        validate_context_bindings(edit.file, Edited(edit.contexts, edit.batch))
                IN  /\ edit.result.rejected \subseteq refused
                    /\ edit.result.rejected = {} <=> refused = {}
            /\ authored' # authored /\ editing'[c] # editing[c] =>
                LET addressed == DOMAIN editing[c].batch
                IN  /\ Unfit' = Unfit \ addressed
                    /\ Kept(authored, authored', (DOMAIN authored \cup DOMAIN authored') \ addressed)]_<<vars, contextVars>>
    BY DecidedStep, WrittenStep
<1> QED BY ContextInitInvariant, ContextNextInvariant, <1>1, PTL DEF GuidanceSpec, RepairsAreExact

-----------------------------------------------------------------------------
(* The glossary part of the composed specification is GlossaryStore: the   *)
(* theorems about Spec hold of it.                                         *)
THEOREM StoreKept == GuidanceSpec => Spec
<1>1. GuidanceInit => Init
    BY DEF GuidanceInit
<1>2. [GuidanceNext]_<<vars, contextVars>> => [Next]_vars
    BY DEF GuidanceNext
<1> QED BY <1>1, <1>2, PTL DEF GuidanceSpec, Spec
=============================================================================
