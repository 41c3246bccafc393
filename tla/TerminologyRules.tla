-------------------------- MODULE TerminologyRules --------------------------
(***************************************************************************)
(* Glossary rules (service/glossary): which rules a translation is checked *)
(* against, what the check reports, which rules are valid, how an edit     *)
(* changes a document and how the old source-to-translation map is read.   *)
(*                                                                         *)
(* A text is a sequence of segments, the pieces a form can begin or end    *)
(* with; forms are texts, in canonical (NFC) spelling.  A document is a    *)
(* function from term ids to terms: the order of terms decides nothing.    *)
(* The facts about a leaf that scopes ask for are AuthoredContext's.       *)
(***************************************************************************)
EXTENDS AuthoredContext, Sequences

CONSTANTS
    Breaks,      \* segments that end a word: spaces, punctuation, the mask
    Specifiers,   \* segments that are format arguments or references
    Mask,        \* what stands for an argument in the prose of a text
    Unspaced     \* segments of scripts written without spaces

ASSUME MaskAssumption == Mask \in Breaks /\ Mask \notin Specifiers

-----------------------------------------------------------------------------
(* Matching.                                                               *)
prose(text) == [i \in DOMAIN text |-> IF text[i] \in Specifiers THEN Mask ELSE text[i]]

Boundary(text, i) ==
    \/ i \in {0, Len(text)}
    \/ text[i] \in Breaks \/ text[i + 1] \in Breaks

needs_tailoring(form, mode) ==
    mode = "word" /\ \E i \in DOMAIN form : form[i] \in Unspaced

(* The places <<start, end>> of a form in a text.                          *)
occurrences(text, form, mode) ==
    {<<i, i + Len(form)>> : i \in
        {i \in 0 .. Len(text) :
            LET end == i + Len(form)
            IN  /\ form # <<>> /\ end <= Len(text)
                /\ SubSeq(text, i + 1, end) = form
                /\ mode = "literal" \/ (Boundary(text, i) /\ Boundary(text, end))}}

Excluded(scope, use) ==
    \/ scope.keys # {} /\ use.key \notin scope.keys
    \/ scope.paths # {} /\ use.path \notin scope.paths
    \/ scope.screens # {} /\ use.context.screen \notin scope.screens \cup {None}
    \/ scope.roles # {} /\ use.context.role \notin scope.roles \cup {None}

scope_match(scope, use) ==
    IF Excluded(scope, use) THEN "no"
    ELSE IF \/ scope.extra
            \/ scope.screens # {} /\ use.context.screen = None
            \/ scope.roles # {} /\ use.context.role = None
         THEN "unknown" ELSE "yes"

Spellings(term) == {term.source} \cup term.source_variants

(* A form that would need a dictionary is searched literally.              *)
Found(term, form, use) ==
    occurrences(prose(use.source), form,
                IF needs_tailoring(form, term.mode) THEN "literal" ELSE term.mode)

matched_source(term, use) == {form \in Spellings(term) : Found(term, form, use) # {}}
Spans(term, use) == UNION {Found(term, form, use) : form \in Spellings(term)}

Granted(term, use) ==
    {e \in term.exceptions : scope_match(e.scope, use) = "yes" /\ ~e.extra}

applicable(term, use) ==
    /\ scope_match(term.scope, use) = "yes"
    /\ \A form \in matched_source(term, use) : ~needs_tailoring(form, term.mode)
    /\ \A e \in term.exceptions :
        scope_match(e.scope, use) = "no" \/ e \in Granted(term, use)

accepted_variants(term, use) ==
    (IF term.do_not_translate THEN {} ELSE term.preferred)
    \cup term.accepted \cup UNION {e.accepted : e \in Granted(term, use)}

ignored_checks(term, use) == UNION {e.ignore : e \in Granted(term, use)}

Candidates(terms, use) ==
    {id \in DOMAIN terms : /\ terms[id].locales = use.locales
                           /\ scope_match(terms[id].scope, use) # "no"
                           /\ Spans(terms[id], use) # {}}

Within(span, long) ==
    long[1] <= span[1] /\ span[2] <= long[2] /\ span[2] - span[1] < long[2] - long[1]

(* Mistake: any longer rule hides a shorter one.                           *)
HiddenByAny(terms, use, id) ==
    \A span \in Spans(terms[id], use) : \E other \in Candidates(terms, use) \ {id} :
        \E long \in Spans(terms[other], use) : Within(span, long)

(* A shorter rule stays when it has an occurrence of its own.              *)
Hidden(terms, use, id) ==
    \A span \in Spans(terms[id], use) : \E other \in Candidates(terms, use) \ {id} :
        /\ applicable(terms[other], use)
        /\ \E long \in Spans(terms[other], use) : Within(span, long)

(* Whether required_forms returns some, and which.                         *)
Demands(term, use) ==
    IF term.do_not_translate THEN "do_not_translate" \notin ignored_checks(term, use)
    ELSE term.preferred # {} /\ "preferred" \notin ignored_checks(term, use)

required_forms(term, use) ==
    (IF term.do_not_translate THEN matched_source(term, use) ELSE {})
    \cup accepted_variants(term, use)

forbidden_forms(term, use) ==
    IF "forbidden" \in ignored_checks(term, use) THEN {} ELSE term.forbidden

(* Mistake: only two rules without a common form are in conflict.          *)
DisjointForms(a, b, use) ==
    /\ applicable(a, use) /\ applicable(b, use)
    /\ matched_source(a, use) \cap matched_source(b, use) # {}
    /\ Demands(a, use) /\ Demands(b, use)
    /\ required_forms(a, use) \cap required_forms(b, use) = {}

conflicting(a, b, use) ==
    LET A == required_forms(a, use)
        B == required_forms(b, use)
        forbidden == forbidden_forms(a, use) \cup forbidden_forms(b, use)
    IN  /\ applicable(a, use) /\ applicable(b, use)
        /\ matched_source(a, use) \cap matched_source(b, use) # {}
        /\ \/ Demands(a, use) /\ Demands(b, use) /\ A \cap B = {}
           \/ Demands(a, use) /\ A \subseteq forbidden
           \/ Demands(b, use) /\ B \subseteq forbidden

relevant_terms(terms, use) == {id \in Candidates(terms, use) : ~Hidden(terms, use, id)}

Conflicts(terms, use) ==
    LET relevant == relevant_terms(terms, use)
    IN  {id \in relevant : \E other \in relevant \ {id} :
            conflicting(terms[id], terms[other], use)}

-----------------------------------------------------------------------------
(* The check of a translation.                                             *)
evaluated(terms, use) ==
    {id \in relevant_terms(terms, use) \ Conflicts(terms, use) :
        LET term == terms[id]
        IN  /\ applicable(term, use)
            /\ \A form \in term.forbidden \cup accepted_variants(term, use) :
                ~needs_tailoring(form, term.mode)}

InTarget(term, form, use) == occurrences(prose(use.target), form, term.mode) # {}

UntranslatableChanged(term, use) ==
    /\ term.do_not_translate /\ "do_not_translate" \notin ignored_checks(term, use)
    /\ \E form \in matched_source(term, use) : ~InTarget(term, form, use)
    /\ \A form \in accepted_variants(term, use) : ~InTarget(term, form, use)

PreferredMissing(term, use) ==
    /\ ~term.do_not_translate /\ term.preferred # {}
    /\ "preferred" \notin ignored_checks(term, use)
    /\ \A form \in accepted_variants(term, use) : ~InTarget(term, form, use)

ForbiddenUsed(term, use) ==
    \E form \in forbidden_forms(term, use) : InTarget(term, form, use)

Broken(terms, use) ==
    {id \in evaluated(terms, use) : \/ UntranslatableChanged(terms[id], use)
                                    \/ PreferredMissing(terms[id], use)
                                    \/ ForbiddenUsed(terms[id], use)}

Unevaluated(terms, use) == relevant_terms(terms, use) \ evaluated(terms, use)

(* The ids of the rules that check_terminology names.                      *)
check_terminology(terms, use) ==
    IF use.target = None THEN {} ELSE Broken(terms, use) \cup Unevaluated(terms, use)

-----------------------------------------------------------------------------
(* Validation.                                                             *)
bounded(scope) ==
    scope.keys # {} \/ scope.paths # {} \/ scope.screens # {} \/ scope.roles # {}

Unscoped == [keys |-> {}, paths |-> {}, screens |-> {}, roles |-> {}, extra |-> FALSE]

ValidException(e) ==
    /\ bounded(e.scope)
    /\ e.accepted # {} \/ e.ignore # {}
    /\ <<>> \notin e.accepted

validate_term(term) ==
    /\ term.source # <<>>
    /\ term.preferred # {} \/ term.forbidden # {} \/ term.do_not_translate
    /\ <<>> \notin term.source_variants \cup term.preferred \cup term.accepted \cup term.forbidden
    /\ term.forbidden \cap (term.preferred \cup term.accepted) = {}
    /\ term.do_not_translate => term.preferred \subseteq Spellings(term)
    /\ \A e \in term.exceptions : ValidException(e)

validate_glossary(terms) == \A id \in DOMAIN terms : validate_term(terms[id])

-----------------------------------------------------------------------------
(* Edits, and the legacy map from source to translation.                   *)
apply_glossary_edit(terms, edit) ==
    LET kept == DOMAIN terms \ edit.remove
    IN  [id \in kept \cup DOMAIN edit.upsert |->
            IF id \in DOMAIN edit.upsert THEN edit.upsert[id] ELSE terms[id]]

legacy_id(locales, source) == <<"legacy", locales, source>>

legacy_term(locales, source, translation) ==
    [locales |-> locales, source |-> source, source_variants |-> {},
     preferred |-> {translation}, accepted |-> {}, forbidden |-> {},
     do_not_translate |-> FALSE, mode |-> "word", scope |-> Unscoped, exceptions |-> {}]

(* Mistake: only the scope of an existing rule is looked at.               *)
ScopeCollision(terms, locales, entries) ==
    \E source \in DOMAIN entries :
        LET id == legacy_id(locales, source)
        IN  id \in DOMAIN terms /\ bounded(terms[id].scope)

LegacyIdentityCollision(terms, locales, entries) ==
    \E source \in DOMAIN entries :
        LET id == legacy_id(locales, source)
        IN  id \in DOMAIN terms /\ \/ terms[id].source # source
                                   \/ terms[id].locales # locales
                                   \/ bounded(terms[id].scope)

(* An existing rule keeps everything but its preferred forms.              *)
legacy_upsert(terms, locales, entries) ==
    [remove |-> {},
     upsert |-> [id \in {legacy_id(locales, source) : source \in DOMAIN entries} |->
                    IF id \in DOMAIN terms
                    THEN [terms[id] EXCEPT !.preferred = {entries[id[3]]}]
                    ELSE legacy_term(locales, id[3], entries[id[3]])]]

representable(term) ==
    /\ ~bounded(term.scope) /\ ~term.scope.extra
    /\ \E form \in term.preferred : term.preferred = {form}
    /\ term.source_variants = {} /\ term.accepted = {} /\ term.forbidden = {}
    /\ ~term.do_not_translate /\ term.exceptions = {} /\ term.mode = "word"

Simple(terms, locales, source) ==
    {id \in DOMAIN terms : /\ terms[id].locales = locales /\ terms[id].source = source
                           /\ representable(terms[id])}

(* project_legacy_entries: the entry of a source, or None; and the ids of  *)
(* the rules that the entries do not stand for.                            *)
Entry(terms, locales, source) ==
    LET simple == Simple(terms, locales, source)
    IN  IF \E id \in simple : simple = {id}
        THEN CHOOSE form \in UNION {terms[id].preferred : id \in simple} : TRUE
        ELSE None

omitted_term_ids(terms, locales) ==
    {id \in DOMAIN terms : /\ terms[id].locales = locales
                           /\ Simple(terms, locales, terms[id].source) # {id}}
=============================================================================
