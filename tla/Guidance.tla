------------------------------- MODULE Guidance -------------------------------
(***************************************************************************)
(* The guidance that translations are checked with: the glossary of        *)
(* GlossaryStore and the authored contexts of AuthoredContext, and the     *)
(* report on a translation (guidance_operation.rs).  Reports are advisory: *)
(* what they must not be is falsely clean.                                 *)
(***************************************************************************)
EXTENDS GlossaryStore, SequencesExt

CONSTANTS
    Documents,    \* the glossaries that reports are checked for: id -> term
    Uses,         \* translations: key, path, locales, source and target text
    Screens, Roles,
    Catalogs,     \* key -> entry
    Records,      \* authored records
    Batches,      \* what clients ask to set and remove
    Reviewed      \* the catalog that reports are asked for (a bound)

VARIABLES
    catalog,      \* the catalog of the authored records
    authored,     \* key -> authored record, in the workflow file
    editing,      \* Clients -> the context edit under way, or None
    report        \* the report being read: what it was asked of, and the answer

contextVars == <<catalog, authored, editing, report>>

IsFields(fields) == DOMAIN fields = DOMAIN NoFields

ASSUME UsesAssumption ==
    \A use \in Uses :
        DOMAIN use = {"key", "path", "locales", "source", "target", "context"}

FormsOf(term) ==
    Spellings(term) \cup term.preferred \cup term.accepted \cup term.forbidden
    \cup UNION {e.accepted : e \in term.exceptions}

(* A snapshot has the rules of a valid glossary, and forms are texts.      *)
ASSUME DocumentsAssumption ==
    \A terms \in Documents :
        /\ validate_glossary(terms)
        /\ \A id \in DOMAIN terms : \A form \in FormsOf(terms[id]) : form \in Seq(ToSet(form))

ASSUME RecordsAssumption ==
    \A record \in Records :
        /\ IsFields(record.context)
        /\ \A path \in DOMAIN record.leaves : IsFields(record.leaves[path])

-----------------------------------------------------------------------------
(* The report on one destination: unavailable, or the rules it names.      *)
check_destination(terms, contexts, use) ==
    LET resolved == resolve_context(contexts, use.key, use.path)
    IN  IF terms = None \/ resolved = None THEN [status |-> "unavailable", named |-> {}]
        ELSE [status |-> "available",
              named |-> check_terminology(terms, [use EXCEPT !.context = resolved])]

Nothing == [key \in {} |-> None]

ASSUME BatchesAssumption ==
    \A batch \in Batches : \A key \in DOMAIN batch : batch[key] \in Records \cup {None}

NoEdit == [c \in Clients |-> None]

GuidanceInit ==
    Init /\ catalog = Nothing /\ authored = Nothing /\ editing = NoEdit /\ report = None

Stale(edit) == edit.file # catalog \/ (edit.pc = "writing" /\ edit.contexts # authored)

(* The catalog's other writers: records and edits become stale.  It        *)
(* changes beside one edit, and not twice (a bound).                       *)
ChangeCatalog ==
    /\ report = None
    /\ \A c, d \in Clients : editing[c] # None /\ editing[d] # None => c = d
    /\ \A c \in Clients : editing[c] # None => ~Stale(editing[c])
    /\ catalog' \in Catalogs
    /\ UNCHANGED <<authored, editing, report>>

(* A context edit holds the lock of its server, reads the catalog, ...     *)
ReadCatalog(c) ==
    /\ report = None
    /\ \A d \in Clients : editing[d] # None => Server[d] # Server[c] /\ ~Stale(editing[d])
    /\ editing' = [editing EXCEPT ![c] = [pc |-> "reading", file |-> catalog]]
    /\ UNCHANGED <<catalog, authored, report>>

(* ... reads the records, whose revisions and the catalog's its client     *)
(* named, and computes the records with the edits or what it rejects, ...  *)
ApplyEdits(c, batch) ==
    /\ editing[c] # None /\ editing[c].pc = "reading"
    /\ editing' = [editing EXCEPT ![c] =
            [pc |-> "writing", file |-> editing[c].file, contexts |-> authored, batch |-> batch,
             result |-> apply_context_edits(editing[c].file, authored, batch)]]
    /\ UNCHANGED <<catalog, authored, report>>

(* Mistake: the catalog it has read is not compared.                       *)
WriteOverContexts(c) ==
    /\ editing[c] # None /\ editing[c].pc = "writing"
    /\ editing[c].result.rejected = {} /\ editing[c].result.contexts # editing[c].contexts
    /\ editing[c].contexts = authored
    /\ authored' = editing[c].result.contexts
    /\ editing' = [editing EXCEPT ![c] = None]
    /\ UNCHANGED <<catalog, report>>

(* ... and replaces the records when both files still hold what it read.   *)
WriteContexts(c) ==
    /\ editing[c] # None /\ editing[c].pc = "writing"
    /\ editing[c].result.rejected = {} /\ editing[c].result.contexts # editing[c].contexts
    /\ editing[c].contexts = authored /\ editing[c].file = catalog
    /\ authored' = editing[c].result.contexts
    /\ editing' = [editing EXCEPT ![c] = None]
    /\ UNCHANGED <<catalog, report>>

(* A rejection, edits that change nothing, a conflict, an I/O error or the *)
(* end of the server.                                                      *)
EndEdit(c) ==
    /\ editing[c] # None
    /\ editing' = [editing EXCEPT ![c] = None]
    /\ UNCHANGED <<catalog, authored, report>>

(* A report is made of one snapshot of rules and records.                  *)
Report(terms, use) ==
    /\ report = None /\ editing = NoEdit
    /\ catalog = Reviewed /\ DOMAIN authored \subseteq {use.key}
    /\ report' = [terms |-> terms, contexts |-> authored, use |-> use,
                  answer |-> check_destination(terms, authored, use)]
    /\ UNCHANGED <<catalog, authored, editing>>

Read == report # None /\ report' = None /\ UNCHANGED <<catalog, authored, editing>>

ContextNext ==
    \/ ChangeCatalog
    \/ \E c \in Clients :
        \/ ReadCatalog(c) \/ WriteContexts(c) \/ EndEdit(c)
        \/ \E batch \in Batches : ApplyEdits(c, batch)
    \/ \E terms \in Documents, use \in Uses : Report(terms, use)
    \/ Read

(* The glossary and the workflow file are two files, and no operation      *)
(* writes both: a behaviour moves one of them (a bound).                   *)
GlossaryUntouched ==
    /\ policy = Absent /\ edits = 0
    /\ \A c \in Clients : session[c] = Idle /\ known[c] = None

ContextsUntouched ==
    catalog = Nothing /\ authored = Nothing /\ editing = NoEdit /\ report = None

GuidanceNext ==
    \/ ContextsUntouched /\ Next /\ UNCHANGED contextVars
    \/ GlossaryUntouched /\ ContextNext /\ UNCHANGED vars

GuidanceSpec == GuidanceInit /\ [][GuidanceNext]_<<vars, contextVars>>

-----------------------------------------------------------------------------
(* The ways in which what is not known of a leaf may turn out.             *)
Completions(fields) ==
    LET screens == IF fields.screen = None THEN Screens ELSE {fields.screen}
        roles == IF fields.role = None THEN Roles ELSE {fields.role}
    IN  UNION {{[fields EXCEPT !.screen = screen, !.role = role] : role \in roles} :
                screen \in screens}

(* Never a false clean result: a rule that a translation breaks, once the  *)
(* screen and the role of its leaf are known, is named by the report while *)
(* they are not, or the report says that it is unavailable.                *)
NoFalseClean ==
    report # None /\ report.answer.status = "available" /\ report.use.target # None =>
        \A full \in Completions(resolve_context(report.contexts, report.use.key, report.use.path)) :
            Broken(report.terms, [report.use EXCEPT !.context = full]) \subseteq report.answer.named

Asked(term, use) == IF Demands(term, use) THEN required_forms(term, use) ELSE {}

(* What the conflict check does not look at: a kept name that occurs in    *)
(* several spellings (all have to stay), a forbidden form within a longer  *)
(* form, and forms that are no prose, which no translation has.            *)
Plain(term, other, use) ==
    LET required == Asked(term, use)
        forbidden == forbidden_forms(term, use) \cup forbidden_forms(other, use)
    IN  /\ \A form \in required \cup forbidden : ToSet(form) \cap (Specifiers \cup {Mask}) = {}
        /\ Demands(term, use) /\ term.do_not_translate =>
                \E form \in Spellings(term) : matched_source(term, use) = {form}
        /\ \A form \in required, bad \in forbidden :
                occurrences(form, bad, "literal") # {} => form = bad

(* No text, or one form and another, each with an argument on either side. *)
Made(forms) ==
    {<<>>} \cup {<<Mask>> \o f \o <<Mask, Mask>> \o g \o <<Mask>> : f, g \in forms}

(* Rules about one spelling that are not reported as a conflict can be met *)
(* together: some text made of their forms breaks neither.                 *)
RulesCanBeMet ==
    report # None => \A screen \in Screens, role \in Roles :
        LET terms == report.terms
            use == [report.use EXCEPT
                        !.context = [NoFields EXCEPT !.screen = screen, !.role = role]]
        IN  \A a, b \in evaluated(terms, use) :
                /\ a # b
                /\ matched_source(terms[a], use) \cap matched_source(terms[b], use) # {}
                /\ Plain(terms[a], terms[b], use) /\ Plain(terms[b], terms[a], use)
                => \E text \in Made(Asked(terms[a], use) \cup Asked(terms[b], use)) :
                    {a, b} \cap Broken(terms, [use EXCEPT !.target = text]) = {}

(* The keys whose records an approval refuses, out of all that are stored. *)
Unfit == validate_context_bindings(catalog, authored)

Kept(old, new, keys) ==
    \A key \in keys :
        /\ key \in DOMAIN old <=> key \in DOMAIN new
        /\ key \in DOMAIN old => new[key] = old[key]

Decided(c) == editing'[c] # editing[c] /\ editing'[c] # None /\ editing'[c].pc = "writing"

(* However many stored records have gone stale, and whatever happens to    *)
(* the two files while an edit is under way: an edit is rejected only for  *)
(* records that it sets and that an approval would refuse, and so never    *)
(* for the stale records of other keys, or a removal; and when the records *)
(* change, an approval goes on refusing the same keys, but for those that  *)
(* the edit addresses, of which it refuses none, and all others have the   *)
(* records they had.                                                       *)
RepairsAreExact ==
    [][\A c \in Clients :
        /\ Decided(c) =>
            LET edit == editing'[c]
                refused == Set(edit.batch) \cap
                    validate_context_bindings(edit.file, Edited(edit.contexts, edit.batch))
            IN  /\ edit.result.rejected \subseteq refused
                /\ edit.result.rejected = {} <=> refused = {}
        /\ authored' # authored /\ editing'[c] # editing[c] =>
            LET addressed == DOMAIN editing[c].batch
            IN  /\ Unfit' = Unfit \ addressed
                /\ Kept(authored, authored', (DOMAIN authored \cup DOMAIN authored') \ addressed)]_<<vars, contextVars>>
=============================================================================
