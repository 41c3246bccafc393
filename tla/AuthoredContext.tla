--------------------------- MODULE AuthoredContext ---------------------------
(***************************************************************************)
(* What developers write about a key beside the catalog (service/context): *)
(* how the facts of a key and of one leaf are combined, which records fit  *)
(* a catalog, which variables a source text has, and how a batch of edits  *)
(* is applied.                                                             *)
(*                                                                         *)
(* A path is a place of LeafPlaces, a text is one of FormatArguments or    *)
(* Unparsed, when its references to substitutions cannot be read.  An      *)
(* entry has its source localization (place -> text) or None, the          *)
(* substitutions there with valid metadata (name -> position, length and   *)
(* conversion), the places where some localization has a leaf, and the     *)
(* text that its key is.                                                   *)
(***************************************************************************)
EXTENDS LeafPlaces

CONSTANTS
    None,
    Unparsed,         \* a text with a reference that cannot be read
    Blank             \* a field of white space

(* Texts as format specifiers.  The texts that are compared and what they  *)
(* are compared with are not needed here.                                  *)
Formats ==
    INSTANCE FormatArguments
        WITH FormatTexts <- {}, Metadata <- [name \in {} |-> None], compared <- {}

Argument(position) == [argument |-> position]
Substitution(name) == [substitution |-> name]

NoFields == [screen |-> None, role |-> None, variables |-> None, neighbors |-> None]
NoRecord == [context |-> NoFields, leaves |-> [path \in {} |-> NoFields]]

-----------------------------------------------------------------------------
(* A field of the leaf's own replaces the key's as a whole.                *)
overlay(fields, own) ==
    [name \in DOMAIN fields |-> IF own[name] = None THEN fields[name] ELSE own[name]]

resolve_validated(authored, path) ==
    IF path \in DOMAIN authored.leaves THEN overlay(authored.context, authored.leaves[path])
    ELSE authored.context

ValidFields(key, fields) ==
    /\ fields.screen # Blank /\ fields.role # Blank
    /\ fields.neighbors # None => key \notin fields.neighbors

validate_authored_context(key, authored) ==
    /\ ValidFields(key, authored.context)
    /\ \A path \in DOMAIN authored.leaves :
            Supported(path) /\ ValidFields(key, authored.leaves[path])

(* The facts for a leaf, or None when the record is not valid.             *)
resolve_context(contexts, key, path) ==
    IF key \notin DOMAIN contexts THEN NoFields
    ELSE IF validate_authored_context(key, contexts[key])
    THEN resolve_validated(contexts[key], path) ELSE None

-----------------------------------------------------------------------------
References(text) == {c.name : c \in Formats!substitution_references(text)}

(* The substitution that a path goes into, if its metadata is valid.       *)
Own(entry, path) == {path.at} \cap DOMAIN entry.substitutions

Value(metadata) ==
    [Formats!Plain EXCEPT !.position = {metadata.position},
                          !.length = metadata.length, !.conversion = metadata.conversion]

(* The text with what its references stand for, those that have no valid   *)
(* metadata left out, and within a substitution what %arg stands for.      *)
Expanded(entry, path, text) ==
    LET known(c) == Formats!IsReference(c) => c.name \in DOMAIN entry.substitutions
        expanded == Formats!expand_references(entry.substitutions, SelectSeq(text, known))
    IN  [i \in DOMAIN expanded |->
            IF expanded[i].arg /\ Own(entry, path) # {} THEN Value(entry.substitutions[path.at])
            ELSE expanded[i]]

(* unknown_source_substitution and invalid_source_variables                *)
HasIssue(entry, path, text) ==
    \/ text = Unparsed
    \/ ~(References(text) \subseteq DOMAIN entry.substitutions)
    \/ ~Formats!Logical(Expanded(entry, path, text), TRUE)

(* The variables of a text without issues: the substitutions it refers to, *)
(* the one its leaf belongs to, and what else it shows by position.        *)
observe_variables(entry, path, text) ==
    LET names == References(text) \cup Own(entry, path)
        taken == {entry.substitutions[name].position : name \in names}
        shown == {v.position : v \in Formats!Observed(Expanded(entry, path, text))}
    IN  {[reference |-> Substitution(name), position |-> entry.substitutions[name].position] :
            name \in names}
        \cup {[reference |-> Argument(n), position |-> n] : n \in shown \ taken}

Occurs(binding, observed) ==
    \E variable \in observed :
        variable.reference = binding \/ binding = Argument(variable.position)

check_variables(fields, observed) ==
    fields.variables # None => \A binding \in fields.variables : Occurs(binding, observed)

check_neighbors(file, fields) ==
    fields.neighbors # None => fields.neighbors \subseteq DOMAIN file

SourceLeaves(entry) ==
    IF entry.source = None THEN {<<RootPlace, entry.key_text>>}
    ELSE {<<path, entry.source[path]>> : path \in DOMAIN entry.source}

KeyBindings(file, key, fields) ==
    LET entry == file[key]
    IN  /\ \A leaf \in SourceLeaves(entry) : ~HasIssue(entry, leaf[1], leaf[2])
        /\ check_variables(fields,
               UNION {observe_variables(entry, leaf[1], leaf[2]) : leaf \in SourceLeaves(entry)})
        /\ check_neighbors(file, fields)

(* The source leaves that source_unit tries for a path, as far as they     *)
(* exist; the first is the one it returns.                                 *)
Resolving(entry, path) ==
    IF entry.source = None THEN <<>>
    ELSE SelectSeq(SourcePlaces(entry.source, path), LAMBDA q : q \in DOMAIN entry.source)

(* A path that only some target has is read with the key as its text.      *)
LeafBindings(file, key, path, fields) ==
    LET entry == file[key]
        found == Resolving(entry, path)
        text == IF found = <<>> THEN entry.key_text ELSE entry.source[found[1]]
    IN  /\ found # <<>> \/ path = RootPlace \/ path \in entry.targets
        /\ ~HasIssue(entry, path, text)
        /\ check_variables(fields, observe_variables(entry, path, text))
        /\ check_neighbors(file, fields)

Fits(file, key, authored) ==
    /\ key \in DOMAIN file
    /\ validate_authored_context(key, authored)
    /\ KeyBindings(file, key, authored.context)
    /\ \A path \in DOMAIN authored.leaves : LeafBindings(file, key, path, authored.leaves[path])

(* The keys that have diagnostics: an approval asks for one of them.       *)
validate_context_bindings(file, contexts) ==
    {key \in DOMAIN contexts : ~Fits(file, key, contexts[key])}

-----------------------------------------------------------------------------
(* A batch: key -> record to set, or None to remove; each key once.        *)
Set(batch) == {key \in DOMAIN batch : batch[key] # None}

Edited(contexts, batch) ==
    [key \in (DOMAIN contexts \ DOMAIN batch) \cup Set(batch) |->
        IF key \in DOMAIN batch THEN batch[key] ELSE contexts[key]]

(* What is wrong with a batch before anything is bound to the catalog.     *)
Malformed(file, batch) ==
    {key \in Set(batch) : key \notin DOMAIN file \/ ~validate_authored_context(key, batch[key])}

(* Mistake: all records have to fit, not only those that are set.          *)
apply_to_document(file, contexts, batch) ==
    LET rejected == Malformed(file, batch)
                    \cup validate_context_bindings(file, Edited(contexts, batch))
    IN  [rejected |-> rejected,
         contexts |-> IF rejected = {} THEN Edited(contexts, batch) ELSE contexts]

(* The keys with diagnostics, and the records if there are none.           *)
apply_context_edits(file, contexts, batch) ==
    LET changed == [key \in Set(batch) |-> batch[key]]
        rejected == IF Malformed(file, batch) # {} THEN Malformed(file, batch)
                    ELSE validate_context_bindings(file, changed)
    IN  [rejected |-> rejected,
         contexts |-> IF rejected = {} THEN Edited(contexts, batch) ELSE contexts]
=============================================================================
