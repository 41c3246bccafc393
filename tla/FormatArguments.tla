-------------------------- MODULE FormatArguments --------------------------
(***************************************************************************)
(* Format specifiers of a text (model/specifier.rs), the arguments they    *)
(* read (model/specifier/comparison.rs), and whether a translation takes   *)
(* the arguments of its source (validate_translation_formats).             *)
(*                                                                         *)
(* A text is the sequence of what parse_candidate finds in it: fields are  *)
(* parsed, and words and %% between them left out except for what follows. *)
(* A position is a set with its number or none.  %#@name@ is a reference   *)
(* to a substitution; read as a specifier it is %#@.                       *)
(***************************************************************************)
EXTENDS Naturals, SequencesExt

CONSTANTS
    FormatTexts,   \* the texts compared
    Metadata       \* the substitutions of a key: their position and specifier

VARIABLE compared  \* the source text being compared with translations, if any

Fixed(value) == [dynamic |-> FALSE, position |-> {}, value |-> value]
Star(position) == [dynamic |-> TRUE, position |-> position, value |-> "*"]

(* %@ in front of a space.                                                 *)
Plain ==
    [position |-> {}, flags |-> <<>>, width |-> Fixed(""), precision |-> Fixed(""),
     length |-> "", conversion |-> "@", next |-> "other",
     name |-> "", arg |-> FALSE]

(* %arg: a specifier %a in front of a word, and the token of a             *)
(* substitution's argument.                                                *)
ArgToken == [Plain EXCEPT !.conversion = "a", !.next = "word", !.arg = TRUE]

Reference(name, position) ==
    [Plain EXCEPT !.name = name, !.position = position, !.flags = <<"#">>]

IsReference(c) == c.name # ""

IsPosition(position) == position \subseteq Nat /\ \A m, n \in position : m = n

IsComponent(x) ==
    \/ x = Fixed(x.value) /\ x.value # "*"
    \/ x = Star(x.position) /\ IsPosition(x.position)

IsSpecifier(c) ==
    /\ IsPosition(c.position) /\ IsComponent(c.width) /\ IsComponent(c.precision)
    /\ IsReference(c) => ~c.width.dynamic /\ ~c.precision.dynamic

Signed == {"d", "D", "i", "c", "C"}
Unsigned == {"o", "O", "u", "U", "x", "X"}
Floating == {"a", "A", "e", "E", "f", "F", "g", "G"}
Narrow == {"h", "hh"}

valid_modifier_conversion(c) ==
    CASE c.length = "" -> TRUE
      [] c.length = "L" -> c.conversion \in Floating
      [] OTHER -> c.conversion \in {"d", "o", "u", "x", "X"}

(* What the parser produces, and metadata as validate_metadata leaves them. *)
ASSUME FormatsAssumption ==
    /\ \A text \in FormatTexts :
            text \in Seq(ToSet(text)) /\ \A c \in ToSet(text) : IsSpecifier(c)
    /\ Metadata = [n \in DOMAIN Metadata |-> Metadata[n]]
    /\ \A n \in DOMAIN Metadata :
            Metadata[n].position \in Nat \ {0} /\ valid_modifier_conversion(Metadata[n])

Dynamic(c) == {component \in {c.width, c.precision} : component.dynamic}

(* Position zero, of the value, the width or the precision.                *)
InvalidPosition(c) == 0 \in c.position \cup UNION {component.position : component \in Dynamic(c)}

HasDefiniteShape(c) ==
    /\ valid_modifier_conversion(c)
    /\ c.position # {} \/ (c.length # "" /\ " " \notin ToSet(c.flags))

(* The start of a word in prose, such as 50% off.                          *)
MayBeProse(c) == c.next = "word" /\ c.conversion # "@" /\ ~HasDefiniteShape(c)

(* analyze_format                                                          *)
Ambiguous(text) == {c \in ToSet(text) : ~InvalidPosition(c) /\ MayBeProse(c)}
IsArgument(c) == ~InvalidPosition(c) /\ ~MayBeProse(c) /\ valid_modifier_conversion(c)
Arguments(text) == {k \in DOMAIN text : IsArgument(text[k])}
HasProblem(text) ==
    \E c \in ToSet(text) :
        InvalidPosition(c) \/ (~MayBeProse(c) /\ ~valid_modifier_conversion(c))

SignedTypes ==
    [l |-> "Long", ll |-> "LongLong", q |-> "LongLong", j |-> "IntMax",
     z |-> "SignedSize", t |-> "PtrDiff"]
UnsignedTypes ==
    [l |-> "UnsignedLong", ll |-> "UnsignedLongLong", q |-> "UnsignedLongLong",
     j |-> "UnsignedIntMax", z |-> "Size", t |-> "Size"]

argument_type(c) ==
    CASE c.length = "L" -> "LongDouble"
      [] c.length \in Narrow -> "Int"
      [] c.length \in DOMAIN SignedTypes ->
            IF c.conversion = "d" THEN SignedTypes[c.length] ELSE UnsignedTypes[c.length]
      [] c.conversion \in Signed -> "Int"
      [] c.conversion \in Unsigned -> "UnsignedInt"
      [] c.conversion \in Floating -> "Double"
      [] OTHER -> c.conversion   \* @ s S p n: a pointer type of its own

has_any_position(c) ==
    \/ c.position # {}
    \/ \E component \in Dynamic(c) : component.position # {}

has_any_sequential_argument(c) ==
    \/ c.position = {}
    \/ \E component \in Dynamic(c) : component.position = {}

Positional(text) == \E k \in Arguments(text) : has_any_position(text[k])
Sequential(text) == \E k \in Arguments(text) : has_any_sequential_argument(text[k])

Number(position) == CHOOSE n \in position : TRUE

Takes(component) == IF component.dynamic THEN 1 ELSE 0

(* resolve_component: the argument of a dynamic width or precision.        *)
Resolved(component, next) ==
    [value |-> component.value,
     argument |-> IF ~component.dynamic THEN {}
                  ELSE IF component.position # {} THEN component.position
                  ELSE {next}]

(* Mistake: the value is taken before the width and the precision.         *)
OccurrenceValueFirst(c, next) ==
    LET width == next + 1
        precision == width + Takes(c.width)
    IN  [position |-> IF c.position # {} THEN Number(c.position) ELSE next,
         type |-> argument_type(c),
         signature |-> <<c.flags, Resolved(c.width, width), Resolved(c.precision, precision),
                         c.length, c.conversion>>]

(* A specifier whose first argument, if it has no position, is next.       *)
Occurrence(c, next) ==
    LET precision == next + Takes(c.width)
        value == precision + Takes(c.precision)
    IN  [position |-> IF c.position # {} THEN Number(c.position) ELSE value,
         type |-> argument_type(c),
         signature |-> <<c.flags, Resolved(c.width, next), Resolved(c.precision, precision),
                         c.length, c.conversion>>]

(* next_position after so many specifiers.                                 *)
NextPosition(text) ==
    LET next[k \in 0 .. Len(text)] ==
            IF k = 0 THEN 1
            ELSE IF k \in Arguments(text)
            THEN next[k - 1] + Takes(text[k].width) + Takes(text[k].precision) + 1
            ELSE next[k - 1]
    IN  next

(* logical_arguments, of a text that does not mix its arguments.           *)
Occurrences(text) ==
    [k \in Arguments(text) |-> Occurrence(text[k], NextPosition(text)[k - 1])]

Components(o) == o.signature[2].argument \cup o.signature[3].argument

(* register_argument: the types the text has for its positions.            *)
Registered(text) ==
    UNION {{<<o.position, o.type>>} \cup {<<n, "Int">> : n \in Components(o)} :
           o \in Range(Occurrences(text))}

Positions(text) == {entry[1] : entry \in Registered(text)}

validate_positions(text, fragment) ==
    LET positions == Positions(text)
    IN  0 \notin positions /\ (fragment \/ positions = 1..Cardinality(positions))

Logical(text, fragment) ==
    /\ ~HasProblem(text)
    /\ ~(Positional(text) /\ Sequential(text))
    /\ \A x, y \in Registered(text) : x[1] = y[1] => x = y
    /\ validate_positions(text, fragment)

(* Tokens of the argument of a substitution.                               *)
Placeholders(text) == Cardinality({k \in DOMAIN text : text[k].arg})

(* compare_formats, of whole texts, and compare_substitution_fragment.     *)
compare_formats(source, target, fragment) ==
    /\ Logical(source, fragment) /\ Logical(target, fragment)
    /\ Registered(source) = Registered(target)
    /\ ToBag(Occurrences(source)) = ToBag(Occurrences(target))
    /\ fragment => Placeholders(source) = Placeholders(target)

(* metadata: a substitution of the first, else of the second.              *)
Known(primary, fallback) ==
    [n \in DOMAIN primary \cup DOMAIN fallback |->
        IF n \in DOMAIN primary THEN primary[n] ELSE fallback[n]]

substitution_references(text) == {c \in ToSet(text) : IsReference(c)}

validate_references(known, text) ==
    \A c \in substitution_references(text) :
        c.name \in DOMAIN known /\ c.position \subseteq {known[c.name].position}

(* Mistake: a substitution is put in without its position.                 *)
expand_in_place(known, text) ==
    [i \in DOMAIN text |->
        IF ~IsReference(text[i]) THEN text[i]
        ELSE [Plain EXCEPT !.length = known[text[i].name].length,
                           !.conversion = known[text[i].name].conversion]]

expand_references(known, text) ==
    [i \in DOMAIN text |->
        IF ~IsReference(text[i]) THEN text[i]
        ELSE [Plain EXCEPT !.position = {known[text[i].name].position},
                           !.length = known[text[i].name].length,
                           !.conversion = known[text[i].name].conversion]]

(* validate_translation_formats for the text of one leaf, in a             *)
(* substitution or not, with the substitutions source and target have.     *)
TakesArguments(inSource, inTarget, source, target, part) ==
    LET ofSource == Known(inSource, inTarget)
        ofTarget == Known(inTarget, inSource)
    IN  IF part THEN compare_formats(source, target, TRUE)
        ELSE /\ validate_references(ofSource, source) /\ validate_references(ofTarget, target)
             /\ compare_formats(expand_references(ofSource, source),
                                expand_references(ofTarget, target), FALSE)

(* observed_format_arguments: what a context says of a source's arguments. *)
Observed(text) ==
    UNION {{[position |-> n, format |-> <<"", "d">>] : n \in Components(o)}
           \cup {[position |-> o.position, format |-> <<o.signature[4], o.signature[5]>>]} :
           o \in Range(Occurrences(text))}

-----------------------------------------------------------------------------
FormatsInit == compared = {}

(* A source text and every translation of it are taken up, and put away.   *)
Compare == compared = {} /\ \E text \in FormatTexts : compared' = {text}
PutAway == compared # {} /\ compared' = {}

FormatsSpec == FormatsInit /\ [][Compare \/ PutAway]_compared

(***************************************************************************)
(* Properties.                                                             *)
(***************************************************************************)

(* The runtime prints a text with the arguments a program passes: a        *)
(* specifier reads its width, its precision and its value, each from its   *)
(* position or from the next argument.  A reference prints the form that   *)
(* the value of its substitution selects.                                  *)
Wants(c) ==
    IF IsReference(c)
    THEN LET m == Metadata[c.name]
         IN  <<[position |-> {m.position}, type |-> argument_type([Plain EXCEPT
                    !.length = m.length, !.conversion = m.conversion])]>>
    ELSE (IF c.width.dynamic THEN <<[position |-> c.width.position, type |-> "Int"]>> ELSE <<>>)
         \o (IF c.precision.dynamic
             THEN <<[position |-> c.precision.position, type |-> "Int"]>> ELSE <<>>)
         \o <<[position |-> c.position, type |-> argument_type(c)]>>

AllWants(text) == [k \in DOMAIN text |-> Wants(text[k])]

(* The first so many of a list of sequences, as one sequence.              *)
Joined(lists) ==
    LET joined[k \in 0 .. Len(lists)] ==
            IF k = 0 THEN <<>> ELSE joined[k - 1] \o lists[k]
    IN  joined

Reads(text) == Joined(AllWants(text))[Len(text)]

IndexOf(reads, i) == IF reads[i].position = {} THEN i ELSE Number(reads[i].position)

(* The arguments a program passes for a text: their types in order.        *)
Passed(text) ==
    LET reads == Reads(text)
    IN  {<<IndexOf(reads, i), reads[i].type>> : i \in DOMAIN reads}

(* Printing a text is defined when its specifiers are, either all of its   *)
(* reads have positions or none has, and the arguments up to the last one  *)
(* are each read and passed with the type they are read with.              *)
Prints(text, arguments) ==
    LET reads == Reads(text)
        indices == {IndexOf(reads, i) : i \in DOMAIN reads}
    IN  /\ \A c \in ToSet(text) :
            /\ IF IsReference(c)
               THEN c.name \in DOMAIN Metadata /\ c.position \subseteq {Metadata[c.name].position}
               ELSE valid_modifier_conversion(c)
            /\ ~InvalidPosition(c)
        /\ \A i, j \in DOMAIN reads : (reads[i].position = {}) = (reads[j].position = {})
        /\ \A n \in indices : 1..n \subseteq indices
        /\ \A i \in DOMAIN reads :
            {a \in arguments : a[1] = IndexOf(reads, i)} = {<<IndexOf(reads, i), reads[i].type>>}

Shown(c) ==
    IF IsReference(c)
    THEN [Plain EXCEPT !.length = Metadata[c.name].length,
                       !.conversion = Metadata[c.name].conversion]
    ELSE c

Picture(text, k) ==
    LET before == Len(Joined(AllWants(text))[k - 1])
    IN  <<[j \in DOMAIN Wants(text[k]) |-> IndexOf(Reads(text), before + j)],
          Shown(text[k]).flags, Shown(text[k]).width.value, Shown(text[k]).precision.value,
          Shown(text[k]).length, Shown(text[k]).conversion>>

(* What is printed: each specifier with the arguments it shows.            *)
Printed(text) == ToBag([k \in DOMAIN text |-> Picture(text, k)])

(* A translation without ambiguous sequences is accepted just when it is   *)
(* safe to print with the arguments the source is printed with, and shows  *)
(* each of them as the source does, in whatever order and with whatever    *)
(* mixture of positions, dynamic widths and references; and what a context *)
(* says of the source's arguments then holds for the translation's.        *)
FormatsAreKept ==
    \A s \in compared :
        LET passed == Passed(s)
            printed == Printed(s)
            safe == Prints(s, passed)
            observed == Observed(expand_references(Metadata, s))
        IN  Ambiguous(s) = {} =>
            \A t \in FormatTexts :
                LET accepted == TakesArguments(Metadata, Metadata, s, t, FALSE)
                IN  Ambiguous(t) = {} =>
                    /\ accepted <=> safe /\ Prints(t, passed) /\ Printed(t) = printed
                    /\ accepted => Observed(expand_references(Metadata, t)) = observed
=============================================================================
