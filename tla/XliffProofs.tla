---------------------------- MODULE XliffProofs ----------------------------
(***************************************************************************)
(* Theorems about XliffUnits and XliffExchange, for all keys, places,      *)
(* texts, entries, documents and answers.                                  *)
(***************************************************************************)
EXTENDS XliffExchange, TreeProofs, WellFoundedInduction, FiniteSetTheorems

-----------------------------------------------------------------------------
(* The source text of a unit.                                              *)

(* The source leaf depends on nothing but the places of the source.        *)
LeafAmong(places, p) ==
    LET At(at, c) == [at |-> at, plural |-> c]
        near == IF p.plural = Whole THEN <<p>> ELSE <<p, At(p.at, AnyPlural)>>
        far == IF InSubstitution(p) THEN <<>>
               ELSE (IF p.at \in Devices THEN <<At(AnyDevice, Whole)>> ELSE <<>>)
                    \o <<RootPlace, At(Root, AnyPlural), At(AnyDevice, Whole)>>
        found == {i \in DOMAIN (near \o far) : (near \o far)[i] \in places}
    IN  IF found = {} THEN <<>>
        ELSE <<(near \o far)[CHOOSE i \in found : \A j \in found : i <= j]>>

LEMMA SourceLeafAmong ==
    ASSUME NEW loc, NEW p
    PROVE  SourceLeaf(loc, p) = LeafAmong(DOMAIN loc, p)
BY DEF SourceLeaf, LeafAmong

LEMMA Tuples ==
    ASSUME NEW S, NEW a \in S, NEW b \in S, NEW c \in S
    PROVE  /\ <<>> \in Seq(S) /\ <<a>> \in Seq(S)
           /\ <<a, b>> \in Seq(S) /\ <<a, b, c>> \in Seq(S)
OBVIOUS

LEMMA Concatenated ==
    ASSUME NEW S, NEW s \in Seq(S), NEW t \in Seq(S)
    PROVE  s \o t \in Seq(S) /\ DOMAIN (s \o t) \subseteq Nat
OBVIOUS

LEMMA SourceLeafFacts ==
    ASSUME NEW loc, NEW p, SourceLeaf(loc, p) # <<>>
    PROVE  /\ SourceLeaf(loc, p)[1] \in DOMAIN loc
           /\ ~InSubstitution(p) => ~InSubstitution(SourceLeaf(loc, p)[1])
<1> DEFINE At(at, c) == [at |-> at, plural |-> c]
           S == {p, At(p.at, AnyPlural), At(AnyDevice, Whole), RootPlace, At(Root, AnyPlural)}
           near == IF p.plural = Whole THEN <<p>> ELSE <<p, At(p.at, AnyPlural)>>
           device == IF p.at \in Devices THEN <<At(AnyDevice, Whole)>> ELSE <<>>
           root == <<RootPlace, At(Root, AnyPlural), At(AnyDevice, Whole)>>
           far == IF InSubstitution(p) THEN <<>> ELSE device \o root
           places == near \o far
           found == {i \in DOMAIN places : places[i] \in DOMAIN loc}
           i0 == CHOOSE i \in found : \A j \in found : i <= j
<1>1. SourceLeaf(loc, p) = IF found = {} THEN <<>> ELSE <<places[i0]>>
  BY DEF SourceLeaf
<1>2. places \in Seq(S) /\ DOMAIN places \subseteq Nat
  <2>1. /\ p \in S /\ At(p.at, AnyPlural) \in S /\ At(AnyDevice, Whole) \in S
        /\ RootPlace \in S /\ At(Root, AnyPlural) \in S
    OBVIOUS
  <2> HIDE DEF At, S
  <2>2. near \in Seq(S)
    BY <2>1, Tuples
  <2>3. device \in Seq(S) /\ root \in Seq(S) /\ <<>> \in Seq(S)
    BY <2>1, Tuples
  <2> HIDE DEF near, device, root
  <2>4. far \in Seq(S)
    BY <2>3, Concatenated
  <2> HIDE DEF far
  <2> QED BY <2>2, <2>4, Concatenated
<1>3. found # {}
  BY <1>1
<1>4. i0 \in found
  <2> HIDE DEF places
  <2>1. found \in SUBSET Nat
    BY <1>2
  <2> HIDE DEF found
  <2>2. \E i \in found : \A j \in found : i <= j
    BY <1>3, <2>1, LeastIndex
  <2> QED BY <2>2
<1>5. i0 \in DOMAIN places /\ places[i0] \in DOMAIN loc /\ SourceLeaf(loc, p)[1] = places[i0]
  <2> HIDE DEF i0, places
  <2> QED BY <1>1, <1>3, <1>4
<1>6. places[i0] \in S
  <2> HIDE DEF i0, places, S
  <2> QED BY <1>2, <1>5
<1>7. ASSUME ~InSubstitution(p), NEW q \in S PROVE ~InSubstitution(q)
  BY <1>7, PlacesAssumption DEF InSubstitution, RootPlace
<1> QED
  <2> HIDE DEF i0, places, S
  <2> QED BY <1>5, <1>6, <1>7

LEMMA XliffSourceTyped ==
    ASSUME NEW locs, IsLocalization(Source(locs)), NEW p
    PROVE  /\ XliffSource(locs, p) \in Texts \cup {Identifier}
           /\ HasSourceLeaf(locs, p) => XliffSource(locs, p) \in Texts
<1>1. CASE HasSourceLeaf(locs, p)
  <2> DEFINE q == SourceLeaf(Source(locs), p)[1]
  <2>1. q \in DOMAIN Source(locs)
    BY <1>1, SourceLeafFacts DEF HasSourceLeaf
  <2>2. Source(locs)[q].text \in Texts
    BY <2>1, UnitFacts
  <2>3. XliffSource(locs, p) = Shown(Source(locs), q, Source(locs)[q].text)
    BY <1>1 DEF XliffSource
  <2>4. InSubstitution(q) \in BOOLEAN
    BY DEF InSubstitution
  <2> HIDE DEF q
  <2> QED BY <2>2, <2>3, <2>4, ExchangeAssumption DEF Shown
<1>2. CASE ~HasSourceLeaf(locs, p)
  BY <1>2, TextsAssumption DEF XliffSource
<1> QED BY <1>1, <1>2

(* Two sources with the same places and texts.                             *)
LEMMA SameSource ==
    ASSUME NEW a, NEW b, DOMAIN Source(a) = DOMAIN Source(b),
           \A q \in DOMAIN Source(a) : Source(a)[q].text = Source(b)[q].text, NEW p
    PROVE  XliffSource(a, p) = XliffSource(b, p)
<1>1. SourceLeaf(Source(a), p) = SourceLeaf(Source(b), p)
  BY SourceLeafAmong
<1>2. HasSourceLeaf(a, p) = HasSourceLeaf(b, p)
  BY <1>1 DEF HasSourceLeaf
<1>3. Substitutions(Source(a)) = Substitutions(Source(b))
  BY DEF Substitutions
<1>4. CASE HasSourceLeaf(a, p)
  <2> DEFINE q == SourceLeaf(Source(a), p)[1]
  <2>1. q \in DOMAIN Source(a)
    BY <1>4, SourceLeafFacts DEF HasSourceLeaf
  <2>2. q = SourceLeaf(Source(b), p)[1]
    BY <1>1
  <2>3. XliffSource(a, p) = Shown(Source(a), q, Source(a)[q].text)
    BY <1>4 DEF XliffSource
  <2>4. XliffSource(b, p) = Shown(Source(b), q, Source(b)[q].text)
    BY <1>2, <1>4, <2>2 DEF XliffSource
  <2> HIDE DEF q
  <2> QED BY <1>3, <2>1, <2>3, <2>4 DEF Shown
<1>5. CASE ~HasSourceLeaf(a, p)
  BY <1>2, <1>5 DEF XliffSource
<1> QED BY <1>4, <1>5

(* Comparing a unit's source with the catalog's.                           *)
LEMMA MatchingTexts ==
    ASSUME NEW locs, NEW u, u.source \in Texts \cup {Identifier}, ~InSubstitution(u.place),
           SourceMatches(locs, u)
    PROVE  SameText(u.source, XliffSource(locs, u.place))
<1> DEFINE q == SourceLeaf(Source(locs), u.place)[1]
<1>1. u.source # NoText
  BY ExchangeAssumption, TextsAssumption
<1>2. XliffSource(locs, u.place) = IF HasSourceLeaf(locs, u.place) /\ u.source # Identifier
                                   THEN Shown(Source(locs), q, u.source) ELSE u.source
  BY <1>1 DEF SourceMatches
<1>3. CASE HasSourceLeaf(locs, u.place) /\ u.source # Identifier
  <2>1. InSubstitution(q) = FALSE
    BY <1>3, SourceLeafFacts DEF HasSourceLeaf, InSubstitution
  <2> HIDE DEF q
  <2>2. Shown(Source(locs), q, u.source) \in {u.source, Outward(FALSE, u.source)}
    BY <2>1 DEF Shown
  <2>3. u.source \in Texts
    BY <1>3
  <2>4. Outward(FALSE, Outward(FALSE, u.source)) = Outward(FALSE, u.source)
    BY <2>3, ExchangeAssumption
  <2>5. XliffSource(locs, u.place) \in {u.source, Outward(FALSE, u.source)}
    BY <1>2, <1>3, <2>2
  <2> QED BY <2>4, <2>5 DEF SameText
<1>4. CASE ~(HasSourceLeaf(locs, u.place) /\ u.source # Identifier)
  BY <1>2, <1>4 DEF SameText
<1> QED BY <1>3, <1>4

-----------------------------------------------------------------------------
(* What an import makes of a unit.                                         *)

Placed(u) == [state |-> ImportState(u.state), text |-> Value(u)]

LEMMA TemplateFacts ==
    ASSUME NEW locs, AreLocalizations(locs), NEW l \in Languages, NEW u
    PROVE  /\ IsLocalization(TemplateOf(locs, l, u)) /\ IsLocalization(ImportBase(locs, l, u))
           /\ \A p \in DOMAIN TemplateOf(locs, l, u) : TemplateOf(locs, l, u)[p].state = "new"
<1>1. IsLocalization(NoLocalization) /\ DOMAIN NoLocalization = {}
  BY DEF IsLocalization, NoLocalization
<1>2. IsLocalization(InitialLocale(locs, l))
  BY InitialTyped DEF Locales
<1>3. \A p \in DOMAIN InitialLocale(locs, l) : InitialLocale(locs, l)[p].state = "new"
  BY DEF InitialLocale, New
<1>4. l \in DOMAIN locs => IsLocalization(locs[l])
  BY DEF AreLocalizations
<1> QED BY <1>1, <1>2, <1>3, <1>4 DEF TemplateOf, ImportBase

LEMMA PlacedTyped ==
    ASSUME NEW u \in XliffUnit(Keys), u.target # NoText, u.state \in ImportableStates
    PROVE  Placed(u) \in Unit
<1>1. ImportState(u.state) \in States
  BY DEF ImportState, ImportableStates, States
<1>2. u.target \in Texts /\ InSubstitution(u.place) \in BOOLEAN
  BY DEF XliffUnit, InSubstitution
<1>3. Value(u) \in Texts
  BY <1>2, ExchangeAssumption DEF Value
<1> QED BY <1>1, <1>3 DEF Placed, Unit

LEMMA ImportTyped ==
    ASSUME NEW locs, AreLocalizations(locs), NEW l \in Languages,
           NEW u \in XliffUnit(Keys), u.target # NoText, u.state \in ImportableStates
    PROVE  AreLocalizations(WithImported(locs, l, u))
<1> DEFINE base == ImportBase(locs, l, u)
           template == TemplateOf(locs, l, u)
           kept == DOMAIN base \ Above(u.place)
           brought == Brought(locs, l, u)
           made == [p \in kept \cup brought \cup {u.place} |->
                        IF p = u.place THEN Placed(u)
                        ELSE IF p \in DOMAIN base THEN base[p] ELSE template[p]]
<1>1. IsLocalization(base) /\ IsLocalization(template)
  BY TemplateFacts
<1>2. Imported(locs, l, u) = made
  BY DEF Imported, Placed
<1>3. brought \subseteq DOMAIN template
  BY DEF Brought
<1>4. Placed(u) \in Unit /\ u.place \in Place
  BY PlacedTyped DEF XliffUnit
<1>5. IsLocalization(made)
  <2> HIDE DEF base, template, brought
  <2>1. \A p \in DOMAIN made : p \in Place /\ made[p] \in Unit
    BY <1>1, <1>3, <1>4, UnitFacts
  <2> HIDE DEF kept
  <2>2. made = [p \in DOMAIN made |-> made[p]]
    OBVIOUS
  <2> HIDE DEF made
  <2> QED BY <2>1, <2>2 DEF IsLocalization
<1>6. WithImported(locs, l, u) = [m \in DOMAIN locs \cup {l} |-> IF m = l THEN made ELSE locs[m]]
  BY <1>2 DEF WithImported
<1> QED
  <2> HIDE DEF made
  <2> QED BY <1>5, <1>6 DEF AreLocalizations, Locales

(* A unit that is imported is put into its place; units in the way of it   *)
(* are empty, and others only come.                                        *)
LEMMA ImportTouches ==
    ASSUME NEW locs, AreLocalizations(locs), NEW l \in Languages,
           NEW u \in XliffUnit(Keys), CanImport(locs, l, u)
    PROVE  /\ UnitAt(WithImported(locs, l, u), l, u.place) = {Placed(u)}
           /\ \A m, p : m # l \/ p # u.place =>
                LET before == UnitAt(locs, m, p)
                    after == UnitAt(WithImported(locs, l, u), m, p)
                IN  \/ after = before
                    \/ m = l /\ p \in Above(u.place) /\ before = {New(Blank)} /\ after = {}
                    \/ before = {} /\ \A v \in after : v.state = "new"
<1> DEFINE base == ImportBase(locs, l, u)
           template == TemplateOf(locs, l, u)
           brought == Brought(locs, l, u)
           made == [p \in (DOMAIN base \ Above(u.place)) \cup brought \cup {u.place} |->
                        IF p = u.place THEN Placed(u)
                        ELSE IF p \in DOMAIN base THEN base[p] ELSE template[p]]
           result == WithImported(locs, l, u)
<1>1. result = [m \in DOMAIN locs \cup {l} |-> IF m = l THEN made ELSE locs[m]]
  BY DEF WithImported, Imported, Placed
<1>2. \A p \in DOMAIN template : template[p].state = "new"
  BY TemplateFacts
<1>3. brought \subseteq DOMAIN template /\ brought \cap Above(u.place) = {}
  BY PlacesAssumption DEF Brought, Above, InSubstitution, RootPlace
<1>4. base = IF l \in DOMAIN locs THEN locs[l] ELSE template
  BY DEF ImportBase
<1>5. \A p \in Above(u.place) \cap DOMAIN base : base[p] = New(Blank)
  <2>1. Reaches(base, u.place)
    BY DEF CanImport
  <2> HIDE DEF base
  <2> QED BY <2>1 DEF Reaches, Above, InSubstitution
<1>6. UnitAt(result, l, u.place) = {Placed(u)}
  <2> HIDE DEF base, template, brought, result
  <2> QED BY <1>1 DEF UnitAt
<1>7. ASSUME NEW m, NEW p, m # l
      PROVE  UnitAt(result, m, p) = UnitAt(locs, m, p)
  <2> HIDE DEF made, result
  <2> QED BY <1>1, <1>7 DEF UnitAt
<1>8. ASSUME NEW p, p # u.place
      PROVE  \/ UnitAt(result, l, p) = UnitAt(locs, l, p)
             \/ p \in Above(u.place) /\ UnitAt(locs, l, p) = {New(Blank)} /\ UnitAt(result, l, p) = {}
             \/ UnitAt(locs, l, p) = {} /\ \A v \in UnitAt(result, l, p) : v.state = "new"
  <2> HIDE DEF base, template, brought, result
  <2>1. UnitAt(result, l, p) = IF p \in DOMAIN made THEN {made[p]} ELSE {}
    <3> HIDE DEF made
    <3> QED BY <1>1 DEF UnitAt
  <2>2. CASE l \in DOMAIN locs /\ p \in DOMAIN locs[l]
    <3>1. base = locs[l] /\ UnitAt(locs, l, p) = {base[p]}
      BY <1>4, <2>2 DEF UnitAt
    <3>2. CASE p \in Above(u.place)
      <4>1. p \notin DOMAIN made /\ base[p] = New(Blank)
        BY <1>3, <1>5, <1>8, <2>2, <3>1, <3>2
      <4> QED BY <2>1, <3>1, <3>2, <4>1
    <3>3. CASE p \notin Above(u.place)
      BY <1>8, <2>1, <2>2, <3>1, <3>3
    <3> QED BY <3>2, <3>3
  <2>3. CASE ~(l \in DOMAIN locs /\ p \in DOMAIN locs[l])
    <3>1. UnitAt(locs, l, p) = {}
      BY <2>3 DEF UnitAt
    <3>2. ASSUME p \in DOMAIN made PROVE made[p].state = "new"
      BY <1>2, <1>3, <1>4, <1>8, <2>3, <3>2
    <3> QED BY <2>1, <3>1, <3>2
  <2> QED BY <2>2, <2>3
<1> QED
  <2> HIDE DEF result
  <2> QED BY <1>6, <1>7, <1>8 DEF result

-----------------------------------------------------------------------------
(* The invariant.                                                          *)

IsEntry(e) ==
    /\ e = [shouldTranslate |-> e.shouldTranslate, localizations |-> e.localizations]
    /\ e.shouldTranslate \in BOOLEAN /\ AreLocalizations(e.localizations)

(* The source localization of a version.                                   *)
SourceAsOf(then) ==
    [l \in {m \in {SourceLanguage} : then.authored} |->
        [p \in DOMAIN then.texts |-> New(then.texts[p])]]

(* The source texts in a document are those of the versions it was made of.*)
FromSources(d) ==
    \A u \in d.units :
        u.source = NoText \/ u.source = XliffSource(SourceAsOf(d.captured[u.key]), u.place)

DocumentsOK ==
    /\ xml # None => FromSources(xml)
    /\ job.pc = "exporting" => FromSources(job.document)

(* What the checks of the units have found, before and during the import.  *)
PlanOK ==
    job.pc = "importing" =>
        /\ \A u \in Accepted :
            u.state \in ImportableStates /\ SourceMatches(catalog[u.key].localizations, u)
        /\ \A u, v \in Accepted : u.key = v.key =>
            (u.place = v.place => u = v) /\ u.place \notin Above(v.place)

(* What has been done to a place so far: nothing, a unit of the document,  *)
(* or only empty new units have gone and new ones come.                    *)
Kept(k, l, p, before, after) ==
    \/ after = before
    \/ l = xml.locale /\ \E u \in Accepted : u.key = k /\ u.place = p
    \/ before \subseteq {New(Blank)} /\ \A u \in after : u.state = "new"

WorkOK ==
    job.pc = "importing" =>
        /\ \A u \in Accepted \ job.todo : UnitAt(job.work[u.key], xml.locale, u.place) = {Placed(u)}
        /\ \A k \in Keys, l \in Locales, p \in Place :
                Kept(k, l, p, UnitAt(catalog[k].localizations, l, p), UnitAt(job.work[k], l, p))

TypeInv == TypeOK /\ \A k \in Keys : IsEntry(catalog[k])
IInv == TypeInv /\ DocumentsOK /\ PlanOK /\ WorkOK

LEMMA EntryFacts ==
    /\ \A e \in Entries : IsEntry(e)
    /\ \A e, locs : IsEntry(e) /\ AreLocalizations(locs) =>
            /\ IsEntry([e EXCEPT !.localizations = locs])
            /\ [e EXCEPT !.localizations = locs].localizations = locs
BY ExchangeDataAssumption DEF IsEntry

LEMMA LoweredTyped ==
    ASSUME TypeInv, NEW k \in Keys
    PROVE  AreLocalizations(Lowered(k)) /\ AreLocalizations(Effective(k))
<1> DEFINE locs == catalog[k].localizations
           loc(l) == [p \in DOMAIN locs[l] |->
                        IF /\ l # SourceLanguage /\ catalog[k].shouldTranslate
                           /\ ~Current(k) /\ Ready(locs[l][p])
                        THEN [locs[l][p] EXCEPT !.state = "needs_review"] ELSE locs[l][p]]
<1>1. AreLocalizations(locs)
  BY DEF TypeInv, TypeOK
<1>2. Lowered(k) = [l \in DOMAIN locs |-> loc(l)]
  BY DEF Lowered
<1>3. \A v \in Unit : [v EXCEPT !.state = "needs_review"] \in Unit
  BY DEF Unit, States
<1>4. ASSUME NEW l \in DOMAIN locs PROVE IsLocalization(loc(l))
  <2>1. IsLocalization(locs[l])
    BY <1>1 DEF AreLocalizations
  <2> HIDE DEF locs
  <2>2. \A p \in DOMAIN locs[l] : locs[l][p] \in Unit
    BY <2>1, UnitFacts
  <2> QED BY <1>3, <2>1, <2>2 DEF IsLocalization
<1> QED
  <2> HIDE DEF loc
  <2>1. AreLocalizations(Lowered(k))
    BY <1>1, <1>2, <1>4 DEF AreLocalizations
  <2> QED BY <1>1, <2>1 DEF Effective

(* Lowering states leaves the source as it is.                             *)
LEMMA VersionSource ==
    ASSUME TypeInv, NEW k \in Keys, NEW p
    PROVE  /\ XliffSource(SourceAsOf(VersionOf(k)), p) = XliffSource(catalog[k].localizations, p)
           /\ XliffSource(Effective(k), p) = XliffSource(catalog[k].localizations, p)
<1> DEFINE locs == catalog[k].localizations
           then == SourceAsOf(VersionOf(k))
<1>1. VersionOf(k).texts = [q \in DOMAIN Source(locs) |-> Source(locs)[q].text]
      /\ VersionOf(k).authored = (SourceLanguage \in DOMAIN locs)
  BY DEF VersionOf
<1>2. /\ DOMAIN then = {m \in {SourceLanguage} : SourceLanguage \in DOMAIN locs}
      /\ \A l \in DOMAIN then : then[l] = [q \in DOMAIN Source(locs) |-> New(Source(locs)[q].text)]
  <2> HIDE DEF locs
  <2> QED BY <1>1 DEF SourceAsOf
<1>3. /\ DOMAIN Source(then) = DOMAIN Source(locs)
      /\ \A q \in DOMAIN Source(then) : Source(then)[q].text = Source(locs)[q].text
  <2> HIDE DEF then, locs
  <2>1. CASE SourceLanguage \in DOMAIN locs
    <3>1. Source(then) = [q \in DOMAIN Source(locs) |-> New(Source(locs)[q].text)]
      BY <1>2, <2>1 DEF Source
    <3> QED BY <3>1 DEF New
  <2>2. CASE SourceLanguage \notin DOMAIN locs
    BY <1>2, <2>2 DEF Source, NoLocalization
  <2> QED BY <2>1, <2>2
<1>4. /\ DOMAIN Source(Effective(k)) = DOMAIN Source(locs)
      /\ \A q \in DOMAIN Source(locs) : Source(Effective(k))[q].text = Source(locs)[q].text
  BY DEF Effective, Lowered, Source, NoLocalization
<1> QED
  <2> HIDE DEF then, locs
  <2>1. XliffSource(then, p) = XliffSource(locs, p)
    BY <1>3, SameSource
  <2>2. XliffSource(Effective(k), p) = XliffSource(locs, p)
    BY <1>4, SameSource
  <2> QED BY <2>1, <2>2 DEF then, locs

-----------------------------------------------------------------------------
(* What an export makes of a catalog.                                      *)

LEMMA UnitTyped ==
    ASSUME NEW locs, AreLocalizations(locs), NEW k \in Keys, NEW l \in Languages,
           NEW p \in ExportPlaces(locs, l)
    PROVE  ExportUnit(k, locs, l, p) \in XliffUnit(Keys)
<1> DEFINE present == l \in DOMAIN locs /\ p \in DOMAIN locs[l]
<1>1. IsLocalization(ExportShape(locs, l))
  <2>1. IsLocalization([q \in {RootPlace} |-> New(KeyText)])
    BY TextsAssumption DEF IsLocalization, RootPlace, Place, New, Unit, States
  <2> QED BY <2>1 DEF ExportShape, AreLocalizations
<1>2. p \in Place
  <2>1. Categories(l) \in SUBSET Plurals
    BY LocalesAssumption DEF Locales
  <2>2. IsLocalization(RequiredShape(ExportShape(locs, l), Categories(l), FALSE))
    BY <1>1, <2>1, ShapeTyped
  <2> QED BY <2>2 DEF ExportPlaces, IsLocalization
<1>3. XliffSource(locs, p) \in Texts \cup {Identifier, NoText}
  BY BasisTyped, XliffSourceTyped, TextsAssumption
<1>4. ASSUME present
      PROVE  /\ Shown(locs[l], p, locs[l][p].text) \in Texts
             /\ ExportState(locs[l][p].state) \in TargetStates
  <2>1. locs[l][p] \in Unit /\ locs[l][p].text \in Texts
    BY <1>4, UnitFacts DEF AreLocalizations
  <2>2. InSubstitution(p) \in BOOLEAN
    BY DEF InSubstitution
  <2>3. Shown(locs[l], p, locs[l][p].text) \in Texts
    BY <2>1, <2>2, ExchangeAssumption DEF Shown
  <2>4. locs[l][p].state \in States
    BY <2>1 DEF Unit
  <2> QED BY <2>3, <2>4 DEF ExportState, States, TargetStates, ImportableStates
<1>5. "none" \in TargetStates
  BY DEF TargetStates, ImportableStates
<1> QED BY <1>2, <1>3, <1>4, <1>5 DEF ExportUnit, XliffUnit

LEMMA PreparedFacts ==
    ASSUME TypeInv, NEW l \in Languages, NEW b
    PROVE  IsDocument(Prepared(l, b)) /\ FromSources(Prepared(l, b))
<1> DEFINE us == Exported(l, b)
           d == Prepared(l, b)
<1>1. /\ d.locale = l /\ d.units = us /\ d.captured = [k \in {u.key : u \in us} |-> VersionOf(k)]
      /\ d = Document(d.locale, d.units, d.captured)
  BY DEF Prepared, Document, Captured
<1>2. ASSUME NEW u \in us
      PROVE  \E k \in Keys : \E p \in ExportPlaces(Effective(k), l) :
                u = ExportUnit(k, Effective(k), l, p)
  <2>1. PICK k \in Keys : u \in ExportUnits(k, Effective(k), l, b)
    BY DEF Exported
  <2> QED BY <2>1 DEF ExportUnits, UnitPlaces
<1>3. ASSUME NEW u \in us
      PROVE  /\ u \in XliffUnit(Keys) /\ u.key \in Keys
             /\ u.source = XliffSource(SourceAsOf(VersionOf(u.key)), u.place)
  <2>1. PICK k \in Keys : \E p \in ExportPlaces(Effective(k), l) :
                u = ExportUnit(k, Effective(k), l, p)
    BY <1>2
  <2>2. PICK p \in ExportPlaces(Effective(k), l) : u = ExportUnit(k, Effective(k), l, p)
    BY <2>1
  <2>3. AreLocalizations(Effective(k))
    BY LoweredTyped
  <2>4. u \in XliffUnit(Keys)
    BY <2>2, <2>3, UnitTyped
  <2>5. u.key = k /\ u.place = p /\ u.source = XliffSource(Effective(k), p)
    BY <2>2 DEF ExportUnit
  <2> QED BY <2>4, <2>5, VersionSource
<1> HIDE DEF us, d
<1>4. IsDocument(d)
  BY <1>1, <1>3 DEF IsDocument
<1>5. FromSources(d)
  BY <1>1, <1>3 DEF FromSources
<1> QED BY <1>4, <1>5 DEF d

-----------------------------------------------------------------------------
(* The steps.                                                              *)

LEMMA InitInv == Init => IInv
<1> SUFFICES ASSUME Init PROVE IInv
  OBVIOUS
<1>1. DOMAIN catalog = Keys /\ \A k \in Keys : catalog[k] \in Entries
  BY DEF Init
<1>2. \A k \in Keys : IsEntry(catalog[k])
  BY <1>1, EntryFacts
<1>3. job.pc = "idle" /\ xml = None /\ versions = None
  BY DEF Init, Idle
<1>4. TypeOK
  <2>1. exports \in 0 .. MaxExports /\ edits \in 0 .. MaxEdits /\ answers \in 0 .. MaxAnswers
    BY ExchangeDataAssumption DEF Init
  <2>2. contexts \in [Keys -> Contexts] /\ (baseline # None => DOMAIN baseline = Keys)
    BY DEF Init, Versions
  <2> QED BY <1>1, <1>2, <1>3, <2>1, <2>2 DEF TypeOK, IsEntry
<1> QED BY <1>2, <1>3, <1>4 DEF IInv, TypeInv, DocumentsOK, PlanOK, WorkOK

(* Between imports the catalog and the sidecar may be anything of their    *)
(* types.                                                                  *)
LEMMA EditInv ==
    ASSUME IInv, Edit, DOMAIN catalog' = Keys, \A k \in Keys : IsEntry(catalog'[k]),
           contexts' \in [Keys -> Contexts], baseline' # None => DOMAIN baseline' = Keys
    PROVE  IInv'
<1>1. /\ job.pc # "importing" /\ UNCHANGED <<xml, versions, job, exports, answers>>
      /\ edits' \in 0 .. MaxEdits
  BY ExchangeDataAssumption DEF Edit, IInv, TypeInv, TypeOK
<1>2. TypeOK'
  BY <1>1 DEF IInv, TypeInv, TypeOK, IsEntry
<1>3. DocumentsOK'
  BY <1>1 DEF IInv, DocumentsOK
<1> QED BY <1>1, <1>2, <1>3 DEF IInv, TypeInv, PlanOK, WorkOK

LEMMA EditsInv ==
    ASSUME IInv
    PROVE  /\ \A k \in Keys, e \in Entries : DeveloperEdit(k, e) => IInv'
           /\ \A k \in Keys, s \in Sources : SourceEdit(k, s) => IInv'
           /\ \A k \in Keys, c \in Contexts : UpdateContext(k, c) => IInv'
           /\ \A adopt \in BOOLEAN : Synchronize(adopt) => IInv'
<1>1. /\ DOMAIN catalog = Keys /\ \A k \in Keys : IsEntry(catalog[k])
      /\ \A k \in Keys : AreLocalizations(catalog[k].localizations)
      /\ contexts \in [Keys -> Contexts] /\ (baseline # None => DOMAIN baseline = Keys)
  BY DEF IInv, TypeInv, TypeOK
<1>2. ASSUME NEW k \in Keys, NEW e \in Entries, DeveloperEdit(k, e) PROVE IInv'
  <2>1. Edit /\ catalog' = [catalog EXCEPT ![k] = e] /\ UNCHANGED <<contexts, baseline>>
    BY <1>2 DEF DeveloperEdit
  <2>2. DOMAIN catalog' = Keys /\ \A j \in Keys : IsEntry(catalog'[j])
    BY <1>1, <2>1, EntryFacts
  <2> QED BY <1>1, <2>1, <2>2, EditInv
<1>3. ASSUME NEW k \in Keys, NEW s \in Sources, SourceEdit(k, s) PROVE IInv'
  <2> DEFINE locs == catalog[k].localizations
             made == [l \in DOMAIN locs \cup {SourceLanguage} |->
                        IF l = SourceLanguage THEN s ELSE locs[l]]
  <2>1. /\ Edit /\ UNCHANGED <<contexts, baseline>>
        /\ catalog' = [catalog EXCEPT ![k] = [catalog[k] EXCEPT !.localizations = made]]
    BY <1>1, <1>3 DEF SourceEdit, IsEntry
  <2>2. AreLocalizations(made)
    BY <1>1, ExchangeDataAssumption DEF AreLocalizations, Locales
  <2>3. IsEntry([catalog[k] EXCEPT !.localizations = made])
    <3> HIDE DEF made
    <3> QED BY <1>1, <2>2, EntryFacts
  <2>4. DOMAIN catalog' = Keys /\ \A j \in Keys : IsEntry(catalog'[j])
    <3> HIDE DEF made
    <3> QED BY <1>1, <2>1, <2>3
  <2> QED BY <1>1, <2>1, <2>4, EditInv
<1>4. ASSUME NEW k \in Keys, NEW c \in Contexts, UpdateContext(k, c) PROVE IInv'
  <2>1. Edit /\ contexts' = [contexts EXCEPT ![k] = c] /\ UNCHANGED <<catalog, baseline>>
    BY <1>4 DEF UpdateContext
  <2>2. contexts' \in [Keys -> Contexts]
    BY <1>1, <2>1
  <2> QED BY <1>1, <2>1, <2>2, EditInv
<1>5. ASSUME NEW adopt \in BOOLEAN, Synchronize(adopt) PROVE IInv'
  <2> DEFINE locs(k) == IF adopt THEN catalog[k].localizations ELSE Lowered(k)
  <2>1. /\ Edit /\ UNCHANGED contexts /\ baseline' = Versions
        /\ catalog' = [k \in Keys |-> [catalog[k] EXCEPT !.localizations = locs(k)]]
    BY <1>1, <1>5 DEF Synchronize, IsEntry
  <2>2. \A k \in Keys : AreLocalizations(locs(k))
    BY <1>1, LoweredTyped DEF IInv
  <2>3. DOMAIN catalog' = Keys /\ \A k \in Keys : IsEntry(catalog'[k])
    <3> HIDE DEF locs
    <3> QED BY <1>1, <2>1, <2>2, EntryFacts
  <2>4. DOMAIN baseline' = Keys
    BY <2>1 DEF Versions
  <2> QED BY <1>1, <2>1, <2>3, <2>4, EditInv
<1> QED BY <1>2, <1>3, <1>4, <1>5

(* A step that leaves the catalog alone and does not begin an import.      *)
LEMMA FilesInv ==
    ASSUME IInv, UNCHANGED files, job'.pc \in {"idle", "exporting"},
           xml' # None => IsDocument(xml') /\ FromSources(xml'),
           versions' # None => DOMAIN versions' \subseteq Keys,
           job'.pc = "exporting" => IsDocument(job'.document) /\ FromSources(job'.document),
           exports' \in 0 .. MaxExports, answers' \in 0 .. MaxAnswers, UNCHANGED edits
    PROVE  IInv'
<1>1. UNCHANGED <<catalog, contexts, baseline>> /\ job'.pc # "importing"
  BY DEF files
<1>2. TypeOK'
  BY <1>1 DEF IInv, TypeInv, TypeOK
<1>3. DocumentsOK'
  BY <1>1 DEF DocumentsOK
<1> QED BY <1>1, <1>2, <1>3 DEF IInv, TypeInv, PlanOK, WorkOK

LEMMA ExportInv ==
    ASSUME IInv
    PROVE  /\ \A l \in Languages, b \in BOOLEAN :
                (ExportVersions(l, b) => IInv') /\ (ExportTool(l, b) => IInv')
           /\ WriteXml => IInv'
           /\ XmlNotWritten => IInv'
           /\ Decline => IInv'
<1>1. /\ xml # None => IsDocument(xml) /\ FromSources(xml)
      /\ versions # None => DOMAIN versions \subseteq Keys
      /\ job.pc = "exporting" => IsDocument(job.document) /\ FromSources(job.document)
      /\ exports \in 0 .. MaxExports /\ answers \in 0 .. MaxAnswers /\ 0 \in 0 .. MaxAnswers
      /\ exports < MaxExports => exports + 1 \in 0 .. MaxExports
  BY ExchangeDataAssumption DEF IInv, TypeInv, TypeOK, DocumentsOK
<1>2. ASSUME NEW l \in Languages, NEW b \in BOOLEAN
      PROVE  /\ IsDocument(Prepared(l, b)) /\ FromSources(Prepared(l, b))
             /\ DOMAIN Prepared(l, b).captured \subseteq Keys
  <2>1. IsDocument(Prepared(l, b)) /\ FromSources(Prepared(l, b))
    BY PreparedFacts DEF IInv
  <2> QED BY <2>1 DEF IsDocument
<1>3. ASSUME NEW l \in Languages, NEW b \in BOOLEAN, ExportVersions(l, b) PROVE IInv'
  <2>1. /\ versions' = Prepared(l, b).captured /\ exports' = exports + 1 /\ exports < MaxExports
        /\ job'.pc = "exporting" /\ job'.document = Prepared(l, b)
        /\ UNCHANGED <<files, xml, edits, answers>>
    BY <1>3 DEF ExportVersions, Exportable
  <2> QED BY <1>1, <1>2, <2>1, FilesInv
<1>4. ASSUME NEW l \in Languages, NEW b \in BOOLEAN, ExportTool(l, b) PROVE IInv'
  <2>1. /\ xml' = Prepared(l, b) /\ versions' = Prepared(l, b).captured /\ answers' = 0
        /\ exports' = exports + 1 /\ exports < MaxExports /\ job'.pc = "idle"
        /\ UNCHANGED <<files, edits>>
    BY <1>4 DEF ExportTool, Exportable, Idle
  <2> QED BY <1>1, <1>2, <2>1, FilesInv
<1>5. ASSUME WriteXml PROVE IInv'
  <2>1. /\ xml' = job.document /\ job.pc = "exporting" /\ answers' = 0 /\ job'.pc = "idle"
        /\ UNCHANGED <<files, versions, exports, edits>>
    BY <1>5 DEF WriteXml, Idle
  <2> QED BY <1>1, <2>1, FilesInv
<1>6. ASSUME XmlNotWritten \/ Decline PROVE IInv'
  <2>1. job'.pc = "idle" /\ UNCHANGED <<files, xml, versions, exports, edits, answers>>
    BY <1>6 DEF XmlNotWritten, Decline, Idle, counts
  <2> QED BY <1>1, <2>1, FilesInv
<1> QED BY <1>3, <1>4, <1>5, <1>6

LEMMA TranslateInv ==
    ASSUME IInv, xml # None, NEW u \in xml.units, NEW v \in Answered(u), Translate(u, v)
    PROVE  IInv'
<1>1. /\ xml = Document(xml.locale, xml.units, xml.captured) /\ xml.locale \in Languages
      /\ xml.units \subseteq XliffUnit(Keys) /\ FromSources(xml)
      /\ {w.key : w \in xml.units} \subseteq DOMAIN xml.captured /\ DOMAIN xml.captured \subseteq Keys
  BY DEF IInv, TypeInv, TypeOK, IsDocument, DocumentsOK
<1>2. PICK us : us \subseteq xml.units \cup {v} /\ xml' = [xml EXCEPT !.units = us]
  BY DEF Translate
<1>3. /\ xml'.locale = xml.locale /\ xml'.units = us /\ xml'.captured = xml.captured
      /\ xml' = Document(xml'.locale, xml'.units, xml'.captured)
  BY <1>1, <1>2 DEF Document
<1>4. /\ v \in XliffUnit(Keys) /\ v.key = u.key /\ v.place = u.place
      /\ v.source = u.source \/ v.source = NoText
  <2>1. u \in XliffUnit(Keys)
    BY <1>1
  <2>2. CASE \E a \in Answers : v = [u EXCEPT !.target = a.target, !.state = a.state]
    <3>1. PICK a \in Answers : v = [u EXCEPT !.target = a.target, !.state = a.state]
      BY <2>2
    <3>2. a.target \in Texts \cup {NoText} /\ a.state \in TargetStates
      BY ExchangeDataAssumption
    <3> QED BY <2>1, <3>1, <3>2 DEF XliffUnit
  <2>3. CASE v = [u EXCEPT !.source = NoText]
    BY <2>1, <2>3 DEF XliffUnit
  <2> QED BY <2>2, <2>3 DEF Answered
<1>5. IsDocument(xml')
  BY <1>1, <1>2, <1>3, <1>4 DEF IsDocument
<1>6. FromSources(xml')
  BY <1>1, <1>2, <1>3, <1>4 DEF FromSources
<1>7. /\ job.pc # "importing" /\ answers' \in 0 .. MaxAnswers
      /\ UNCHANGED <<files, versions, job, exports, edits>>
  BY ExchangeDataAssumption DEF Translate, IInv, TypeInv, TypeOK
<1>8. /\ job'.pc \in {"idle", "exporting"} /\ exports' \in 0 .. MaxExports
      /\ versions' # None => DOMAIN versions' \subseteq Keys
      /\ job'.pc = "exporting" => IsDocument(job'.document) /\ FromSources(job'.document)
  BY <1>7 DEF IInv, TypeInv, TypeOK, DocumentsOK
<1> QED BY <1>5, <1>6, <1>7, <1>8, FilesInv

(* A unit that is to be imported.                                          *)
LEMMA AcceptedFacts ==
    ASSUME IInv, xml # None, NEW u \in Accepted
    PROVE  /\ u \in XliffUnit(Keys) /\ u.key \in Keys /\ u.place \in Place /\ u.target # NoText
           /\ u \in xml.units /\ xml.locale \in Languages
<1>1. xml.units \subseteq XliffUnit(Keys) /\ xml.locale \in Languages
  BY DEF IInv, TypeInv, TypeOK, IsDocument
<1>2. u \in xml.units /\ u.target # NoText
  BY DEF Accepted, WithTargets
<1> QED BY <1>1, <1>2 DEF XliffUnit

LEMMA BeginInv ==
    ASSUME IInv, BeginImport
    PROVE  IInv'
<1>1. /\ xml # None /\ versions # None /\ UNCHANGED <<files, xml, versions, counts>>
      /\ job'.pc = "importing" /\ job'.todo = Accepted
      /\ job'.work = [k \in Keys |-> catalog[k].localizations]
      /\ \A k \in Keys : Plannable(catalog[k].localizations, xml.locale, UnitsOf(xml.units, k))
  BY DEF BeginImport, Accepted
<1>2. UNCHANGED <<catalog, contexts, baseline, exports, edits, answers>>
  BY <1>1 DEF files, counts
<1>3. TypeOK'
  BY <1>1, <1>2 DEF IInv, TypeInv, TypeOK, Accepted
<1>4. DocumentsOK'
  BY <1>1 DEF IInv, DocumentsOK
<1>5. ASSUME NEW u \in Accepted
      PROVE  u.state \in ImportableStates /\ SourceMatches(catalog[u.key].localizations, u)
  <2>1. u \in UnitsOf(xml.units, u.key) /\ u.key \in Keys /\ u.target # NoText
    BY <1>1, AcceptedFacts DEF UnitsOf
  <2>2. UnitHolds(catalog[u.key].localizations, xml.locale, u)
    BY <1>1, <2>1 DEF Plannable
  <2> QED BY <2>1, <2>2 DEF UnitHolds
<1>6. ASSUME NEW u \in Accepted, NEW v \in Accepted, u.key = v.key
      PROVE  (u.place = v.place => u = v) /\ u.place \notin Above(v.place)
  <2>1. /\ u \in UnitsOf(xml.units, u.key) /\ v \in UnitsOf(xml.units, u.key) /\ u.key \in Keys
        /\ u.target # NoText /\ v.target # NoText
    BY <1>1, <1>6, AcceptedFacts DEF UnitsOf
  <2>2. /\ OneUnitPerPlace(UnitsOf(xml.units, u.key))
        /\ PlacesApart(WithTargets(UnitsOf(xml.units, u.key)))
    BY <1>1, <2>1 DEF Plannable
  <2> QED BY <1>6, <2>1, <2>2 DEF OneUnitPerPlace, PlacesApart, WithTargets
<1>7. PlanOK'
  BY <1>1, <1>2, <1>5, <1>6 DEF PlanOK, Accepted
<1>8. WorkOK'
  <2>1. (Accepted \ job.todo)' = {}
    BY <1>1 DEF Accepted
  <2>2. \A k \in Keys : job'.work[k] = catalog'[k].localizations
    BY <1>1, <1>2
  <2> QED BY <2>1, <2>2 DEF WorkOK, Kept
<1> QED BY <1>2, <1>3, <1>4, <1>7, <1>8 DEF IInv, TypeInv

LEMMA ApplyInv ==
    ASSUME IInv, xml # None, NEW u \in Accepted, Apply(u)
    PROVE  IInv'
<1> DEFINE made == WithImported(job.work[u.key], xml.locale, u)
<1>1. /\ job.pc = "importing" /\ u \in job.todo /\ CanImport(job.work[u.key], xml.locale, u)
      /\ job' = [pc |-> "importing", todo |-> job.todo \ {u},
                 work |-> [job.work EXCEPT ![u.key] = made]]
      /\ UNCHANGED <<catalog, contexts, baseline, xml, versions, exports, edits, answers>>
  BY DEF Apply, files, counts
<1>2. /\ u \in XliffUnit(Keys) /\ u.key \in Keys /\ u.place \in Place /\ u.target # NoText
      /\ xml.locale \in Languages
  BY AcceptedFacts
<1>3. /\ versions # None /\ job.todo \subseteq Accepted /\ DOMAIN job.work = Keys
      /\ \A k \in Keys : AreLocalizations(job.work[k])
  BY <1>1 DEF IInv, TypeInv, TypeOK
<1>4. u.state \in ImportableStates
  BY <1>1 DEF IInv, PlanOK
<1>5. AreLocalizations(made)
  BY <1>2, <1>3, <1>4, ImportTyped
<1>6. /\ job'.pc = "importing" /\ job'.todo = job.todo \ {u} /\ DOMAIN job'.work = Keys
      /\ job'.work[u.key] = made /\ \A k \in Keys \ {u.key} : job'.work[k] = job.work[k]
  <2> HIDE DEF made
  <2> QED BY <1>1, <1>2, <1>3
<1> HIDE DEF made
<1>7. TypeOK'
  <2>1. \A k \in Keys : AreLocalizations(job'.work[k])
    BY <1>3, <1>5, <1>6
  <2> QED BY <1>1, <1>3, <1>6, <2>1 DEF IInv, TypeInv, TypeOK, Accepted
<1>8. DocumentsOK' /\ PlanOK'
  BY <1>1, <1>6 DEF IInv, DocumentsOK, PlanOK, Accepted
<1>9. /\ UnitAt(made, xml.locale, u.place) = {Placed(u)}
      /\ \A l, p : l # xml.locale \/ p # u.place =>
            LET before == UnitAt(job.work[u.key], l, p)
                after == UnitAt(made, l, p)
            IN  \/ after = before
                \/ l = xml.locale /\ p \in Above(u.place) /\ before = {New(Blank)} /\ after = {}
                \/ before = {} /\ \A v \in after : v.state = "new"
  <2>1. AreLocalizations(job.work[u.key])
    BY <1>2, <1>3
  <2> QED BY <1>1, <1>2, <2>1, ImportTouches DEF made
<1>10. ASSUME NEW v \in Accepted, v \notin job'.todo
       PROVE  UnitAt(job'.work[v.key], xml.locale, v.place) = {Placed(v)}
  <2>1. CASE v = u
    BY <1>6, <1>9, <2>1
  <2>2. CASE v # u
    <3>1. v \notin job.todo /\ v.key \in Keys
      BY <1>6, <1>10, <2>2, AcceptedFacts
    <3>2. UnitAt(job.work[v.key], xml.locale, v.place) = {Placed(v)}
      BY <1>1, <3>1 DEF IInv, WorkOK
    <3>3. CASE v.key = u.key
      <4>1. v.place # u.place /\ v.place \notin Above(u.place)
        BY <1>1, <2>2, <3>3 DEF IInv, PlanOK
      <4> QED BY <1>6, <1>9, <3>2, <3>3, <4>1
    <3>4. CASE v.key # u.key
      BY <1>6, <3>1, <3>2, <3>4
    <3> QED BY <3>3, <3>4
  <2> QED BY <2>1, <2>2
<1>11. ASSUME NEW k \in Keys, NEW l \in Locales, NEW p \in Place
       PROVE  Kept(k, l, p, UnitAt(catalog[k].localizations, l, p), UnitAt(job'.work[k], l, p))
  <2> DEFINE before == UnitAt(catalog[k].localizations, l, p)
             middle == UnitAt(job.work[k], l, p)
             after == UnitAt(job'.work[k], l, p)
  <2> SUFFICES Kept(k, l, p, before, after)
    OBVIOUS
  <2>1. Kept(k, l, p, before, middle)
    BY <1>1 DEF IInv, WorkOK
  <2>2. CASE k # u.key
    BY <1>6, <2>1, <2>2
  <2>3. CASE k = u.key /\ l = xml.locale /\ p = u.place
    BY <2>3 DEF Kept
  <2>4. CASE k = u.key /\ (l # xml.locale \/ p # u.place)
    <3>1. \/ after = middle
          \/ middle = {New(Blank)} /\ after = {}
          \/ middle = {} /\ \A v \in after : v.state = "new"
      BY <1>6, <1>9, <2>4
    <3> HIDE DEF before, middle, after
    <3> QED BY <2>1, <3>1 DEF Kept
  <2> QED BY <2>2, <2>3, <2>4
<1>12. WorkOK'
  <2>1. /\ xml' = xml /\ catalog' = catalog /\ Accepted' = Accepted
        /\ \A k, l, p, before, after :
            Kept(k, l, p, before, after)' <=> Kept(k, l, p, before, after)
    BY <1>1 DEF Accepted, Kept
  <2> QED BY <1>10, <1>11, <2>1 DEF WorkOK
<1> QED BY <1>1, <1>7, <1>8, <1>12 DEF IInv, TypeInv

LEMMA CommitFacts ==
    ASSUME IInv, Commit
    PROVE  /\ xml # None /\ UNCHANGED <<contexts, baseline, xml, versions, exports, edits, answers>>
           /\ job.pc = "importing" /\ job.todo = {} /\ job'.pc = "idle" /\ VersionsMatch
           /\ DOMAIN catalog' = Keys
           /\ \A k \in Keys :
                IsEntry(catalog'[k]) /\ catalog'[k].localizations = job.work[k]
<1>1. /\ job.pc = "importing" /\ job.todo = {} /\ job'.pc = "idle" /\ VersionsMatch
      /\ catalog' = [k \in Keys |-> [catalog[k] EXCEPT !.localizations = job.work[k]]]
      /\ UNCHANGED <<contexts, baseline, xml, versions, exports, edits, answers>>
  BY DEF Commit, Idle, counts
<1>2. xml # None /\ \A k \in Keys : AreLocalizations(job.work[k]) /\ IsEntry(catalog[k])
  BY <1>1 DEF IInv, TypeInv, TypeOK
<1> QED BY <1>1, <1>2, EntryFacts

LEMMA CommitInv ==
    ASSUME IInv, Commit
    PROVE  IInv'
<1>1. /\ UNCHANGED <<contexts, baseline, xml, versions, exports, edits, answers>>
      /\ job'.pc = "idle" /\ DOMAIN catalog' = Keys /\ \A k \in Keys : IsEntry(catalog'[k])
  BY CommitFacts
<1>2. TypeOK'
  BY <1>1 DEF IInv, TypeInv, TypeOK, IsEntry
<1>3. DocumentsOK'
  BY <1>1 DEF IInv, DocumentsOK
<1> QED BY <1>1, <1>2, <1>3 DEF IInv, TypeInv, PlanOK, WorkOK

(* The invariant is inductive.                                             *)
THEOREM Invariance == Spec => []IInv
<1>1. IInv /\ [Next]_vars => IInv'
  <2> SUFFICES ASSUME IInv, [Next]_vars PROVE IInv'
    OBVIOUS
  <2>1. CASE UNCHANGED vars
    <3>1. UNCHANGED <<catalog, contexts, baseline, xml, versions, job, exports, edits, answers>>
      BY <2>1 DEF vars, files, counts
    <3>2. TypeInv'
      BY <3>1 DEF IInv, TypeInv, TypeOK, Accepted
    <3> QED BY <3>1, <3>2 DEF IInv, DocumentsOK, PlanOK, WorkOK, Kept, Accepted
  <2>2. ASSUME NEW l \in Languages, NEW b \in BOOLEAN, ExportVersions(l, b) \/ ExportTool(l, b)
        PROVE  IInv'
    BY <2>2, ExportInv
  <2>3. CASE WriteXml \/ XmlNotWritten
    BY <2>3, ExportInv
  <2>4. ASSUME xml # None, NEW u \in xml.units, NEW v \in Answered(u), Translate(u, v)
        PROVE  IInv'
    BY <2>4, TranslateInv
  <2>5. CASE xml # None /\ ImportStep
    <3>1. CASE BeginImport
      BY <3>1, BeginInv
    <3>2. ASSUME NEW u \in Accepted, Apply(u) PROVE IInv'
      BY <2>5, <3>2, ApplyInv
    <3>3. CASE Commit
      BY <3>3, CommitInv
    <3>4. CASE Decline
      BY <3>4, ExportInv
    <3> QED BY <2>5, <3>1, <3>2, <3>3, <3>4 DEF ImportStep
  <2>6. CASE \/ \E k \in Keys, entry \in Entries : DeveloperEdit(k, entry)
             \/ \E k \in Keys, source \in Sources : SourceEdit(k, source)
             \/ \E k \in Keys, c \in Contexts : UpdateContext(k, c)
             \/ \E adopt \in BOOLEAN : Synchronize(adopt)
    BY <2>6, EditsInv
  <2> QED BY <2>1, <2>2, <2>3, <2>4, <2>5, <2>6 DEF Next
<1> QED BY InitInv, <1>1, PTL DEF Spec

(* Every reachable state has its types: catalogs, documents and candidates *)
(* are made of well-formed localizations and units.                        *)
THEOREM TypeCorrect == Spec => []TypeOK
<1>1. IInv => TypeOK
  BY DEF IInv, TypeInv
<1> QED BY <1>1, Invariance, PTL

(* An import does what its document says, and nothing else.                *)
THEOREM ImportsAreExact == Spec => ImportIsExact
<1>1. IInv /\ [Next]_vars => [Commit => TargetsArrive]_vars
  <2> SUFFICES ASSUME IInv, Commit, NEW u \in Accepted
               PROVE  LET leaf == UnitAt(catalog'[u.key].localizations, xml.locale, u.place)
                      IN  /\ {v.text : v \in leaf} = {Value(u)}
                          /\ \A v \in leaf : Ready(v) <=> u.state \in {"none", "translated", "final"}
    BY DEF TargetsArrive
  <2>1. /\ job.pc = "importing" /\ job.todo = {} /\ u.key \in Keys
        /\ catalog'[u.key].localizations = job.work[u.key]
    BY CommitFacts, AcceptedFacts
  <2>2. u.state \in ImportableStates
    BY <2>1 DEF IInv, PlanOK
  <2>3. UnitAt(catalog'[u.key].localizations, xml.locale, u.place) = {Placed(u)}
    BY <2>1 DEF IInv, WorkOK
  <2>4. Ready(Placed(u)) <=> u.state \in {"none", "translated", "final"}
    BY <2>2 DEF Ready, Placed, ImportState, ImportableStates
  <2>5. Placed(u).text = Value(u)
    BY DEF Placed
  <2> QED BY <2>3, <2>4, <2>5
<1>2. IInv /\ [Next]_vars =>
        [Commit => \A k \in Keys, l \in Locales, p \in Place : OthersStay(k, l, p)]_vars
  <2> SUFFICES ASSUME IInv, Commit, NEW k \in Keys, NEW l \in Locales, NEW p \in Place
               PROVE  OthersStay(k, l, p)
    OBVIOUS
  <2>1. job.pc = "importing" /\ catalog'[k].localizations = job.work[k]
    BY CommitFacts
  <2>2. Kept(k, l, p, UnitAt(catalog[k].localizations, l, p), UnitAt(job.work[k], l, p))
    BY <2>1 DEF IInv, WorkOK
  <2> QED BY <2>1, <2>2 DEF Kept, OthersStay
<1> QED
  BY <1>1, <1>2, Invariance, PTL DEF Spec, ImportIsExact, ImportIsWhole, OnlyImportedChanges

(* What is imported was translated from the source text there is.          *)
THEOREM SourceIsTheOneTranslated == Spec => TranslatedFromThisSource
<1>1. IInv /\ [Next]_vars =>
        [Commit => \A u \in Accepted :
            (u.source # NoText /\ ~InSubstitution(u.place)) \/ versions = xml.captured =>
                SameText(SourceThen(u), XliffSource(catalog[u.key].localizations, u.place))]_vars
  <2> SUFFICES ASSUME IInv, Commit, NEW u \in Accepted,
                      (u.source # NoText /\ ~InSubstitution(u.place)) \/ versions = xml.captured
               PROVE  SameText(SourceThen(u), XliffSource(catalog[u.key].localizations, u.place))
    OBVIOUS
  <2>1. /\ job.pc = "importing" /\ xml # None /\ VersionsMatch
        /\ u \in XliffUnit(Keys) /\ u.key \in Keys /\ u \in xml.units
    BY CommitFacts, AcceptedFacts
  <2>2. SourceThen(u) = XliffSource(SourceAsOf(xml.captured[u.key]), u.place)
    BY DEF SourceThen, SourceAsOf
  <2>3. CASE versions = xml.captured
    <3>1. xml.captured[u.key] = VersionOf(u.key)
      BY <2>1, <2>3 DEF VersionsMatch
    <3>2. SourceThen(u) = XliffSource(catalog[u.key].localizations, u.place)
      BY <2>1, <2>2, <3>1, VersionSource DEF IInv
    <3> QED BY <3>2 DEF SameText
  <2>4. CASE u.source # NoText /\ ~InSubstitution(u.place)
    <3>1. u.source = SourceThen(u)
      BY <2>1, <2>2, <2>4 DEF IInv, DocumentsOK, FromSources
    <3>2. u.source \in Texts \cup {Identifier}
      BY <2>1, <2>4 DEF XliffUnit
    <3>3. SourceMatches(catalog[u.key].localizations, u)
      BY <2>1 DEF IInv, PlanOK
    <3> QED BY <2>4, <3>1, <3>2, <3>3, MatchingTexts
  <2> QED BY <2>3, <2>4
<1> QED BY <1>1, Invariance, PTL DEF Spec, TranslatedFromThisSource

-----------------------------------------------------------------------------
(* Diagnostics of the locale an import writes.                             *)

AllSupported(loc) == \A p \in DOMAIN loc : Supported(p)

(* What a unit is put into when the locale is missing.                     *)
LEMMA TemplateShape ==
    ASSUME NEW locs, AreLocalizations(locs), NEW l \in Languages, NEW u, CanImport(locs, l, u)
    PROVE  LET template == TemplateOf(locs, l, u)
           IN  /\ Unmixed(template) /\ AllSupported(template)
               /\ RootPlace \in DOMAIN template => RootPlace \in DOMAIN Source(locs)
<1> DEFINE template == TemplateOf(locs, l, u)
           basis == SourceBasis(locs, Blank)
           shape == RequiredShape(basis, Categories(l), TRUE)
<1>1. CASE template = NoLocalization
  BY <1>1 DEF NoLocalization, Unmixed, AllSupported, Varied, HasPlural, HasDevice
<1>2. CASE template = InitialLocale(locs, l) /\ NeedsTemplate(u) /\ SourceLanguage \in DOMAIN locs
  <2>1. DOMAIN template = DOMAIN shape
    BY <1>2 DEF InitialLocale
  <2>2. basis = Source(locs) /\ Faults(basis) = {} /\ AllSupported(basis)
    BY <1>2 DEF CanImport, CanInitialize, SourceBasis, Source, AllSupported
  <2>3. DOMAIN basis \subseteq Place
    BY BasisTyped, TextsAssumption DEF IsLocalization
  <2>4. Categories(l) \in SUBSET Plurals
    BY LocalesAssumption DEF Locales
  <2>5. RootPlace \in DOMAIN shape => RootPlace \in DOMAIN basis
    <3> DEFINE categories == Categories(l)
               places == DOMAIN basis
    <3>1. Whole \notin categories
      BY <2>4, PlacesAssumption
    <3>2. RootPlace.plural = Whole
      BY DEF RootPlace
    <3>3. DOMAIN shape = ShapePlaces(places, categories, TRUE)
      BY ShapeDomain
    <3>4. places \in SUBSET Place /\ categories \in SUBSET Plurals /\ TRUE \in BOOLEAN
      BY <2>3, <2>4
    <3> HIDE DEF categories, places
    <3>5. RootPlace \in ShapePlaces(places, categories, TRUE) =>
            RootPlace \in places \/ RootPlace.plural \in categories
      BY <3>4, ShapeMember
    <3> QED BY <3>1, <3>2, <3>3, <3>5 DEF places, categories
  <2> HIDE DEF basis, template
  <2>6. Unmixed(shape) /\ AllSupported(shape)
    BY <2>2, <2>3, <2>4, ShapeUnmixed, FaultsMean DEF AllSupported
  <2> HIDE DEF shape
  <2>7. Unmixed(template) /\ AllSupported(template)
    BY <2>1, <2>6 DEF Unmixed, Varied, HasPlural, HasDevice, AllSupported
  <2> QED BY <2>1, <2>2, <2>5, <2>7 DEF template
<1> QED BY <1>1, <1>2 DEF TemplateOf

(* The places of the locale after a unit was imported.                     *)
LEMMA ImportedPlaces ==
    ASSUME NEW locs, AreLocalizations(locs), NEW l \in Languages,
           NEW u \in XliffUnit(Keys), CanImport(locs, l, u)
    PROVE  LET base == ImportBase(locs, l, u)
               after == WithImported(locs, l, u)[l]
           IN  /\ l \in DOMAIN WithImported(locs, l, u)
               /\ \A m \in DOMAIN locs \ {l} :
                    m \in DOMAIN WithImported(locs, l, u) /\ WithImported(locs, l, u)[m] = locs[m]
               /\ \A m \in DOMAIN WithImported(locs, l, u) : m = l \/ m \in DOMAIN locs
               /\ \A p : p \in DOMAIN after =>
                    \/ p = u.place
                    \/ p \in DOMAIN base /\ p \notin Above(u.place)
                    \/ p \in DOMAIN TemplateOf(locs, l, u) /\ InSubstitution(p)
                    \/ /\ p = RootPlace /\ p \in DOMAIN TemplateOf(locs, l, u)
                       /\ InSubstitution(u.place)
               /\ \A p : p = u.place \/ (p \in DOMAIN base /\ p \notin Above(u.place))
                    => p \in DOMAIN after
BY DEF WithImported, Imported, Brought

LEMMA ImportKeepsSupport ==
    ASSUME NEW locs, AreLocalizations(locs), NEW l \in Languages,
           NEW u \in XliffUnit(Keys), CanImport(locs, l, u), Supported(u.place),
           l \in DOMAIN locs => AllSupported(locs[l])
    PROVE  AllSupported(WithImported(locs, l, u)[l])
<1> DEFINE base == ImportBase(locs, l, u)
           after == WithImported(locs, l, u)[l]
           template == TemplateOf(locs, l, u)
<1>1. AllSupported(template)
  BY TemplateShape
<1>2. AllSupported(base)
  BY <1>1 DEF ImportBase
<1>3. \A p \in DOMAIN after : p = u.place \/ p \in DOMAIN base \/ p \in DOMAIN template
  BY ImportedPlaces
<1> HIDE DEF base, after, template
<1>4. AllSupported(after)
  BY <1>1, <1>2, <1>3 DEF AllSupported
<1> QED BY <1>4 DEF after

(* A varied root stays one: what makes room for a place are plain units.   *)
LEMMA ImportKeepsVaried ==
    ASSUME NEW locs, AreLocalizations(locs), NEW l \in Languages,
           NEW u \in XliffUnit(Keys), CanImport(locs, l, u),
           l \in DOMAIN locs, Varied(locs[l], Root)
    PROVE  Varied(WithImported(locs, l, u)[l], Root)
<1> DEFINE base == ImportBase(locs, l, u)
           after == WithImported(locs, l, u)[l]
<1>1. base = locs[l] /\ u.place \in Place
  BY DEF ImportBase, XliffUnit
<1>2. \A p : p = u.place \/ (p \in DOMAIN base /\ p \notin Above(u.place)) => p \in DOMAIN after
  BY ImportedPlaces
<1>3. \A p \in Above(u.place) :
        p.plural = Whole /\ (p.at \in Devices => p.at = u.place.at)
  BY PlacesAssumption DEF Above, RootPlace
<1> HIDE DEF base, after
<1>4. HasPlural(base, Root) => HasPlural(after, Root)
  BY <1>2, <1>3 DEF HasPlural
<1>5. HasDevice(base) => HasDevice(after)
  BY <1>2, <1>3 DEF HasDevice
<1>6. Varied(after, Root)
  BY <1>1, <1>4, <1>5 DEF Varied
<1> QED BY <1>6 DEF after

(* A unit that can be imported puts no unit beside variations and no two   *)
(* axes in one place, unless it brings a root unit under which there are   *)
(* variations.                                                             *)
LEMMA ImportUnmixed ==
    ASSUME NEW locs, AreLocalizations(locs), NEW l \in Languages,
           NEW u \in XliffUnit(Keys), CanImport(locs, l, u),
           l \in DOMAIN locs => Unmixed(locs[l])
    PROVE  LET after == WithImported(locs, l, u)[l]
           IN  \/ Unmixed(after)
               \/ /\ InSubstitution(u.place) /\ RootPlace \in DOMAIN Source(locs)
                  /\ Varied(after, Root)
<1> DEFINE base == ImportBase(locs, l, u)
           template == TemplateOf(locs, l, u)
           after == WithImported(locs, l, u)[l]
           p == u.place
           Plain(at) == [at |-> at, plural |-> Whole]
<1>1. /\ Unmixed(template) /\ RootPlace \in DOMAIN template => RootPlace \in DOMAIN Source(locs)
      /\ RootPlace \in DOMAIN template => RootPlace \in DOMAIN Source(locs)
  BY TemplateShape
<1>2. Unmixed(base)
  BY TemplateShape DEF ImportBase
<1>3. p \in Place
  BY DEF XliffUnit
<1>4. Reaches(base, p)
  BY DEF CanImport
<1>5. \A q : q \in DOMAIN after =>
            \/ q = p
            \/ q \in DOMAIN base /\ q \notin Above(p)
            \/ q \in DOMAIN template /\ InSubstitution(q)
            \/ q = RootPlace /\ q \in DOMAIN template /\ InSubstitution(p)
  BY ImportedPlaces
<1>6. RootPlace = Plain(Root) /\ \A at : Plain(at).at = at /\ Plain(at).plural = Whole
  BY DEF RootPlace
<1> HIDE DEF base, template, after, p
<1>7. \A at \in {Root} \cup Devices : at \notin Names
  BY PlacesAssumption
<1>8. CASE InSubstitution(p)
  <2>1. p.at \in Names
    BY <1>8 DEF InSubstitution
  <2>2. \A at \in {Root} \cup Devices : HasPlural(after, at) => HasPlural(base, at)
    BY <1>5, <1>6, <1>7, <2>1 DEF HasPlural, InSubstitution
  <2>3. HasDevice(after) => HasDevice(base)
    BY <1>5, <1>6, <1>7, <2>1, PlacesAssumption DEF HasDevice, InSubstitution
  <2>4. \A at \in Devices : Plain(at) \in DOMAIN after => Plain(at) \in DOMAIN base
    BY <1>5, <1>6, <1>7, <2>1, PlacesAssumption DEF InSubstitution
  <2>5. Plain(Root) \in DOMAIN after => Plain(Root) \in DOMAIN base \/ RootPlace \in DOMAIN template
    BY <1>5, <1>6, <1>7, <2>1 DEF InSubstitution
  <2> HIDE DEF Plain
  <2>6. CASE Varied(after, Root) /\ RootPlace \in DOMAIN template
    BY <1>1, <1>8, <2>6 DEF after, p
  <2>7. CASE ~Varied(after, Root) \/ RootPlace \notin DOMAIN template
    <3>1. ~(HasPlural(after, Root) /\ HasDevice(after))
      BY <1>2, <2>2, <2>3 DEF Unmixed
    <3>2. \A at \in {Root} \cup Devices : Plain(at) \in DOMAIN after => ~Varied(after, at)
      <4>1. Plain(Root) \in DOMAIN after => ~Varied(after, Root)
        BY <1>2, <2>2, <2>3, <2>5, <2>7 DEF Unmixed, Varied, Plain
      <4>2. \A at \in Devices : Plain(at) \in DOMAIN after => ~Varied(after, at)
        BY <1>2, <2>2, <2>4, PlacesAssumption DEF Unmixed, Varied, Plain
      <4> QED BY <4>1, <4>2
    <3>3. Unmixed(after)
      BY <3>1, <3>2 DEF Unmixed, Plain
    <3> QED BY <3>3 DEF after
  <2> QED BY <2>6, <2>7
<1>9. CASE ~InSubstitution(p)
  <2>1. p.at \in {Root} \cup Devices
    BY <1>3, <1>9, PlaceFacts DEF InSubstitution
  <2>2. \A q \in DOMAIN after : q.at \in {Root} \cup Devices =>
            q = p \/ (q \in DOMAIN base /\ q \notin Above(p))
    BY <1>5, <1>7, <1>9 DEF InSubstitution
  <2>3. /\ p.at = Root /\ p.plural # Whole => ~HasDevice(base)
        /\ p.at \in Devices => ~HasPlural(base, Root)
        /\ p.plural = Whole => ~Varied(base, p.at)
    BY <1>4, <1>9 DEF Reaches
  <2>4. \A at \in {Root} \cup Devices :
            HasPlural(after, at) => HasPlural(base, at) \/ (at = p.at /\ p.plural # Whole)
    BY <2>2 DEF HasPlural
  <2>5. HasDevice(after) => HasDevice(base) \/ p.at \in Devices
    BY <2>2 DEF HasDevice
  <2>6. /\ RootPlace # p => RootPlace \in Above(p)
        /\ Plain(p.at) # p => Plain(p.at) \in Above(p)
        /\ Plain(p.at) = p <=> p.plural = Whole
    BY <1>3, <1>6, <1>9, PlaceFacts DEF InSubstitution
  <2>7. RootPlace \in DOMAIN after => p = RootPlace
    BY <1>6, <2>2, <2>6
  <2>8. Plain(p.at) \in DOMAIN after => p.plural = Whole
    BY <1>6, <2>1, <2>2, <2>6
  <2>9. \A at \in Devices : Plain(at) \in DOMAIN after => Plain(at) = p \/ Plain(at) \in DOMAIN base
    BY <1>6, <2>2
  <2> HIDE DEF Plain
  <2>10. Plain(Root) \in DOMAIN after => ~Varied(after, Root)
    <3>1. SUFFICES ASSUME Plain(Root) \in DOMAIN after PROVE ~Varied(after, Root)
      OBVIOUS
    <3>2. p.at = Root /\ p.plural = Whole
      BY <1>6, <2>7, <3>1
    <3>3. ~Varied(base, Root)
      BY <2>3, <3>2
    <3> QED BY <2>4, <2>5, <3>2, <3>3, PlacesAssumption DEF Varied
  <2>11. \A at \in Devices : Plain(at) \in DOMAIN after => ~HasPlural(after, at)
    <3> TAKE at \in Devices
    <3>1. CASE at = p.at
      BY <2>3, <2>4, <2>8, <3>1 DEF Varied
    <3>2. CASE at # p.at
      <4>1. Plain(at) \in DOMAIN after => Plain(at) \in DOMAIN base
        BY <1>6, <2>9, <3>2
      <4> QED BY <1>2, <2>4, <3>2, <4>1 DEF Unmixed, Varied, Plain
    <3> QED BY <3>1, <3>2
  <2>12. ~(HasPlural(after, Root) /\ HasDevice(after))
    <3>1. ~(HasPlural(base, Root) /\ HasDevice(base))
      BY <1>2 DEF Unmixed
    <3> QED BY <2>1, <2>3, <2>4, <2>5, <3>1, PlacesAssumption
  <2>13. Unmixed(after)
    BY <2>10, <2>11, <2>12, PlacesAssumption DEF Unmixed, Varied, Plain
  <2> QED BY <2>13 DEF after
<1> QED BY <1>8, <1>9

-----------------------------------------------------------------------------
(* What an import has made so far of a locale without diagnostics.         *)
Untouched(k) == \A u \in Accepted : u.key = k => u \in job.todo

RootBrought(k) ==
    /\ \E u \in Accepted : u.key = k /\ InSubstitution(u.place)
    /\ RootPlace \in DOMAIN Source(catalog[k].localizations)
    /\ Varied(job.work[k][xml.locale], Root)

WorkShape(k) ==
    /\ \A m \in Locales \ {xml.locale} :
        /\ m \in DOMAIN job.work[k] <=> m \in DOMAIN catalog[k].localizations
        /\ m \in DOMAIN job.work[k] => job.work[k][m] = catalog[k].localizations[m]
    /\ Untouched(k) => job.work[k] = catalog[k].localizations
    /\ ~Untouched(k) => xml.locale \in DOMAIN job.work[k]
    /\ Clean(catalog[k].localizations, xml.locale) /\ xml.locale \in DOMAIN job.work[k] =>
        /\ AllSupported(job.work[k][xml.locale])
        /\ Unmixed(job.work[k][xml.locale]) \/ RootBrought(k)

ShapeOK ==
    job.pc = "importing" =>
        /\ \A u \in Accepted : Supported(u.place)
        /\ \A k \in Keys : WorkShape(k)

LEMMA BeginShape ==
    ASSUME IInv, BeginImport
    PROVE  ShapeOK'
<1>1. /\ xml # None /\ UNCHANGED <<catalog, xml>> /\ Accepted' = Accepted
      /\ job'.pc = "importing" /\ job'.todo = Accepted
      /\ job'.work = [k \in Keys |-> catalog[k].localizations]
      /\ \A k \in Keys : Plannable(catalog[k].localizations, xml.locale, UnitsOf(xml.units, k))
  BY DEF BeginImport, Accepted, files
<1>2. ASSUME NEW u \in Accepted PROVE Supported(u.place)
  <2>1. u \in UnitsOf(xml.units, u.key) /\ u.key \in Keys
    BY <1>1, AcceptedFacts DEF UnitsOf
  <2> QED BY <1>1, <2>1 DEF Plannable, UnitHolds
<1>3. ASSUME NEW k \in Keys PROVE WorkShape(k)'
  <2> DEFINE locs == catalog[k].localizations
  <2>1. Untouched(k)' /\ job'.work[k] = locs /\ xml' = xml /\ catalog' = catalog
    BY <1>1 DEF Untouched
  <2>2. AreLocalizations(locs) /\ xml.locale \in Locales
    BY <1>1 DEF IInv, TypeInv, TypeOK, IsDocument, Locales
  <2>3. ASSUME Clean(locs, xml.locale), xml.locale \in DOMAIN locs
        PROVE  AllSupported(locs[xml.locale]) /\ Unmixed(locs[xml.locale])
    <3>1. DOMAIN locs[xml.locale] \subseteq Place
      BY <2>2, <2>3 DEF AreLocalizations, IsLocalization
    <3> HIDE DEF locs
    <3> QED BY <2>2, <2>3, <3>1, CleanLocale, FaultsMean DEF AllSupported
  <2> HIDE DEF locs
  <2> QED BY <2>1, <2>3 DEF WorkShape, locs
<1> QED BY <1>1, <1>2, <1>3 DEF ShapeOK

LEMMA ApplyShape ==
    ASSUME IInv, ShapeOK, xml # None, NEW u \in Accepted, Apply(u)
    PROVE  ShapeOK'
<1> DEFINE l == xml.locale
           locs == job.work[u.key]
           made == WithImported(locs, l, u)
<1>1. /\ job.pc = "importing" /\ u \in job.todo /\ CanImport(locs, l, u)
      /\ job' = [pc |-> "importing", todo |-> job.todo \ {u},
                 work |-> [job.work EXCEPT ![u.key] = made]]
      /\ UNCHANGED <<catalog, xml>> /\ Accepted' = Accepted
  BY DEF Apply, files, Accepted
<1>2. u \in XliffUnit(Keys) /\ u.key \in Keys /\ l \in Languages /\ Supported(u.place)
  BY <1>1, AcceptedFacts DEF ShapeOK
<1>3. DOMAIN job.work = Keys /\ AreLocalizations(locs)
  BY <1>1, <1>2 DEF IInv, TypeInv, TypeOK
<1>4. /\ job'.pc = "importing" /\ job'.todo = job.todo \ {u}
      /\ job'.work[u.key] = made /\ \A k \in Keys \ {u.key} : job'.work[k] = job.work[k]
  <2> HIDE DEF made
  <2> QED BY <1>1, <1>2, <1>3
<1>5. \A k \in Keys \ {u.key} : Untouched(k)' <=> Untouched(k)
  BY <1>1, <1>4 DEF Untouched
<1>6. ASSUME NEW k \in Keys, k # u.key PROVE WorkShape(k)'
  <2>1. WorkShape(k) /\ job'.work[k] = job.work[k] /\ catalog' = catalog /\ xml' = xml
    BY <1>1, <1>4, <1>6 DEF ShapeOK
  <2>2. RootBrought(k)' <=> RootBrought(k)
    BY <1>1, <2>1 DEF RootBrought
  <2> QED BY <1>5, <1>6, <2>1, <2>2 DEF WorkShape
<1>7. WorkShape(u.key)'
  <2>1. WorkShape(u.key)
    BY <1>1, <1>2 DEF ShapeOK
  <2>2. /\ l \in DOMAIN made
        /\ \A m \in DOMAIN locs \ {l} : m \in DOMAIN made /\ made[m] = locs[m]
        /\ \A m \in DOMAIN made : m = l \/ m \in DOMAIN locs
    BY <1>1, <1>2, <1>3, ImportedPlaces
  <2>3. ~Untouched(u.key)'
    BY <1>1, <1>4 DEF Untouched
  <2>4. \A m \in Locales \ {l} :
            /\ m \in DOMAIN made <=> m \in DOMAIN catalog[u.key].localizations
            /\ m \in DOMAIN made => made[m] = catalog[u.key].localizations[m]
    <3> HIDE DEF made
    <3> QED BY <2>1, <2>2 DEF WorkShape
  <2>5. Source(locs) = Source(catalog[u.key].localizations)
    BY <1>2, <2>1, LocalesAssumption DEF WorkShape, Source, Locales
  <2>6. ASSUME Clean(catalog[u.key].localizations, l)
        PROVE  AllSupported(made[l]) /\ (Unmixed(made[l]) \/ RootBrought(u.key)')
    <3>1. l \in DOMAIN locs => AllSupported(locs[l]) /\ (Unmixed(locs[l]) \/ RootBrought(u.key))
      BY <2>1, <2>6 DEF WorkShape
    <3>2. AllSupported(made[l])
      BY <1>1, <1>2, <1>3, <3>1, ImportKeepsSupport
    <3>3. RootBrought(u.key)' <=>
            /\ \E v \in Accepted : v.key = u.key /\ InSubstitution(v.place)
            /\ RootPlace \in DOMAIN Source(catalog[u.key].localizations)
            /\ Varied(made[l], Root)
      <4> HIDE DEF made
      <4> QED BY <1>1, <1>4 DEF RootBrought
    <3>4. CASE l \in DOMAIN locs /\ RootBrought(u.key)
      <4>1. Varied(made[l], Root)
        BY <1>1, <1>2, <1>3, <3>4, ImportKeepsVaried DEF RootBrought
      <4> QED BY <3>2, <3>3, <3>4, <4>1 DEF RootBrought
    <3>5. CASE l \in DOMAIN locs => Unmixed(locs[l])
      <4>1. \/ Unmixed(made[l])
            \/ /\ InSubstitution(u.place) /\ RootPlace \in DOMAIN Source(locs)
               /\ Varied(made[l], Root)
        BY <1>1, <1>2, <1>3, <3>5, ImportUnmixed
      <4> QED BY <2>5, <3>2, <3>3, <4>1
    <3> QED BY <3>1, <3>4, <3>5
  <2> HIDE DEF made, locs
  <2> QED BY <1>1, <1>4, <2>2, <2>3, <2>4, <2>6 DEF WorkShape
<1>8. \A v \in Accepted : Supported(v.place)
  BY <1>1 DEF ShapeOK
<1> QED BY <1>1, <1>6, <1>7, <1>8 DEF ShapeOK

LEMMA ShapeHolds == Spec => [](IInv /\ ShapeOK)
<1>1. Init => ShapeOK
  BY DEF Init, Idle, ShapeOK
<1>2. ASSUME IInv, ShapeOK, [Next]_vars PROVE ShapeOK'
  <2>1. CASE UNCHANGED vars
    <3>1. UNCHANGED <<catalog, xml, job>>
      BY <2>1 DEF vars, files
    <3> QED BY <1>2, <3>1 DEF ShapeOK, WorkShape, Untouched, RootBrought, Accepted
  <2>2. CASE BeginImport
    BY <1>2, <2>2, BeginShape
  <2>3. CASE xml # None /\ \E u \in Accepted : Apply(u)
    BY <1>2, <2>3, ApplyShape
  <2>4. ASSUME job'.pc # "importing" PROVE ShapeOK'
    BY <2>4 DEF ShapeOK
  <2>5. CASE \E l \in Languages, b \in BOOLEAN : ExportVersions(l, b) \/ ExportTool(l, b)
    BY <2>4, <2>5 DEF ExportVersions, ExportTool, Exportable, Idle
  <2>6. CASE WriteXml \/ XmlNotWritten \/ Commit \/ Decline
    BY <2>4, <2>6 DEF WriteXml, XmlNotWritten, Commit, Decline, Idle
  <2>7. CASE \E u, v : Translate(u, v)
    BY <2>4, <2>7 DEF Translate
  <2>8. ASSUME Edit PROVE ShapeOK'
    BY <2>4, <2>8 DEF Edit
  <2>9. CASE \/ \E k \in Keys, entry \in Entries : DeveloperEdit(k, entry)
             \/ \E k \in Keys, source \in Sources : SourceEdit(k, source)
             \/ \E k \in Keys, c \in Contexts : UpdateContext(k, c)
             \/ \E adopt \in BOOLEAN : Synchronize(adopt)
    BY <2>8, <2>9 DEF DeveloperEdit, SourceEdit, UpdateContext, Synchronize
  <2> QED BY <1>2, <2>1, <2>2, <2>3, <2>5, <2>6, <2>7, <2>9 DEF Next, ImportStep
<1> QED BY <1>1, <1>2, Invariance, PTL DEF Spec

(* OtherImportsStayClean holds of every step, whatever shapes source,      *)
(* target and document have and in whatever order the units come:          *)
(* ensure_node puts nothing beside variations, and the one unit that comes *)
(* without it is the root a substitution brings along.                     *)
THEOREM OthersStayClean == Spec => OtherImportsStayClean
<1>1. ASSUME IInv, ShapeOK, Commit, NEW k \in Keys PROVE BringsRoot(k) \/ StaysClean(k)
  <2> DEFINE l == xml.locale
             locs == catalog[k].localizations
             after == job.work[k]
  <2>1. /\ xml # None /\ job.pc = "importing" /\ job.todo = {} /\ xml' = xml
        /\ catalog'[k].localizations = after /\ CandidateHolds
    BY <1>1, CommitFacts DEF Commit
  <2>2. WorkShape(k) /\ l \in Languages /\ l \in Locales /\ AreLocalizations(after)
    BY <1>1, <2>1 DEF ShapeOK, IInv, TypeInv, TypeOK, IsDocument, Locales
  <2>3. SUFFICES ASSUME Clean(locs, l) PROVE BringsRoot(k) \/ Clean(after, l)
    BY <2>1 DEF StaysClean
  <2>4. CASE Untouched(k)
    BY <2>2, <2>3, <2>4 DEF WorkShape
  <2>5. CASE ~Untouched(k)
    <3>1. PICK u \in Accepted : u.key = k
      BY <2>5 DEF Untouched
    <3>2. ReferencesHold(after[l])
      BY <2>1, <3>1 DEF CandidateHolds
    <3>3. l \in DOMAIN after /\ AllSupported(after[l]) /\ (Unmixed(after[l]) \/ RootBrought(k))
      BY <2>2, <2>3, <2>5 DEF WorkShape
    <3>4. RootBrought(k) => BringsRoot(k)
      BY <2>1 DEF RootBrought, BringsRoot
    <3>5. DOMAIN after[l] \subseteq Place
      BY <2>2, <3>3 DEF AreLocalizations, IsLocalization
    <3>6. DOMAIN after[l] # {}
      <4>1. UnitAt(after, l, u.place) = {Placed(u)}
        BY <1>1, <2>1, <3>1 DEF IInv, WorkOK
      <4> QED BY <4>1 DEF UnitAt
    <3>7. Categories(l) # {}
      BY <2>3 DEF Clean
    <3> HIDE DEF after, l
    <3>8. Unmixed(after[l]) => Clean(after, l)
      BY <2>2, <3>2, <3>3, <3>5, <3>6, <3>7, CleanLocale, FaultsMean DEF AllSupported
    <3> QED BY <3>3, <3>4, <3>8 DEF after, l
  <2> QED BY <2>4, <2>5
<1>2. IInv /\ ShapeOK /\ [Next]_vars => [Commit => \A k \in Keys : BringsRoot(k) \/ StaysClean(k)]_vars
  BY <1>1
<1> QED BY <1>2, ShapeHolds, PTL DEF Spec, OtherImportsStayClean

-----------------------------------------------------------------------------
(* Lists of units.                                                         *)

Listed(f, S, n) ==
    /\ n \in Nat /\ f = [i \in 1 .. n |-> f[i]]
    /\ \A i \in 1 .. n : f[i] \in S
    /\ \A x \in S : \E i \in 1 .. n : f[i] = x

LEMMA ListingFacts ==
    ASSUME NEW S, IsFiniteSet(S), NEW f \in Listings(S)
    PROVE  Listed(f, S, Cardinality(S)) /\ f \in Seq(S) /\ Len(f) = Cardinality(S)
<1>1. Cardinality(S) \in Nat
  BY FS_CardinalityType
<1>2. f \in [1 .. Cardinality(S) -> S] /\ \A x \in S : \E i \in 1 .. Cardinality(S) : f[i] = x
  BY DEF Listings, Bijection, Injection, Surjection
<1> QED BY <1>1, <1>2 DEF Listed

LEMMA ConcatFacts ==
    ASSUME NEW S, NEW f \in Seq(S), NEW g \in Seq(S)
    PROVE  /\ f \o g \in Seq(S) /\ Len(f \o g) = Len(f) + Len(g)
           /\ \A i \in 1 .. Len(f) + Len(g) :
                (f \o g)[i] = IF i <= Len(f) THEN f[i] ELSE g[i - Len(f)]
OBVIOUS

(* A list has all units, those outside substitutions first.                *)
LEMMA ListFacts ==
    ASSUME NEW us, IsFiniteSet(us), NEW list \in InOrder(us)
    PROVE  /\ Len(list) \in Nat /\ (list = <<>> <=> Len(list) = 0)
           /\ \A i \in 1 .. Len(list) : list[i] \in us
           /\ \A u \in us : \E i \in 1 .. Len(list) : list[i] = u
           /\ \A i, j \in 1 .. Len(list) :
                i < j /\ InSubstitution(list[i].place) => InSubstitution(list[j].place)
<1> DEFINE out == {u \in us : ~InSubstitution(u.place)}
           in == {u \in us : InSubstitution(u.place)}
<1>1. PICK f \in Listings(out), g \in Listings(in) : list = f \o g
  <2>1. InOrder(us) = {f \o g : f \in Listings(out), g \in Listings(in)}
    BY DEF InOrder
  <2> HIDE DEF out, in
  <2> QED BY <2>1
<1>2. IsFiniteSet(out) /\ IsFiniteSet(in)
  BY FS_Subset
<1> DEFINE n == Cardinality(out)
           m == Cardinality(in)
<1>3. Listed(f, out, n) /\ f \in Seq(out) /\ Len(f) = n
  <2> HIDE DEF out
  <2> QED BY <1>2, ListingFacts
<1>4. Listed(g, in, m) /\ g \in Seq(in) /\ Len(g) = m
  <2> HIDE DEF in
  <2> QED BY <1>2, ListingFacts
<1>5. f \in Seq(us) /\ g \in Seq(us)
  BY <1>3, <1>4
<1> HIDE DEF n, m
<1>6. n \in Nat /\ m \in Nat
  BY <1>3, <1>4 DEF Listed
<1>7. /\ Len(list) = n + m /\ list \in Seq(us)
      /\ \A i \in 1 .. n + m : list[i] = IF i <= n THEN f[i] ELSE g[i - n]
  BY <1>1, <1>3, <1>4, <1>5, ConcatFacts
<1>8. \A i \in 1 .. n + m : list[i] \in us /\ (i <= n <=> ~InSubstitution(list[i].place))
  <2> TAKE i \in 1 .. n + m
  <2>1. CASE i <= n
    BY <1>3, <1>6, <1>7, <2>1 DEF Listed
  <2>2. CASE ~(i <= n)
    <3>1. i - n \in 1 .. m
      BY <1>6, <2>2
    <3> QED BY <1>4, <1>6, <1>7, <2>2, <3>1 DEF Listed
  <2> QED BY <2>1, <2>2
<1>9. \A u \in us : \E i \in 1 .. n + m : list[i] = u
  <2> TAKE u \in us
  <2>1. CASE u \in out
    <3>1. PICK i \in 1 .. n : f[i] = u
      BY <1>3, <2>1 DEF Listed
    <3>2. i \in 1 .. n + m /\ i <= n
      BY <1>6
    <3> QED BY <1>7, <3>1, <3>2
  <2>2. CASE u \in in
    <3>1. PICK i \in 1 .. m : g[i] = u
      BY <1>4, <2>2 DEF Listed
    <3>2. i + n \in 1 .. n + m /\ ~(i + n <= n) /\ (i + n) - n = i
      BY <1>6
    <3> QED BY <1>7, <3>1, <3>2
  <2> QED BY <2>1, <2>2
<1>10. list = <<>> <=> Len(list) = 0
  BY <1>7
<1> QED
  <2> HIDE DEF out, in
  <2> QED BY <1>6, <1>7, <1>8, <1>9, <1>10

Turn(locs, l, list, i, after) ==
    IF i = 0 THEN locs ELSE WithImported(after[i - 1], l, list[i])

(* Applying a list comes to an end: its turns are true of After.           *)
LEMMA AfterRuns ==
    ASSUME NEW locs, NEW l, NEW list, Len(list) \in Nat
    PROVE  LET after == After(locs, l, list)
           IN  /\ after[0] = locs
               /\ \A i \in 1 .. Len(list) : after[i] = WithImported(after[i - 1], l, list[i])
<1> DEFINE T(i, after) == Turn(locs, l, list, i, after)
           Runs(after, n) == \A i \in 0 .. n : after[i] = T(i, after)
           Done == {n \in Nat : \E after : Runs(after, n)}
           N == Len(list)
           IsLoop(after) == after = [i \in 0 .. N |-> T(i, after)]
<1>1. N \in Nat
  OBVIOUS
<1>2. ASSUME NEW i, NEW f, NEW g, i # 0 => f[i - 1] = g[i - 1] PROVE T(i, f) = T(i, g)
  BY <1>2 DEF Turn
<1>3. 0 \in Done
  <2>1. Runs([i \in 0 .. 0 |-> locs], 0)
    BY DEF Turn
  <2> QED BY <2>1
<1>4. ASSUME NEW n \in Done PROVE n + 1 \in Done
  <2>1. n \in Nat /\ \E after : Runs(after, n)
    OBVIOUS
  <2>2. PICK f : Runs(f, n)
    BY <2>1
  <2> DEFINE g == [i \in 0 .. n + 1 |-> IF i <= n THEN f[i] ELSE T(i, f)]
  <2>3. \A i \in 0 .. n + 1 : i # 0 => f[i - 1] = g[i - 1]
    BY <2>1
  <2>4. \A i \in 0 .. n + 1 : T(i, f) = T(i, g)
    <3> HIDE DEF T, g
    <3> QED BY <1>2, <2>3 DEF T
  <2>5. ASSUME NEW i \in 0 .. n + 1 PROVE g[i] = T(i, g)
    <3>1. CASE i <= n
      <4>1. i \in 0 .. n /\ g[i] = f[i]
        BY <2>1, <3>1
      <4> HIDE DEF T, g
      <4> QED BY <2>2, <2>4, <4>1
    <3>2. CASE ~(i <= n)
      <4>1. g[i] = T(i, f)
        BY <3>2
      <4> HIDE DEF T, g
      <4> QED BY <2>4, <4>1
    <3> QED BY <3>1, <3>2
  <2>6. Runs(g, n + 1)
    <3> HIDE DEF T, g
    <3> QED BY <2>5
  <2> HIDE DEF Runs, g
  <2> QED BY <2>1, <2>6
<1>5. N \in Done
  <2>1. Done \subseteq Nat
    OBVIOUS
  <2> HIDE DEF Done
  <2> QED BY <1>1, <1>3, <1>4, <2>1, SetInduction
<1>6. PICK f : Runs(f, N)
  BY <1>5
<1> DEFINE h == [i \in 0 .. N |-> f[i]]
<1>7. IsLoop(h)
  <2>1. ASSUME NEW i \in 0 .. N PROVE f[i] = T(i, h)
    <3>1. i # 0 => f[i - 1] = h[i - 1]
      BY <1>1
    <3> HIDE DEF T, h
    <3>2. T(i, f) = T(i, h)
      BY <1>2, <3>1 DEF T
    <3> QED BY <1>6, <3>2
  <2> HIDE DEF T
  <2>2. [i \in 0 .. N |-> f[i]] = [i \in 0 .. N |-> T(i, h)]
    BY <2>1
  <2> QED BY <2>2
<1> DEFINE loop == CHOOSE after : IsLoop(after)
<1>8. After(locs, l, list) = loop
  BY DEF After, Turn
<1>9. IsLoop(loop)
  <2> HIDE DEF h, IsLoop
  <2> QED BY <1>7
<1>10. \A i \in 0 .. N : loop[i] = T(i, loop)
  <2> HIDE DEF loop
  <2>1. loop = [i \in 0 .. N |-> T(i, loop)]
    BY <1>9
  <2> HIDE DEF T
  <2> QED BY <2>1
<1> HIDE DEF loop
<1>11. loop[0] = locs /\ \A i \in 1 .. N : loop[i] = WithImported(loop[i - 1], l, list[i])
  BY <1>1, <1>10 DEF Turn
<1> QED BY <1>8, <1>11


-----------------------------------------------------------------------------
(* What was exported comes back.                                           *)

Copies(k, locs, l, b) == {Copied(u) : u \in ExportUnits(k, locs, l, b)}

Returns(k, locs, l, b) ==
    /\ AreLocalizations(locs) /\ SameSubstitutions(locs, l)
    /\ CanExport(locs, l, b) /\ Sound(locs, Copies(k, locs, l, b))

(* Among the places of a shape without mixed axes there is room for all.   *)
LEMMA ReachesAmong ==
    ASSUME NEW shape, DOMAIN shape \subseteq Place, Unmixed(shape), NEW p \in DOMAIN shape,
           NEW loc, DOMAIN loc \subseteq DOMAIN shape
    PROVE  Above(p) \cap DOMAIN shape = {} /\ Reaches(loc, p)
<1> DEFINE whole == [at |-> p.at, plural |-> Whole]
<1>1. /\ p = [at |-> p.at, plural |-> p.plural]
      /\ p.at \in {Root} \cup Devices \cup Names
      /\ p.at \in Names => Above(p) = {}
      /\ p.at \notin Names => Above(p) = {RootPlace, whole} \ {p}
  BY PlaceFacts
<1>2. CASE p.at \in Names
  BY <1>1, <1>2 DEF Reaches, InSubstitution
<1>3. CASE p.at \notin Names
  <2>1. p.at \in {Root} \cup Devices /\ Root \notin Devices
    BY <1>1, <1>3, PlacesAssumption
  <2>2. p.at = Root /\ p.plural # Whole => HasPlural(shape, Root)
    BY DEF HasPlural
  <2>3. p.at \in Devices => HasDevice(shape)
    BY DEF HasDevice
  <2>4. p.plural # Whole => HasPlural(shape, p.at)
    BY DEF HasPlural
  <2>5. /\ RootPlace \in DOMAIN shape => ~HasPlural(shape, Root) /\ ~HasDevice(shape)
        /\ whole \in DOMAIN shape => ~Varied(shape, p.at)
        /\ ~(HasPlural(shape, Root) /\ HasDevice(shape))
    BY <2>1 DEF Unmixed, Varied, RootPlace
  <2>6. p # RootPlace => RootPlace \notin DOMAIN shape
    BY <1>1, <2>1, <2>2, <2>3, <2>5 DEF RootPlace
  <2>7. p # whole => whole \notin DOMAIN shape
    BY <1>1, <2>4, <2>5 DEF Varied
  <2>8. Above(p) \cap DOMAIN shape = {}
    BY <1>1, <1>3, <2>6, <2>7
  <2>9. /\ \A at : HasPlural(loc, at) => HasPlural(shape, at)
        /\ HasDevice(loc) => HasDevice(shape)
    BY DEF HasPlural, HasDevice
  <2>10. /\ p.at = Root /\ p.plural # Whole => ~HasDevice(loc)
         /\ p.at \in Devices => ~HasPlural(loc, Root)
         /\ p.plural = Whole => ~Varied(loc, p.at)
    <3>1. p.plural = Whole => ~Varied(shape, p.at)
      BY <1>1, <2>5
    <3>2. Varied(loc, p.at) => Varied(shape, p.at)
      BY <2>9 DEF Varied
    <3> QED BY <2>2, <2>3, <2>5, <2>9, <3>1, <3>2
  <2>11. \A q \in Above(p) \cap DOMAIN loc : loc[q] = New(Blank)
    BY <2>8
  <2> QED BY <2>8, <2>10, <2>11 DEF Reaches
<1> QED BY <1>2, <1>3

(* The places that are exported.                                           *)
LEMMA ExportedPlaces ==
    ASSUME NEW k, NEW locs, NEW l \in Languages, NEW b, Returns(k, locs, l, b)
    PROVE  LET shape == ExportShape(locs, l)
               full == RequiredShape(shape, Categories(l), FALSE)
               names == Substitutions(Source(locs))
           IN  /\ WellFormed(shape) /\ IsLocalization(shape)
               /\ DOMAIN full = ExportPlaces(locs, l)
               /\ DOMAIN full \subseteq Place /\ Unmixed(full) /\ DOMAIN shape \subseteq DOMAIN full
               /\ \A p \in DOMAIN full : Supported(p)
               /\ Substitutions(shape) = names /\ Source(locs) = locs[SourceLanguage]
               /\ \A p \in DOMAIN full : InSubstitution(p) => p.at \in names
               /\ names # {} => Categories(l) # {}
               /\ l \notin DOMAIN locs => shape = Source(locs)
               /\ l \in DOMAIN locs => shape = locs[l]
<1> DEFINE shape == ExportShape(locs, l)
           full == RequiredShape(shape, Categories(l), FALSE)
           names == Substitutions(Source(locs))
<1>1. SourceLanguage \in DOMAIN locs /\ Source(locs) = locs[SourceLanguage]
  BY DEF Returns, SameSubstitutions, Source
<1>2. /\ l \notin DOMAIN locs => shape = Source(locs)
      /\ l \in DOMAIN locs => shape = locs[l]
  BY <1>1 DEF ExportShape
<1>3. WellFormed(shape) /\ ((\E p \in DOMAIN shape : p.plural # Whole) => Categories(l) # {})
  BY <1>1 DEF Returns, CanExport
<1>4. IsLocalization(shape) /\ DOMAIN shape \subseteq Place
  BY <1>1, <1>2 DEF Returns, AreLocalizations, IsLocalization
<1>5. Substitutions(shape) = names
  BY <1>1, <1>2 DEF Returns, SameSubstitutions
<1>6. Categories(l) \in SUBSET Plurals
  BY LocalesAssumption DEF Locales
<1>7. Unmixed(shape) /\ \A p \in DOMAIN shape : Supported(p)
  BY <1>3, FaultsMean DEF WellFormed
<1> HIDE DEF shape
<1>8. DOMAIN full \subseteq Place
  BY <1>4, <1>6, ShapeTyped DEF IsLocalization
<1>9. Unmixed(full) /\ DOMAIN shape \subseteq DOMAIN full /\ \A p \in DOMAIN full : Supported(p)
  BY <1>4, <1>6, <1>7, ShapeUnmixed
<1>10. ASSUME NEW p \in DOMAIN full, InSubstitution(p) PROVE p.at \in names
  <2>1. p \in ShapePlaces(DOMAIN shape, Categories(l), FALSE)
    BY ShapeDomain
  <2>2. p \in DOMAIN shape \/ \E q \in DOMAIN shape : q.at = p.at /\ q.plural # Whole
    BY <1>4, <1>6, <2>1, ShapeMember
  <2> QED BY <1>5, <1>10, <2>2 DEF Substitutions, InSubstitution
<1>11. names # {} => Categories(l) # {}
  <2> SUFFICES ASSUME NEW n \in names PROVE Categories(l) # {}
    OBVIOUS
  <2>1. PICK p \in DOMAIN shape : p.at = n /\ n \in Names
    BY <1>5 DEF Substitutions
  <2>2. p.plural # Whole
    BY <1>4, <2>1, PlaceFacts
  <2> QED BY <1>3, <2>2
<1>12. DOMAIN full = ExportPlaces(locs, l)
  BY DEF ExportPlaces, shape
<1> QED BY <1>1, <1>2, <1>3, <1>4, <1>5, <1>8, <1>9, <1>10, <1>11, <1>12 DEF shape

(* The units.                                                              *)
LEMMA CopyFacts ==
    ASSUME NEW k \in Keys, NEW locs, NEW l \in Languages, NEW b, Returns(k, locs, l, b),
           NEW u \in Copies(k, locs, l, b)
    PROVE  /\ u.key = k /\ u.place \in UnitPlaces(locs, l, b)
           /\ u.place \in ExportPlaces(locs, l) /\ u.place \in Place
           /\ u.source = XliffSource(locs, u.place) /\ u.source # NoText
           /\ u.target \in Texts /\ u.target # NoText /\ u.state \in ImportableStates
           /\ u.target = IF InSubstitution(u.place) /\ ~HasSourceLeaf(locs, u.place)
                         THEN ArgumentOf(u.place.at) ELSE XliffSource(locs, u.place)
           /\ HasXliffSource(locs, u.place)
           /\ u = Copied(ExportUnit(k, locs, l, u.place)) /\ u \in XliffUnit(Keys)
<1>1. PICK p \in UnitPlaces(locs, l, b) : u = Copied(ExportUnit(k, locs, l, p))
  BY DEF Copies, ExportUnits
<1> DEFINE e == ExportUnit(k, locs, l, p)
<1>2. p \in ExportPlaces(locs, l) /\ p \in Place
  BY ExportedPlaces DEF UnitPlaces
<1>3. /\ e \in XliffUnit(Keys) /\ e.key = k /\ e.place = p /\ e.source = XliffSource(locs, p)
  <2>1. e \in XliffUnit(Keys)
    BY <1>2, UnitTyped DEF Returns
  <2> QED BY <2>1 DEF ExportUnit
<1> HIDE DEF e
<1>4. /\ u.key = k /\ u.place = p /\ u.source = e.source /\ u.state = "needs-translation"
      /\ u.target = IF e.source = Identifier THEN ArgumentOf(p.at) ELSE e.source
      /\ u = [key |-> k, place |-> p, source |-> e.source, target |-> u.target, state |-> u.state]
  BY <1>1, <1>3 DEF Copied, XliffUnit, e
<1>5. /\ XliffSource(locs, p) \in Texts \cup {Identifier}
      /\ HasSourceLeaf(locs, p) => XliffSource(locs, p) \in Texts
      /\ Identifier \notin Texts /\ NoText \notin Texts /\ Identifier # NoText /\ KeyText \in Texts
  BY BasisTyped, XliffSourceTyped, TextsAssumption, ExchangeAssumption DEF Returns
<1>6. XliffSource(locs, p) = Identifier <=> InSubstitution(p) /\ ~HasSourceLeaf(locs, p)
  <2>1. ~HasSourceLeaf(locs, p) =>
            XliffSource(locs, p) = IF InSubstitution(p) THEN Identifier ELSE KeyText
    BY DEF XliffSource
  <2> QED BY <1>5, <2>1
<1>7. InSubstitution(p) => ArgumentOf(p.at) \in Texts
  BY ExchangeAssumption DEF InSubstitution
<1>8. u.target \in Texts /\ u.target # NoText /\ u.source # NoText
  BY <1>3, <1>4, <1>5, <1>6, <1>7
<1>9. HasXliffSource(locs, p)
  BY DEF Returns, CanExport
<1>10. u \in XliffUnit(Keys)
  BY <1>2, <1>3, <1>4, <1>5, <1>8 DEF XliffUnit, TargetStates, ImportableStates
<1>11. u.state \in ImportableStates
  BY <1>4 DEF ImportableStates
<1> QED BY <1>1, <1>2, <1>3, <1>4, <1>6, <1>8, <1>9, <1>10, <1>11 DEF e

LEMMA CopyTarget ==
    ASSUME NEW k \in Keys, NEW locs, NEW l \in Languages, NEW b, Returns(k, locs, l, b),
           NEW u \in Copies(k, locs, l, b)
    PROVE  /\ u.target \in Texts /\ u.target # NoText /\ u.state \in ImportableStates
           /\ u \in XliffUnit(Keys) /\ u.place \in Place
BY CopyFacts


(* Every check of the import plan passes.                                  *)
LEMMA CopiesPlannable ==
    ASSUME NEW k \in Keys, NEW locs, NEW l \in Languages, NEW b, Returns(k, locs, l, b)
    PROVE  Plannable(locs, l, Copies(k, locs, l, b))
<1> DEFINE us == Copies(k, locs, l, b)
           full == RequiredShape(ExportShape(locs, l), Categories(l), FALSE)
           names == Substitutions(Source(locs))
<1>1. /\ DOMAIN full = ExportPlaces(locs, l) /\ DOMAIN full \subseteq Place /\ Unmixed(full)
      /\ \A p \in DOMAIN full : Supported(p)
      /\ \A p \in DOMAIN full : InSubstitution(p) => p.at \in names
  BY ExportedPlaces
<1> HIDE DEF full
<1>2. \A u \in us :
        /\ u.key = k /\ u.place \in DOMAIN full
        /\ u.source = XliffSource(locs, u.place) /\ u.source # NoText
        /\ u.target \in Texts /\ u.target # NoText /\ u.state \in ImportableStates
        /\ u.target = IF InSubstitution(u.place) /\ ~HasSourceLeaf(locs, u.place)
                      THEN ArgumentOf(u.place.at) ELSE XliffSource(locs, u.place)
        /\ HasXliffSource(locs, u.place)
        /\ u = Copied(ExportUnit(k, locs, l, u.place))
  BY <1>1, CopyFacts
<1>3. names \subseteq Defined(locs, l)
  <2>1. SourceLanguage \in {l, SourceLanguage} \cap DOMAIN locs /\ names = Substitutions(locs[SourceLanguage])
    BY DEF Returns, SameSubstitutions, Source
  <2> QED BY <2>1 DEF Defined
<1>4. \A u \in us :
        IF InSubstitution(u.place)
        THEN References(u.target) = {} /\ CompatiblePart(u.target, u.target)
        ELSE References(u.target) = names /\ Compatible(u.target, u.target)
  BY DEF Returns, Sound
<1> HIDE DEF us
<1>5. WithTargets(us) = us
  BY <1>2 DEF WithTargets
<1>6. ASSUME NEW u \in us PROVE SourceMatches(locs, u)
  <2>1. CASE ~HasSourceLeaf(locs, u.place)
    BY <1>2, <2>1 DEF SourceMatches, XliffSource
  <2>2. CASE HasSourceLeaf(locs, u.place)
    <3> DEFINE source == Source(locs)
               q == SourceLeaf(source, u.place)[1]
    <3>1. q \in DOMAIN source
      BY <2>2, SourceLeafFacts DEF HasSourceLeaf
    <3>2. source[q].text \in Texts /\ InSubstitution(q) \in BOOLEAN
      BY <3>1, BasisTyped, TextsAssumption, UnitFacts DEF Returns, InSubstitution
    <3>3. XliffSource(locs, u.place) = Shown(source, q, source[q].text)
      BY <2>2 DEF XliffSource
    <3> HIDE DEF q, source
    <3>4. Shown(source, q, Shown(source, q, source[q].text)) = Shown(source, q, source[q].text)
      BY <3>2, ExchangeAssumption DEF Shown
    <3>5. Shown(source, q, u.source) = XliffSource(locs, u.place)
      BY <1>2, <3>3, <3>4
    <3> QED BY <1>2, <2>2, <3>5 DEF SourceMatches, q, source
  <2> QED BY <2>1, <2>2
<1>7. ASSUME NEW u \in us PROVE UnitHolds(locs, l, u)
  BY <1>1, <1>2, <1>6 DEF UnitHolds, SourceLeftOut, ImportableStates
<1>8. OneUnitPerPlace(us)
  BY <1>2 DEF OneUnitPerPlace
<1>9. PlacesApart(us)
  <2>1. \A p \in DOMAIN full : Above(p) \cap DOMAIN full = {}
    BY <1>1, ReachesAmong
  <2> QED BY <1>2, <2>1 DEF PlacesApart
<1>10. MetadataHolds(locs, l, us)
  BY <1>1, <1>2, <1>3 DEF MetadataHolds
<1>11. ASSUME NEW u \in us PROVE FormatMatches(locs, l, us, u)
  <2>1. References(u.target) \subseteq names
    BY <1>4
  <2>2. References(u.target) \subseteq MetadataNames(locs, l, us)
    <3>1. ~InSubstitution(u.place) => Defined(locs, l) \subseteq MetadataNames(locs, l, us)
      BY DEF MetadataNames
    <3> QED BY <1>3, <1>4, <3>1
  <2> QED BY <1>2, <1>4, <2>1, <2>2 DEF FormatMatches
<1>12. QED
  <2>1. us = Copies(k, locs, l, b)
    BY DEF us
  <2> QED BY <1>5, <1>7, <1>8, <1>9, <1>10, <1>11, <2>1 DEF Plannable

(* What a locale is initialized with.                                      *)
LEMMA InitialFacts ==
    ASSUME NEW k, NEW locs, NEW l \in Languages, NEW b, Returns(k, locs, l, b)
    PROVE  LET initial == InitialLocale(locs, l)
               names == Substitutions(Source(locs))
           IN  /\ \A p \in DOMAIN initial :
                    ~InSubstitution(p) => References(initial[p].text) \subseteq names
               /\ names # {} => Substitutions(initial) = names
               /\ l \notin DOMAIN locs => DOMAIN initial \subseteq ExportPlaces(locs, l)
<1> DEFINE initial == InitialLocale(locs, l)
           source == Source(locs)
           names == Substitutions(source)
           categories == Categories(l)
           shape == RequiredShape(source, categories, TRUE)
<1>1. /\ SourceBasis(locs, Blank) = source /\ IsLocalization(source)
      /\ DOMAIN source \subseteq Place
  BY BasisTyped, TextsAssumption DEF Returns, SameSubstitutions, SourceBasis, Source, IsLocalization
<1>2. categories \in SUBSET Plurals /\ (names # {} => categories # {})
  BY ExportedPlaces, LocalesAssumption DEF Locales
<1>3. Referenced(source) = names
  BY DEF Returns, Sound, WellFormed, ReferencesHold
<1>4. initial = [p \in DOMAIN shape |->
                    New(IF References(shape[p].text) = {} THEN Blank ELSE shape[p].text)]
  BY <1>1 DEF InitialLocale
<1> HIDE DEF initial, categories
<1>5. \A p : p \in DOMAIN shape <=>
                /\ p \in Place
                /\ \/ p \in DOMAIN source /\ (p.plural # Whole => p.plural \in categories)
                   \/ p.plural \in categories /\ \E q \in DOMAIN source : q.at = p.at /\ q.plural # Whole
  <2>1. DOMAIN shape = ShapePlaces(DOMAIN source, categories, TRUE)
    BY ShapeDomain
  <2>2. DOMAIN source \in SUBSET Place /\ TRUE \in BOOLEAN
    BY <1>1
  <2> HIDE DEF shape, source
  <2> QED BY <1>2, <2>1, <2>2, ShapeMember
<1>6. ASSUME NEW p \in DOMAIN initial, ~InSubstitution(p)
      PROVE  References(initial[p].text) \subseteq names
  <2> DEFINE q == [p EXCEPT !.plural = AnyPlural]
  <2>1. p \in DOMAIN shape /\ p \in Place
    BY <1>4, <1>5
  <2>2. \/ p \in DOMAIN source /\ shape[p] = source[p]
        \/ q \in DOMAIN source /\ shape[p] = source[q]
        \/ shape[p] = New(Blank)
    BY <2>1 DEF RequiredShape
  <2>3. q.at = p.at
    BY <2>1, PlaceFacts, PlacesAssumption
  <2>4. \A r \in DOMAIN source : r.at \notin Names => References(source[r].text) \subseteq names
    BY <1>3 DEF Referenced
  <2> HIDE DEF shape, q
  <2>5. References(shape[p].text) \subseteq names
    BY <1>6, <2>2, <2>3, <2>4, TextsAssumption DEF InSubstitution, New
  <2> QED BY <1>4, <2>1, <2>5, TextsAssumption DEF New
<1>7. names # {} => Substitutions(initial) = names
  <2> SUFFICES ASSUME names # {} PROVE Substitutions(initial) = names
    OBVIOUS
  <2>1. PICK c \in categories : TRUE
    BY <1>2
  <2>2. ASSUME NEW n \in names PROVE n \in Substitutions(initial)
    <3>1. n \in Names /\ \E r \in DOMAIN source : r.at = n
      BY DEF Substitutions
    <3>2. PICK r \in DOMAIN source : r.at = n
      BY <3>1
    <3> DEFINE p == [r EXCEPT !.plural = c]
    <3>3. r \in Place /\ c \in Plurals
      BY <1>1, <1>2
    <3>4. r.plural # Whole /\ p \in Place
      BY <3>1, <3>2, <3>3, PlaceFacts
    <3>5. p.at = n /\ p.plural = c
      BY <3>2, <3>3, PlaceFacts
    <3> HIDE DEF p
    <3>6. p \in DOMAIN initial
      BY <1>4, <1>5, <3>2, <3>4, <3>5
    <3> QED BY <3>1, <3>5, <3>6 DEF Substitutions
  <2>3. ASSUME NEW n \in Substitutions(initial) PROVE n \in names
    <3>1. n \in Names /\ \E p \in DOMAIN initial : p.at = n
      BY DEF Substitutions
    <3>2. PICK p \in DOMAIN initial : p.at = n
      BY <3>1
    <3>3. \E r \in DOMAIN source : r.at = n
      BY <1>4, <1>5, <3>2
    <3> QED BY <3>1, <3>3 DEF Substitutions
  <2> QED BY <2>2, <2>3
<1>8. ASSUME l \notin DOMAIN locs PROVE DOMAIN initial \subseteq ExportPlaces(locs, l)
  <2>1. ExportShape(locs, l) = source
    BY <1>8, ExportedPlaces
  <2>2. ExportPlaces(locs, l) = DOMAIN RequiredShape(source, categories, FALSE)
    BY <2>1 DEF ExportPlaces, categories
  <2>3. \A p : p \in DOMAIN shape => p \in ShapePlaces(DOMAIN source, categories, FALSE)
    <3>1. DOMAIN source \in SUBSET Place /\ FALSE \in BOOLEAN
      BY <1>1
    <3> HIDE DEF shape, source
    <3> QED BY <1>2, <1>5, <3>1, ShapeMember
  <2>4. DOMAIN RequiredShape(source, categories, FALSE) = ShapePlaces(DOMAIN source, categories, FALSE)
    BY ShapeDomain
  <2> QED BY <1>4, <2>2, <2>3, <2>4
<1> QED BY <1>6, <1>7, <1>8 DEF initial


(* What a unit is put into: the locale, or what it would start from.       *)
Standing(locs, l, r) ==
    IF l \in DOMAIN r THEN r[l]
    ELSE IF Substitutions(Source(locs)) # {} THEN InitialLocale(locs, l)
    ELSE NoLocalization

(* The localizations r when the units in done have been applied to locs.   *)
Coming(locs, l, r, done) ==
    LET loc == Standing(locs, l, r)
        names == Substitutions(Source(locs))
        outside == {u \in done : ~InSubstitution(u.place)}
    IN  /\ AreLocalizations(r)
        /\ l \in DOMAIN r <=> l \in DOMAIN locs \/ done # {}
        /\ SourceLanguage \in DOMAIN r /\ r[SourceLanguage] = locs[SourceLanguage]
        /\ done = outside => DOMAIN loc \subseteq ExportPlaces(locs, l)
        /\ Substitutions(loc) = names /\ Referenced(loc) \subseteq names
        /\ l \in DOMAIN locs \/ outside # {} => Referenced(loc) = names

LEMMA Beginning ==
    ASSUME NEW k, NEW locs, NEW l \in Languages, NEW b, Returns(k, locs, l, b)
    PROVE  Coming(locs, l, locs, {})
<1> DEFINE loc == Standing(locs, l, locs)
           names == Substitutions(Source(locs))
<1>1. /\ AreLocalizations(locs) /\ SourceLanguage \in DOMAIN locs
  BY DEF Returns, SameSubstitutions
<1>2. CASE l \in DOMAIN locs
  <2>1. loc = locs[l] /\ WellFormed(loc) /\ Substitutions(loc) = names
        /\ DOMAIN loc \subseteq ExportPlaces(locs, l)
    BY <1>2, ExportedPlaces DEF Standing
  <2>2. Referenced(loc) = names
    BY <2>1 DEF WellFormed, ReferencesHold
  <2> QED BY <1>1, <1>2, <2>1, <2>2 DEF Coming
<1>3. CASE l \notin DOMAIN locs
  <2>1. CASE names = {}
    <3>1. loc = NoLocalization /\ DOMAIN loc = {}
      BY <1>3, <2>1 DEF Standing, NoLocalization
    <3>2. Substitutions(loc) = {} /\ Referenced(loc) = {}
      BY <3>1 DEF Substitutions, Referenced
    <3> QED BY <1>1, <1>3, <2>1, <3>1, <3>2 DEF Coming
  <2>2. CASE names # {}
    <3>1. loc = InitialLocale(locs, l)
      BY <1>3, <2>2 DEF Standing
    <3>2. /\ \A p \in DOMAIN loc : ~InSubstitution(p) => References(loc[p].text) \subseteq names
          /\ Substitutions(loc) = names /\ DOMAIN loc \subseteq ExportPlaces(locs, l)
      BY <1>3, <2>2, <3>1, InitialFacts
    <3>3. Referenced(loc) \subseteq names
      BY <3>2 DEF Referenced, InSubstitution
    <3> QED BY <1>1, <1>3, <3>2, <3>3 DEF Coming
  <2> QED BY <2>1, <2>2
<1> QED BY <1>2, <1>3

(* Each unit finds its place, and leaves what the next one needs.          *)
LEMMA NextComes ==
    ASSUME NEW k \in Keys, NEW locs, NEW l \in Languages, NEW b, Returns(k, locs, l, b),
           NEW r, NEW done, Coming(locs, l, r, done), NEW u \in Copies(k, locs, l, b),
           InSubstitution(u.place) \/ \A v \in done : ~InSubstitution(v.place)
    PROVE  CanImport(r, l, u) /\ Coming(locs, l, WithImported(r, l, u), done \cup {u})
<1> DEFINE loc == Standing(locs, l, r)
           names == Substitutions(Source(locs))
           outside == {v \in done : ~InSubstitution(v.place)}
           p == u.place
           full == RequiredShape(ExportShape(locs, l), Categories(l), FALSE)
           next == WithImported(r, l, u)
           after == Imported(r, l, u)
           initial == InitialLocale(locs, l)
<1>1. /\ AreLocalizations(r) /\ (l \in DOMAIN r <=> l \in DOMAIN locs \/ done # {})
      /\ SourceLanguage \in DOMAIN r /\ r[SourceLanguage] = locs[SourceLanguage]
      /\ done = outside => DOMAIN loc \subseteq ExportPlaces(locs, l)
      /\ Substitutions(loc) = names /\ Referenced(loc) \subseteq names
      /\ l \in DOMAIN locs \/ outside # {} => Referenced(loc) = names
  BY DEF Coming
<1>2. /\ DOMAIN full = ExportPlaces(locs, l) /\ DOMAIN full \subseteq Place /\ Unmixed(full)
      /\ InSubstitution(p) => p.at \in names
      /\ names # {} => Categories(l) # {}
      /\ Source(locs) = locs[SourceLanguage] /\ p \in DOMAIN full
  <2>1. /\ DOMAIN full = ExportPlaces(locs, l) /\ DOMAIN full \subseteq Place /\ Unmixed(full)
        /\ \A q \in DOMAIN full : InSubstitution(q) => q.at \in names
        /\ names # {} => Categories(l) # {}
        /\ Source(locs) = locs[SourceLanguage]
    BY ExportedPlaces
  <2>2. p \in ExportPlaces(locs, l)
    BY CopyFacts
  <2> HIDE DEF full, names, p
  <2> QED BY <2>1, <2>2
<1>3. /\ u.target \in Texts /\ u.target # NoText /\ u.state \in ImportableStates
      /\ u \in XliffUnit(Keys) /\ p \in Place
  BY CopyTarget
<1>4. References(Value(u)) = IF InSubstitution(p) THEN {} ELSE names
  <2>1. References(u.target) = IF InSubstitution(p) THEN {} ELSE names
    BY DEF Returns, Sound
  <2>2. InSubstitution(p) \in BOOLEAN
    BY DEF InSubstitution
  <2> QED BY <1>3, <2>1, <2>2, ExchangeAssumption DEF Value
<1>5. NeedsTemplate(u) <=> names # {}
  BY <1>2, <1>4 DEF NeedsTemplate
<1>6. /\ SourceBasis(r, Blank) = SourceBasis(locs, Blank) /\ SourceBasis(locs, Blank) = Source(locs)
      /\ InitialLocale(r, l) = initial
  <2>1. SourceLanguage \in DOMAIN locs
    BY DEF Returns, SameSubstitutions
  <2>2. SourceBasis(r, Blank) = SourceBasis(locs, Blank)
    BY <1>1, <2>1 DEF SourceBasis
  <2> QED BY <1>2, <2>1, <2>2 DEF SourceBasis, InitialLocale
<1>7. TemplateOf(r, l, u) = IF names # {} THEN initial ELSE NoLocalization
  BY <1>1, <1>5, <1>6 DEF TemplateOf
<1>8. ImportBase(r, l, u) = loc
  BY <1>7 DEF ImportBase, Standing
<1>9. CanInitialize(r)
  BY <1>6 DEF CanInitialize, Returns, Sound, WellFormed
<1>10. Reaches(loc, p) /\ Above(p) \cap DOMAIN loc = {}
  <2>1. CASE InSubstitution(p)
    BY <1>3, <2>1, PlaceFacts DEF Reaches, InSubstitution
  <2>2. CASE ~InSubstitution(p)
    <3>1. DOMAIN loc \subseteq DOMAIN full
      BY <1>1, <1>2, <2>2
    <3> HIDE DEF loc, full
    <3> QED BY <1>2, <3>1, ReachesAmong
  <2> QED BY <2>1, <2>2
<1>11. CanImport(r, l, u)
  BY <1>2, <1>5, <1>8, <1>9, <1>10 DEF CanImport
<1> HIDE DEF loc, full, initial
<1> DEFINE brought == Brought(r, l, u)
<1>12. /\ \A q \in brought : q = RootPlace /\ InSubstitution(p) /\ q \notin DOMAIN loc
                                /\ q \in DOMAIN initial /\ names # {}
       /\ brought \subseteq DOMAIN TemplateOf(r, l, u)
  <2>1. References(Value(u)) \ (Substitutions(loc) \cup {p.at}) = {}
    BY <1>1, <1>4
  <2>2. \A q \in brought :
            q = RootPlace /\ InSubstitution(p) /\ q \notin DOMAIN loc /\ q \in DOMAIN TemplateOf(r, l, u)
    BY <1>8, <2>1 DEF Brought
  <2> QED BY <1>7, <2>2 DEF NoLocalization
<1> HIDE DEF brought
<1>13. /\ DOMAIN after = DOMAIN loc \cup brought \cup {p}
       /\ after[p].text = Value(u)
       /\ \A q \in DOMAIN loc : q # p => after[q] = loc[q]
       /\ \A q \in brought : q # p => after[q] = initial[q]
  BY <1>7, <1>8, <1>10, <1>12 DEF Imported, brought
<1>14. /\ AreLocalizations(next) /\ DOMAIN next = DOMAIN r \cup {l} /\ next[l] = after
       /\ next[SourceLanguage] = locs[SourceLanguage]
  <2>1. AreLocalizations(next)
    BY <1>1, <1>3, ImportTyped
  <2> QED BY <1>1, <2>1, LocalesAssumption DEF WithImported
<1> HIDE DEF next, after
<1>15. ~InSubstitution(RootPlace)
  BY PlacesAssumption DEF RootPlace, InSubstitution
<1>16. Substitutions(after) = names
  <2>1. \A q \in brought : q.at \notin Names
    BY <1>12, <1>15 DEF InSubstitution
  <2>2. p.at \in Names => p.at \in names
    BY <1>2 DEF InSubstitution
  <2>3. \A n : n \in Substitutions(after) <=> n \in Substitutions(loc)
    BY <1>1, <1>13, <2>1, <2>2 DEF Substitutions
  <2> QED BY <1>1, <2>3
<1>17. Referenced(after) \subseteq names
  <2> SUFFICES ASSUME NEW q \in DOMAIN after, q.at \notin Names
               PROVE  References(after[q].text) \subseteq names
    BY DEF Referenced
  <2>1. CASE q = p
    BY <1>4, <1>13, <2>1
  <2>2. CASE q # p /\ q \in DOMAIN loc
    BY <1>1, <1>13, <2>2 DEF Referenced
  <2>3. CASE q # p /\ q \in brought
    <3>1. References(initial[q].text) \subseteq names
      BY <1>12, <1>15, <2>3, InitialFacts DEF initial
    <3> QED BY <1>13, <2>3, <3>1
  <2> QED BY <1>13, <2>1, <2>2, <2>3
<1>18. CASE InSubstitution(p)
  <2>1. Referenced(loc) \subseteq Referenced(after)
    <3>1. \A q \in DOMAIN loc : q.at \notin Names => q \in DOMAIN after /\ after[q] = loc[q]
      BY <1>13, <1>18 DEF InSubstitution
    <3> QED BY <3>1 DEF Referenced
  <2>2. {v \in done \cup {u} : ~InSubstitution(v.place)} = outside
    BY <1>18
  <2>3. done \cup {u} # outside
    BY <1>18
  <2>4. Standing(locs, l, next) = after
    BY <1>14 DEF Standing
  <2>5. l \in DOMAIN locs \/ outside # {} => Referenced(after) = names
    BY <1>1, <1>17, <2>1
  <2> HIDE DEF outside
  <2>6. Coming(locs, l, next, done \cup {u})
    BY <1>1, <1>14, <1>16, <1>17, <2>2, <2>3, <2>4, <2>5 DEF Coming
  <2> QED BY <1>11, <2>6 DEF next
<1>19. CASE ~InSubstitution(p)
  <2>1. Referenced(after) = names
    <3>1. p \in DOMAIN after /\ p.at \notin Names /\ References(after[p].text) = names
      BY <1>4, <1>13, <1>19 DEF InSubstitution
    <3>2. names \subseteq Referenced(after)
      BY <3>1 DEF Referenced
    <3> QED BY <1>17, <3>2
  <2>2. brought = {} /\ done = outside
    BY <1>12, <1>19
  <2>3. DOMAIN after \subseteq ExportPlaces(locs, l)
    BY <1>1, <1>2, <1>13, <2>2
  <2>4. Standing(locs, l, next) = after
    BY <1>14 DEF Standing
  <2>5. Coming(locs, l, next, done \cup {u})
    BY <1>1, <1>14, <1>16, <2>1, <2>3, <2>4 DEF Coming
  <2> QED BY <1>11, <2>5 DEF next
<1> QED BY <1>18, <1>19

(* A new locale gets a unit that refers to the substitutions.              *)
LEMMA NewHasOutside ==
    ASSUME NEW k \in Keys, NEW locs, NEW l \in Languages, NEW b, Returns(k, locs, l, b),
           l \notin DOMAIN locs
    PROVE  \E u \in Copies(k, locs, l, b) : ~InSubstitution(u.place)
<1> DEFINE source == Source(locs)
<1>1. ExportShape(locs, l) = source /\ DOMAIN source \subseteq ExportPlaces(locs, l)
  BY ExportedPlaces
<1>2. PICK p \in DOMAIN source : p.at \notin Names
  <2>1. Faults(source) = {} /\ Referenced(source) = Substitutions(source)
    BY DEF Returns, Sound, WellFormed, ReferencesHold
  <2>2. DOMAIN source # {}
    BY <2>1, FaultsMean
  <2>3. SUFFICES ASSUME \A p \in DOMAIN source : p.at \in Names PROVE FALSE
    OBVIOUS
  <2>4. Referenced(source) = {}
    BY <2>3 DEF Referenced
  <2>5. Substitutions(source) # {}
    BY <2>2, <2>3 DEF Substitutions
  <2> QED BY <2>1, <2>4, <2>5
<1>3. p \in UnitPlaces(locs, l, b)
  BY <1>1 DEF UnitPlaces, Skipped
<1>4. Copied(ExportUnit(k, locs, l, p)) \in Copies(k, locs, l, b)
  BY <1>3 DEF Copies, ExportUnits
<1> HIDE DEF source
<1>5. Copied(ExportUnit(k, locs, l, p)).place = p
  BY DEF Copied, ExportUnit
<1> QED BY <1>2, <1>4, <1>5 DEF InSubstitution

LEMMA CopiesFinite ==
    ASSUME NEW k, NEW locs, NEW l \in Languages, NEW b, Returns(k, locs, l, b)
    PROVE  IsFiniteSet(Copies(k, locs, l, b))
<1> DEFINE places == UnitPlaces(locs, l, b)
           us == Copies(k, locs, l, b)
           f == [p \in places |-> Copied(ExportUnit(k, locs, l, p))]
<1>1. places \subseteq Place
  BY ExportedPlaces DEF UnitPlaces
<1>2. IsFiniteSet(places)
  BY <1>1, FinitePlaces, FS_Subset
<1>3. us = {Copied(ExportUnit(k, locs, l, p)) : p \in places}
  BY DEF Copies, ExportUnits
<1>4. f \in Surjection(places, us)
  BY <1>3 DEF Surjection
<1> HIDE DEF f, us, places
<1>5. IsFiniteSet(us)
  BY <1>2, <1>4, FS_Surjection
<1> QED BY <1>5 DEF us

(* What is exported can be imported, for localizations of any shape.       *)
LEMMA CopiesImportable ==
    ASSUME NEW k \in Keys, NEW locs, NEW l \in Languages, NEW b, Returns(k, locs, l, b)
    PROVE  Importable(locs, l, Copies(k, locs, l, b))
<1> DEFINE us == Copies(k, locs, l, b)
           names == Substitutions(Source(locs))
<1>1. SUFFICES ASSUME NEW list \in InOrder(us)
               PROVE  LET after == After(locs, l, list)
                      IN  /\ \A i \in 1 .. Len(list) : CanImport(after[i - 1], l, list[i])
                          /\ list # <<>> => ReferencesHold(after[Len(list)][l])
  BY CopiesPlannable DEF Importable
<1> DEFINE N == Len(list)
           after == After(locs, l, list)
           Done(n) == {list[i] : i \in 1 .. n}
<1>2. /\ N \in Nat /\ (list = <<>> <=> N = 0)
      /\ \A i \in 1 .. N : list[i] \in us
      /\ \A u \in us : \E i \in 1 .. N : list[i] = u
      /\ \A i, j \in 1 .. N :
            i < j /\ InSubstitution(list[i].place) => InSubstitution(list[j].place)
  <2> HIDE DEF us
  <2>1. IsFiniteSet(us)
    BY CopiesFinite DEF us
  <2> QED BY <2>1, ListFacts
<1>3. after[0] = locs /\ \A i \in 1 .. N : after[i] = WithImported(after[i - 1], l, list[i])
  BY <1>2, AfterRuns
<1> HIDE DEF N, after
<1> DEFINE Good == {n \in Nat : n <= N => Coming(locs, l, after[n], Done(n))}
<1>4. ASSUME NEW n \in Nat, n + 1 <= N, Coming(locs, l, after[n], Done(n))
      PROVE  CanImport(after[n], l, list[n + 1]) /\ Coming(locs, l, after[n + 1], Done(n + 1))
  <2>1. /\ n + 1 \in 1 .. N /\ (n + 1) - 1 = n
        /\ \A i \in 1 .. n : i \in 1 .. N /\ i < n + 1
    BY <1>2, <1>4
  <2>2. Done(n + 1) = Done(n) \cup {list[n + 1]}
    <3>1. \A i \in 1 .. n + 1 : i \in 1 .. n \/ i = n + 1
      OBVIOUS
    <3>2. \A i \in 1 .. n : i \in 1 .. n + 1
      OBVIOUS
    <3> QED BY <2>1, <3>1, <3>2
  <2>3. InSubstitution(list[n + 1].place) \/ \A v \in Done(n) : ~InSubstitution(v.place)
    BY <1>2, <2>1
  <2>4. list[n + 1] \in us /\ after[n + 1] = WithImported(after[n], l, list[n + 1])
    BY <1>2, <1>3, <2>1
  <2> HIDE DEF Done
  <2>5. /\ CanImport(after[n], l, list[n + 1])
        /\ Coming(locs, l, WithImported(after[n], l, list[n + 1]), Done(n) \cup {list[n + 1]})
    BY <1>4, <2>3, <2>4, NextComes
  <2> QED BY <2>2, <2>4, <2>5
<1>5. Good = Nat
  <2>1. 0 \in Good
    <3>1. Done(0) = {}
      OBVIOUS
    <3> HIDE DEF Done
    <3> QED BY <1>3, <3>1, Beginning
  <2>2. ASSUME NEW n \in Good PROVE n + 1 \in Good
    <3>1. n \in Nat /\ n + 1 \in Nat /\ (n + 1 <= N => n <= N)
      BY <1>2
    <3> HIDE DEF Done
    <3> QED BY <1>4, <3>1
  <2>3. Good \subseteq Nat
    OBVIOUS
  <2> HIDE DEF Good
  <2> QED BY <2>1, <2>2, <2>3, SetInduction
<1>6. \A n \in 0 .. N : Coming(locs, l, after[n], Done(n))
  <2> HIDE DEF Done
  <2>1. \A n \in 0 .. N : n \in Nat /\ n <= N
    BY <1>2
  <2> QED BY <1>5, <2>1
<1>7. ASSUME NEW i \in 1 .. N PROVE CanImport(after[i - 1], l, list[i])
  <2>1. i - 1 \in Nat /\ i - 1 \in 0 .. N /\ (i - 1) + 1 = i /\ i <= N
    BY <1>2
  <2> HIDE DEF Done
  <2> QED BY <1>4, <1>6, <2>1
<1>8. ASSUME list # <<>> PROVE ReferencesHold(after[N][l])
  <2>1. Done(N) = us /\ us # {} /\ N \in 0 .. N
    BY <1>2, <1>8
  <2>2. Coming(locs, l, after[N], us)
    BY <1>6, <2>1
  <2>3. l \in DOMAIN locs \/ {u \in us : ~InSubstitution(u.place)} # {}
    BY NewHasOutside
  <2> HIDE DEF us, Done
  <2> QED BY <2>1, <2>2, <2>3 DEF Coming, Standing, ReferencesHold
<1> QED BY <1>7, <1>8 DEF N, after

(* ExportCanBeImported holds in every state: an export in the order of its *)
(* ids never finds its own places taken.                                   *)
THEOREM ExportsComeBack == Spec => []ExportCanBeImported
<1>1. IInv => ExportCanBeImported
  <2> SUFFICES ASSUME IInv, NEW k \in Keys, NEW l \in Languages, NEW b \in BOOLEAN,
                      SameSubstitutions(Effective(k), l), CanExport(Effective(k), l, b),
                      Sound(Effective(k), Copies(k, Effective(k), l, b))
               PROVE  Importable(Effective(k), l, Copies(k, Effective(k), l, b))
    BY DEF ExportCanBeImported, Copies
  <2>1. Returns(k, Effective(k), l, b)
    BY LoweredTyped DEF IInv, Returns
  <2> QED BY <2>1, CopiesImportable
<1> QED BY <1>1, Invariance, PTL
=============================================================================
