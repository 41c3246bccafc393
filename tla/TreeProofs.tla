----------------------------- MODULE TreeProofs -----------------------------
(***************************************************************************)
(* Lemmas about TranslationTree: the shapes that assessment and submission *)
(* make of a localization are localizations.  They begin with two facts    *)
(* about numbers.                                                          *)
(***************************************************************************)
EXTENDS TranslationTree, WellFoundedInduction, TLAPS

LEMMA LeastIndex ==
    ASSUME NEW S \in SUBSET Nat, S # {}
    PROVE  \E i \in S : \A j \in S : i <= j
<1>1. PICK i \in S : \A j \in S : <<j, i>> \notin OpToRel(<, Nat)
  BY WFMin, NatLessThanWellFounded, Zenon
<1>2. \A j \in S : ~(j < i)
  BY <1>1, Zenon DEF OpToRel
<1> QED BY <1>2

LEMMA SetInduction ==
    ASSUME NEW S, S \subseteq Nat, 0 \in S, \A n \in S : n + 1 \in S
    PROVE  S = Nat
<1>1. SUFFICES ASSUME Nat \ S # {} PROVE FALSE
  OBVIOUS
<1>2. PICK n \in Nat \ S : \A k \in Nat \ S : n <= k
  BY <1>1, LeastIndex
<1>3. n # 0 /\ n - 1 \in Nat /\ n - 1 < n /\ (n - 1) + 1 = n
  OBVIOUS
<1>4. n - 1 \in S
  BY <1>2, <1>3
<1> QED BY <1>3, <1>4

(* What is known of a unit of a localization.                              *)
LEMMA UnitFacts ==
    ASSUME NEW loc, IsLocalization(loc), NEW p \in DOMAIN loc
    PROVE  loc[p] \in Unit /\ p \in Place /\ loc[p].text \in Texts
BY DEF IsLocalization, Unit

(* The required shape of a localization is a localization.                 *)
LEMMA ShapeTyped ==
    ASSUME NEW loc, IsLocalization(loc), NEW categories \in SUBSET Plurals, NEW missing
    PROVE  IsLocalization(RequiredShape(loc, categories, missing))
<1> DEFINE kept == {p \in DOMAIN loc : missing /\ p.plural # Whole => p.plural \in categories}
           added == {[at |-> p.at, plural |-> c] :
                        p \in {q \in DOMAIN loc : q.plural # Whole}, c \in categories}
           shape == RequiredShape(loc, categories, missing)
<1>1. shape = [p \in kept \cup added |->
                IF p \in DOMAIN loc THEN loc[p]
                ELSE IF [p EXCEPT !.plural = AnyPlural] \in DOMAIN loc
                     THEN loc[[p EXCEPT !.plural = AnyPlural]] ELSE New(Blank)]
  BY DEF RequiredShape
<1>2. kept \subseteq Place /\ DOMAIN loc \subseteq Place
  BY DEF IsLocalization
<1>3. ASSUME NEW p \in Place, NEW c \in Plurals PROVE [at |-> p.at, plural |-> c] \in Place
  BY DEF Place
<1>4. added \subseteq Place
  BY <1>2, <1>3
<1>5. New(Blank) \in Unit
  BY TextsAssumption DEF New, Unit, States
<1>6. \A p \in DOMAIN loc : loc[p] \in Unit
  BY UnitFacts
<1> QED
  <2> HIDE DEF kept, added, shape
  <2>1. DOMAIN shape = kept \cup added
    BY <1>1
  <2>2. \A p \in kept \cup added : shape[p] \in Unit
    BY <1>1, <1>5, <1>6
  <2>3. shape \in [DOMAIN shape -> Unit]
    BY <1>1, <2>1, <2>2
  <2>4. IsLocalization(shape)
    BY <1>2, <1>4, <2>1, <2>3 DEF IsLocalization
  <2> QED BY <2>4 DEF shape

LEMMA BasisTyped ==
    ASSUME NEW locs, AreLocalizations(locs), NEW text \in Texts
    PROVE  IsLocalization(SourceBasis(locs, text)) /\ IsLocalization(Source(locs))
<1>1. RootPlace \in Place
  BY DEF RootPlace, Place
<1>2. New(text) \in Unit
  BY DEF New, Unit, States
<1>3. IsLocalization([p \in {RootPlace} |-> New(text)])
  BY <1>1, <1>2 DEF IsLocalization
<1>4. IsLocalization(NoLocalization)
  BY DEF IsLocalization, NoLocalization
<1> QED BY <1>3, <1>4 DEF SourceBasis, Source, AreLocalizations

LEMMA InitialTyped ==
    ASSUME NEW locs, AreLocalizations(locs), NEW l \in Locales
    PROVE  IsLocalization(InitialLocale(locs, l))
<1> DEFINE shape == RequiredShape(SourceBasis(locs, Blank), Categories(l), TRUE)
           text(p) == IF References(shape[p].text) = {} THEN Blank ELSE shape[p].text
<1>1. IsLocalization(shape)
  BY BasisTyped, ShapeTyped, LocalesAssumption, TextsAssumption
<1>2. InitialLocale(locs, l) = [p \in DOMAIN shape |-> New(text(p))]
  BY DEF InitialLocale
<1>3. \A p \in DOMAIN shape : New(text(p)) \in Unit
  <2> HIDE DEF shape
  <2>1. \A p \in DOMAIN shape : shape[p].text \in Texts
    BY <1>1, UnitFacts
  <2>2. \A p \in DOMAIN shape : text(p) \in Texts
    BY <2>1, TextsAssumption
  <2> QED BY <2>2 DEF New, Unit, States
<1> QED
  <2> HIDE DEF shape, text
  <2> QED BY <1>1, <1>2, <1>3 DEF IsLocalization

-----------------------------------------------------------------------------
(* Shapes.                                                                 *)

(* No unit beside variations, and no two axes in one place.                *)
Unmixed(loc) ==
    /\ \A at \in {Root} \cup Devices :
            [at |-> at, plural |-> Whole] \in DOMAIN loc => ~Varied(loc, at)
    /\ ~(HasPlural(loc, Root) /\ HasDevice(loc))

LEMMA FaultsMean ==
    ASSUME NEW loc
    PROVE  Faults(loc) = {} <=> DOMAIN loc # {} /\ Unmixed(loc)
BY DEF Faults, Unmixed

LEMMA PlaceFacts ==
    ASSUME NEW p \in Place
    PROVE  /\ p = [at |-> p.at, plural |-> p.plural]
           /\ p.at \in {Root} \cup Devices \cup Names /\ p.plural \in {Whole} \cup Plurals
           /\ p.at \in Names => p.plural # Whole /\ p.at # Root /\ p.at \notin Devices
           /\ p.at \notin Names => Above(p) = {RootPlace, [at |-> p.at, plural |-> Whole]} \ {p}
           /\ p.at \in Names => Above(p) = {}
           /\ \A c \in Plurals : [p EXCEPT !.plural = c] \in Place
           /\ \A q \in Place : p.at = q.at /\ p.plural = q.plural => p = q
BY PlacesAssumption DEF Place, Above

(* The places of the shape made of some places.                            *)
ShapePlaces(places, categories, missing) ==
    {p \in places : missing /\ p.plural # Whole => p.plural \in categories}
    \cup {[at |-> p.at, plural |-> c] :
            p \in {q \in places : q.plural # Whole}, c \in categories}

LEMMA ShapeDomain ==
    ASSUME NEW basis, NEW categories, NEW missing
    PROVE  DOMAIN RequiredShape(basis, categories, missing)
                = ShapePlaces(DOMAIN basis, categories, missing)
BY DEF RequiredShape, ShapePlaces

LEMMA ShapeMember ==
    ASSUME NEW places \in SUBSET Place, NEW categories \in SUBSET Plurals, NEW missing \in BOOLEAN,
           NEW p
    PROVE  p \in ShapePlaces(places, categories, missing) <=>
                /\ p \in Place
                /\ \/ p \in places /\ (missing /\ p.plural # Whole => p.plural \in categories)
                   \/ p.plural \in categories /\ \E q \in places : q.at = p.at /\ q.plural # Whole
<1>1. ASSUME NEW q \in places, q.plural # Whole, NEW c \in categories,
             p = [at |-> q.at, plural |-> c]
      PROVE  p \in Place /\ p.at = q.at /\ p.plural = c
  <2>1. p = [q EXCEPT !.plural = c]
    BY <1>1, PlaceFacts
  <2> QED BY <1>1, <2>1, PlaceFacts
<1>2. ASSUME p \in Place, p.plural \in categories, NEW q \in places, q.at = p.at, q.plural # Whole
      PROVE  p \in {[at |-> x.at, plural |-> c] :
                        x \in {y \in places : y.plural # Whole}, c \in categories}
  <2>1. p = [at |-> q.at, plural |-> p.plural]
    BY <1>2, PlaceFacts
  <2> QED BY <1>2, <2>1
<1> QED BY <1>1, <1>2 DEF ShapePlaces

(* A shape is varied only where its basis is.                              *)
LEMMA ShapeUnmixed ==
    ASSUME NEW loc, DOMAIN loc \subseteq Place, NEW categories \in SUBSET Plurals,
           NEW missing \in BOOLEAN
    PROVE  LET shape == RequiredShape(loc, categories, missing)
           IN  /\ Unmixed(loc) => Unmixed(shape)
               /\ \A p \in DOMAIN shape : (\A q \in DOMAIN loc : Supported(q)) => Supported(p)
               /\ ~missing => DOMAIN loc \subseteq DOMAIN shape
<1> DEFINE shape == RequiredShape(loc, categories, missing)
<1>1. \A p : p \in DOMAIN shape <=>
                /\ p \in Place
                /\ \/ p \in DOMAIN loc /\ (missing /\ p.plural # Whole => p.plural \in categories)
                   \/ p.plural \in categories /\ \E q \in DOMAIN loc : q.at = p.at /\ q.plural # Whole
  BY ShapeDomain, ShapeMember
<1> HIDE DEF shape
<1>2. Whole \notin categories
  BY PlacesAssumption
<1>3. \A at : HasPlural(shape, at) => HasPlural(loc, at)
  BY <1>1 DEF HasPlural
<1>4. HasDevice(shape) => HasDevice(loc)
  BY <1>1 DEF HasDevice
<1>5. \A at : [at |-> at, plural |-> Whole] \in DOMAIN shape
                => [at |-> at, plural |-> Whole] \in DOMAIN loc
  BY <1>1, <1>2
<1>6. Unmixed(loc) => Unmixed(shape)
  BY <1>3, <1>4, <1>5 DEF Unmixed, Varied
<1>7. ASSUME \A q \in DOMAIN loc : Supported(q), NEW p \in DOMAIN shape PROVE Supported(p)
  BY <1>1, <1>2, <1>7 DEF Supported
<1> QED BY <1>1, <1>6, <1>7 DEF shape

(* The places of one request: one, or categories of one axis of plurals.   *)
RequestPlaces(places) ==
    /\ places \subseteq Place /\ places # {}
    /\ \/ \E p \in Place : places = {p}
       \/ \A p, q \in places : p.at = q.at /\ p.at \notin Devices /\ p.plural # Whole

LEMMA PutUnmixed ==
    ASSUME NEW loc, DOMAIN loc \subseteq Place, Unmixed(loc), NEW texts,
           RequestPlaces(DOMAIN texts),
           NEW source, \A p \in DOMAIN texts : Writable(loc, source, p)
    PROVE  Faults(Put(loc, texts)) = {}
<1> DEFINE after == Put(loc, texts)
           T == DOMAIN texts
           Plain(at) == [at |-> at, plural |-> Whole]
<1>1. \A q : q \in DOMAIN after <=>
                q \in T \/ (q \in DOMAIN loc /\ \A p \in T : q \notin Above(p))
  BY DEF Put
<1>2. PICK p \in T : p \in Place /\ Writable(loc, source, p)
  BY DEF RequestPlaces
<1>3. /\ \A q \in T : q.at = p.at /\ (q # p => q.plural # Whole /\ p.plural # Whole)
      /\ p.at \in Devices => T = {p}
      /\ p.plural = Whole => T = {p}
  <2>1. CASE \E x \in Place : T = {x}
    <3>1. T = {p}
      BY <1>2, <2>1
    <3> HIDE DEF T
    <3> QED BY <3>1
  <2>2. CASE \A x, y \in T : x.at = y.at /\ x.at \notin Devices /\ x.plural # Whole
    <3> HIDE DEF T
    <3> QED BY <1>2, <2>2
  <2> QED BY <2>1, <2>2 DEF RequestPlaces
<1> HIDE DEF after, T
<1>4. \A at : Plain(at) \in DOMAIN after /\ Plain(at) \notin T => Plain(at) \in DOMAIN loc
  BY <1>1
<1>5. \A at : HasPlural(after, at) => HasPlural(loc, at) \/ (at = p.at /\ p.plural # Whole)
  BY <1>1, <1>3 DEF HasPlural
<1>6. HasDevice(after) => HasDevice(loc) \/ p.at \in Devices
  BY <1>1, <1>3 DEF HasDevice
<1>7. \A at : Plain(at) \in T => at = p.at /\ p.plural = Whole
  <2>1. \A at : Plain(at).at = at /\ Plain(at).plural = Whole
    OBVIOUS
  <2> HIDE DEF Plain
  <2> QED BY <1>3, <2>1
<1>8. RootPlace = Plain(Root)
  BY DEF RootPlace
<1>9. CASE p.at \in Names
  <2>1. \A at \in {Root} \cup Devices : at # p.at
    BY <1>9, PlacesAssumption
  <2>2. Unmixed(after)
    BY <1>4, <1>5, <1>6, <1>7, <1>9, <2>1, PlacesAssumption DEF Unmixed, Varied
  <2> QED BY <1>1, <1>2, <2>2, FaultsMean DEF after
<1>10. CASE p.at = Root /\ p.plural = Whole
  <2>1. ~Varied(loc, Root)
    BY <1>2, <1>10, PlacesAssumption DEF Writable
  <2>2. Unmixed(after)
    BY <1>4, <1>5, <1>6, <1>7, <1>10, <2>1, PlacesAssumption DEF Unmixed, Varied
  <2> QED BY <1>1, <1>2, <2>2, FaultsMean DEF after
<1>11. CASE p.at = Root /\ p.plural # Whole
  <2>1. ~HasDevice(loc)
    BY <1>2, <1>11, PlacesAssumption DEF Writable
  <2>2. RootPlace \in Above(p) /\ RootPlace \notin T
    BY <1>2, <1>3, <1>7, <1>8, <1>11, PlaceFacts, PlacesAssumption
  <2>3. RootPlace \notin DOMAIN after
    BY <1>1, <1>2, <2>2
  <2>4. Unmixed(after)
    BY <1>4, <1>5, <1>6, <1>7, <1>8, <1>11, <2>1, <2>3, PlacesAssumption DEF Unmixed, Varied
  <2> QED BY <1>1, <1>2, <2>4, FaultsMean DEF after
<1>12. CASE p.at \in Devices
  <2>1. /\ ~HasPlural(loc, Root) /\ p.at # Root /\ p.at \notin Names
        /\ p.plural = Whole => ~HasPlural(loc, p.at)
    BY <1>2, <1>12, PlacesAssumption DEF Writable, Varied
  <2>2. /\ RootPlace \in Above(p) /\ RootPlace \notin T
        /\ p.plural # Whole => Plain(p.at) \in Above(p) /\ Plain(p.at) \notin T
    <3>1. RootPlace # p
      BY <1>12, <2>1 DEF RootPlace
    <3>2. p.plural # Whole => Plain(p.at) # p
      OBVIOUS
    <3> QED BY <1>2, <1>3, <1>12, <2>1, <3>1, <3>2, PlaceFacts
  <2>3. RootPlace \notin DOMAIN after /\ (p.plural # Whole => Plain(p.at) \notin DOMAIN after)
    BY <1>1, <1>2, <2>2
  <2>4. \A at \in Devices : Plain(at) \in DOMAIN after => ~HasPlural(after, at)
    <3> TAKE at \in Devices
    <3>1. CASE at # p.at
      BY <1>4, <1>5, <1>7, <3>1, PlacesAssumption DEF Unmixed, Varied
    <3>2. CASE at = p.at
      BY <1>5, <2>1, <2>3, <3>2
    <3> QED BY <3>1, <3>2
  <2>5. ~HasPlural(after, Root)
    BY <1>5, <2>1
  <2>6. Unmixed(after)
    BY <1>8, <2>3, <2>4, <2>5, PlacesAssumption DEF Unmixed, Varied
  <2> QED BY <1>1, <1>2, <2>6, FaultsMean DEF after
<1> QED BY <1>2, <1>9, <1>10, <1>11, <1>12, PlaceFacts

-----------------------------------------------------------------------------
(* Diagnostics and lists after one request is staged.                      *)

(* What is known of a locale depends on its basis and on whether it is     *)
(* there.                                                                  *)
LEMMA OfTheBasis ==
    ASSUME NEW locs, NEW after, NEW m, m \in DOMAIN after <=> m \in DOMAIN locs,
           Basis(after, m) = Basis(locs, m)
    PROVE  Advertised(after, m) = Advertised(locs, m) /\ (Clean(after, m) <=> Clean(locs, m))
<1>1. Advertised(after, m) = Advertised(locs, m)
  BY DEF Advertised
<1> QED BY <1>1 DEF Clean

(* Other locales do not see a submission.                                  *)
LEMMA OthersStandStill ==
    ASSUME NEW locs, NEW l, NEW texts, l # SourceLanguage, NEW m, m # l
    PROVE  LET after == Staged(locs, l, texts)
           IN  Advertised(after, m) = Advertised(locs, m) /\ (Clean(after, m) <=> Clean(locs, m))
<1> DEFINE after == Staged(locs, l, texts)
<1>1. \A k : k # l => (k \in DOMAIN after <=> k \in DOMAIN locs)
                   /\ (k \in DOMAIN locs => after[k] = locs[k])
  BY DEF Staged
<1> HIDE DEF after
<1>2. Basis(after, m) = Basis(locs, m)
  BY <1>1 DEF Basis, SourceBasis
<1>3. Advertised(after, m) = Advertised(locs, m) /\ (Clean(after, m) <=> Clean(locs, m))
  BY <1>1, <1>2, OfTheBasis
<1> QED BY <1>3 DEF after

LEMMA CleanLocale ==
    ASSUME NEW locs, NEW m \in Locales, m \in DOMAIN locs, DOMAIN locs[m] \subseteq Place
    PROVE  Clean(locs, m) <=>
                /\ Categories(m) # {} /\ Faults(locs[m]) = {} /\ ReferencesHold(locs[m])
                /\ \A p \in DOMAIN locs[m] : Supported(p)
<1>1. Basis(locs, m) = locs[m]
  BY DEF Basis
<1>2. Advertised(locs, m) = DOMAIN RequiredShape(locs[m], Categories(m), FALSE)
  BY <1>1 DEF Advertised
<1>3. Categories(m) \in SUBSET Plurals
  BY LocalesAssumption
<1>4. (\A p \in Advertised(locs, m) : Supported(p)) <=> \A p \in DOMAIN locs[m] : Supported(p)
  BY <1>2, <1>3, ShapeUnmixed
<1> QED BY <1>1, <1>4 DEF Clean

(* A new locale has the axes of its source, one in each place.             *)
LEMMA InitialUnmixed ==
    ASSUME NEW locs, AreLocalizations(locs), NEW m \in Locales, CanInitialize(locs)
    PROVE  /\ DOMAIN InitialLocale(locs, m) \subseteq Place
           /\ Unmixed(InitialLocale(locs, m))
           /\ \A p \in DOMAIN InitialLocale(locs, m) : Supported(p)
<1> DEFINE basis == SourceBasis(locs, Blank)
           shape == RequiredShape(basis, Categories(m), TRUE)
           start == InitialLocale(locs, m)
<1>1. DOMAIN start = DOMAIN shape
  BY DEF InitialLocale
<1>2. IsLocalization(basis) /\ Faults(basis) = {} /\ \A p \in DOMAIN basis : Supported(p)
  BY BasisTyped, TextsAssumption DEF CanInitialize
<1> HIDE DEF basis, start
<1>3. Categories(m) \in SUBSET Plurals
  BY LocalesAssumption
<1>4. DOMAIN basis \subseteq Place /\ IsLocalization(shape)
  BY <1>2, <1>3, ShapeTyped DEF IsLocalization
<1>5. Unmixed(shape) /\ \A p \in DOMAIN shape : Supported(p)
  BY <1>2, <1>3, <1>4, ShapeUnmixed, FaultsMean
<1> HIDE DEF shape
<1>6. Unmixed(start)
  BY <1>1, <1>5 DEF Unmixed, Varied, HasPlural, HasDevice
<1> QED BY <1>1, <1>4, <1>5, <1>6 DEF start, IsLocalization

(* What a request is staged on has no fault but perhaps that it is empty.  *)
LEMMA StartUnmixed ==
    ASSUME NEW locs, AreLocalizations(locs), NEW l \in Languages, NEW texts,
           CanStage(locs, l, texts), Clean(locs, l)
    PROVE  LET start == StagedOn(locs, l, DOMAIN texts)
           IN  /\ DOMAIN start \subseteq Place /\ Unmixed(start)
               /\ \A p \in DOMAIN start : Supported(p)
<1> DEFINE start == StagedOn(locs, l, DOMAIN texts)
<1>1. l \in Locales /\ Categories(l) \in SUBSET Plurals
  BY LocalesAssumption DEF Locales
<1>2. CASE l \in DOMAIN locs
  <2>1. start = locs[l]
    BY <1>2 DEF StagedOn
  <2>2. DOMAIN locs[l] \subseteq Place
    BY <1>2 DEF AreLocalizations, IsLocalization
  <2>3. Faults(locs[l]) = {} /\ \A p \in DOMAIN locs[l] : Supported(p)
    BY <1>1, <1>2, <2>2, CleanLocale
  <2> QED BY <2>1, <2>2, <2>3, FaultsMean
<1>3. CASE l \notin DOMAIN locs /\ NeedsShape(locs, DOMAIN texts)
  <2>1. start = InitialLocale(locs, l) /\ CanInitialize(locs)
    BY <1>3 DEF StagedOn, CanStage
  <2> QED BY <1>1, <2>1, InitialUnmixed
<1>4. CASE l \notin DOMAIN locs /\ ~NeedsShape(locs, DOMAIN texts)
  <2>1. DOMAIN start = {}
    BY <1>4 DEF StagedOn, NoLocalization
  <2> HIDE DEF start
  <2> QED BY <2>1 DEF start, Unmixed, Varied, HasPlural, HasDevice
<1> QED BY <1>2, <1>3, <1>4

(* A locale without diagnostics has none after a request was staged.       *)
LEMMA StagedClean ==
    ASSUME NEW locs, AreLocalizations(locs), NEW l \in Languages, NEW texts,
           RequestPlaces(DOMAIN texts), \A p \in DOMAIN texts : Supported(p),
           CanStage(locs, l, texts), NEW m \in Languages, Clean(locs, m)
    PROVE  Clean(Staged(locs, l, texts), m)
<1> DEFINE after == Staged(locs, l, texts)
           start == StagedOn(locs, l, DOMAIN texts)
<1>1. l \in Locales /\ l # SourceLanguage
  BY LocalesAssumption DEF Locales
<1>2. CASE m # l
  BY <1>1, <1>2, OthersStandStill
<1>3. CASE m = l
  <2>1. /\ DOMAIN start \subseteq Place /\ Unmixed(start)
        /\ \A p \in DOMAIN start : Supported(p)
    BY <1>3, StartUnmixed
  <2>2. /\ \A p \in DOMAIN texts : Writable(start, Source(locs), p)
        /\ ReferencesHold(Put(start, texts))
    BY DEF CanStage
  <2>3. DOMAIN Put(start, texts) \subseteq DOMAIN start \cup DOMAIN texts
    BY DEF Put
  <2>4. l \in DOMAIN after /\ after[l] = Put(start, texts)
    BY DEF Staged
  <2> HIDE DEF start, after
  <2>5. Faults(Put(start, texts)) = {}
    BY <2>1, <2>2, PutUnmixed
  <2>6. DOMAIN after[l] \subseteq Place /\ \A p \in DOMAIN after[l] : Supported(p)
    BY <2>1, <2>3, <2>4 DEF RequestPlaces
  <2>7. Categories(l) # {}
    BY <1>3 DEF Clean
  <2>8. Clean(after, l)
    BY <1>1, <2>2, <2>4, <2>5, <2>6, <2>7, CleanLocale
  <2> QED BY <1>3, <2>8 DEF after
<1> QED BY <1>2, <1>3

-----------------------------------------------------------------------------
(* The list of a locale that is there: its places, and the categories its  *)
(* plurals lack.                                                           *)
LEMMA ListMember ==
    ASSUME NEW locs, NEW m \in Locales, m \in DOMAIN locs, DOMAIN locs[m] \subseteq Place, NEW p
    PROVE  p \in Advertised(locs, m) <=>
                /\ p \in Place
                /\ \/ p \in DOMAIN locs[m]
                   \/ /\ p.plural \in Categories(m)
                      /\ \E q \in DOMAIN locs[m] : q.at = p.at /\ q.plural # Whole
<1>1. Advertised(locs, m) = ShapePlaces(DOMAIN locs[m], Categories(m), FALSE)
  BY ShapeDomain DEF Advertised, Basis
<1>2. Categories(m) \in SUBSET Plurals
  BY LocalesAssumption
<1>3. p \in ShapePlaces(DOMAIN locs[m], Categories(m), FALSE) <=>
        /\ p \in Place
        /\ \/ p \in DOMAIN locs[m]
           \/ /\ p.plural \in Categories(m)
              /\ \E q \in DOMAIN locs[m] : q.at = p.at /\ q.plural # Whole
  <2> DEFINE places == DOMAIN locs[m]
             categories == Categories(m)
  <2>1. places \in SUBSET Place /\ categories \in SUBSET Plurals /\ FALSE \in BOOLEAN
    BY <1>2
  <2> HIDE DEF places, categories
  <2>2. p \in ShapePlaces(places, categories, FALSE) <=>
            /\ p \in Place
            /\ \/ p \in places /\ (FALSE /\ p.plural # Whole => p.plural \in categories)
               \/ p.plural \in categories /\ \E q \in places : q.at = p.at /\ q.plural # Whole
    BY <2>1, ShapeMember
  <2> QED BY <2>2 DEF places, categories
<1> QED BY <1>1, <1>3

(* That of a missing one: what it would be initialized with.               *)
LEMMA MissingListMember ==
    ASSUME NEW locs, AreLocalizations(locs), NEW m \in Locales, m \notin DOMAIN locs, NEW p
    PROVE  LET basis == SourceBasis(locs, KeyText)
           IN  /\ DOMAIN basis \subseteq Place
               /\ Advertised(locs, m) = DOMAIN InitialLocale(locs, m)
               /\ p \in Advertised(locs, m) <=>
                    /\ p \in Place
                    /\ \/ p \in DOMAIN basis /\ (p.plural # Whole => p.plural \in Categories(m))
                       \/ /\ p.plural \in Categories(m)
                          /\ \E q \in DOMAIN basis : q.at = p.at /\ q.plural # Whole
<1> DEFINE basis == SourceBasis(locs, KeyText)
<1>1. DOMAIN basis = DOMAIN SourceBasis(locs, Blank)
  BY DEF SourceBasis
<1>2. Basis(locs, m) = basis
  BY DEF Basis
<1>3. DOMAIN InitialLocale(locs, m) = ShapePlaces(DOMAIN SourceBasis(locs, Blank), Categories(m), TRUE)
  BY ShapeDomain DEF InitialLocale
<1>4. DOMAIN basis \subseteq Place
  BY BasisTyped, TextsAssumption DEF IsLocalization
<1> HIDE DEF basis
<1>5. Advertised(locs, m) = ShapePlaces(DOMAIN basis, Categories(m), TRUE)
  BY <1>2, ShapeDomain DEF Advertised
<1>6. Categories(m) \in SUBSET Plurals
  BY LocalesAssumption
<1> DEFINE categories == Categories(m)
<1> HIDE DEF categories
<1>7. p \in ShapePlaces(DOMAIN basis, categories, TRUE) <=>
        /\ p \in Place
        /\ \/ p \in DOMAIN basis /\ (TRUE /\ p.plural # Whole => p.plural \in categories)
           \/ /\ p.plural \in categories
              /\ \E q \in DOMAIN basis : q.at = p.at /\ q.plural # Whole
  <2> DEFINE places == DOMAIN basis
  <2>1. places \in SUBSET Place /\ categories \in SUBSET Plurals /\ TRUE \in BOOLEAN
    BY <1>4, <1>6 DEF categories
  <2> HIDE DEF places
  <2>2. p \in ShapePlaces(places, categories, TRUE) <=>
            /\ p \in Place
            /\ \/ p \in places /\ (TRUE /\ p.plural # Whole => p.plural \in categories)
               \/ p.plural \in categories /\ \E q \in places : q.at = p.at /\ q.plural # Whole
    BY <2>1, ShapeMember
  <2> QED BY <2>2 DEF places
<1> QED BY <1>1, <1>3, <1>4, <1>5, <1>7 DEF basis, categories

(* The list of a locale follows from its places.                           *)
LEMMA SameListFromPlaces ==
    ASSUME NEW locs, NEW after, NEW m, m \in DOMAIN locs, m \in DOMAIN after,
           DOMAIN after[m] = DOMAIN locs[m]
    PROVE  Advertised(after, m) = Advertised(locs, m)
BY ShapeDomain DEF Advertised, Basis

(* A new locale has all the places that were listed for it, and no other   *)
(* are listed once it is there.                                            *)
LEMMA InitialList ==
    ASSUME NEW locs, AreLocalizations(locs), NEW m \in Locales, m \notin DOMAIN locs,
           NEW after, m \in DOMAIN after, DOMAIN after[m] = DOMAIN InitialLocale(locs, m)
    PROVE  Advertised(after, m) = Advertised(locs, m)
<1> DEFINE list == Advertised(locs, m)
<1>1. list = DOMAIN after[m]
  BY MissingListMember
<1>2. \A p \in list : p \in Place
  BY MissingListMember
<1>3. \A p \in Place, q \in list :
        q.at = p.at /\ q.plural # Whole /\ p.plural \in Categories(m) => p \in list
  BY MissingListMember
<1> HIDE DEF list
<1>4. \A p : p \in Advertised(after, m) <=> p \in list
  BY <1>1, <1>2, <1>3, ListMember
<1> QED BY <1>4 DEF list

(* Texts for listed places of a well-formed localization displace nothing. *)
LEMMA ListedPut ==
    ASSUME NEW loc, DOMAIN loc \subseteq Place, Unmixed(loc), NEW texts,
           \A p \in DOMAIN texts :
                /\ p \in Place
                /\ \/ p \in DOMAIN loc
                   \/ p.plural # Whole /\ \E q \in DOMAIN loc : q.at = p.at /\ q.plural # Whole
    PROVE  DOMAIN Put(loc, texts) = DOMAIN loc \cup DOMAIN texts
<1>1. ASSUME NEW p \in DOMAIN texts, NEW q \in DOMAIN loc, q \in Above(p)
      PROVE  FALSE
  <2>1. p \in Place /\ p.at \notin Names
    BY <1>1, PlaceFacts
  <2>2. p.at = Root \/ p.at \in Devices
    BY <2>1, PlaceFacts
  <2>3. q # p /\ (q = RootPlace \/ q = [at |-> p.at, plural |-> Whole])
    BY <1>1, <2>1, PlaceFacts
  <2>4. PICK x \in DOMAIN loc : x.at = p.at /\ (p.plural # Whole => x.plural # Whole)
    BY <1>1
  <2>5. CASE p.plural # Whole
    <3>1. HasPlural(loc, p.at)
      BY <2>4, <2>5 DEF HasPlural
    <3>2. CASE q = [at |-> p.at, plural |-> Whole]
      BY <1>1, <2>2, <3>1, <3>2 DEF Unmixed, Varied
    <3>3. CASE q = RootPlace
      <4>1. [at |-> Root, plural |-> Whole] \in DOMAIN loc
        BY <1>1, <3>3 DEF RootPlace
      <4>2. ~HasPlural(loc, Root) /\ ~HasDevice(loc)
        BY <4>1 DEF Unmixed, Varied
      <4> QED BY <2>2, <2>4, <3>1, <4>2 DEF HasDevice
    <3> QED BY <2>3, <3>2, <3>3
  <2>6. CASE p.plural = Whole
    <3>1. p = [at |-> p.at, plural |-> Whole]
      BY <2>1, <2>6, PlaceFacts
    <3>2. q = RootPlace /\ p.at # Root
      BY <2>3, <3>1 DEF RootPlace
    <3>3. HasDevice(loc)
      BY <2>2, <2>4, <3>2 DEF HasDevice
    <3>4. [at |-> Root, plural |-> Whole] \in DOMAIN loc
      BY <1>1, <3>2 DEF RootPlace
    <3> QED BY <3>3, <3>4 DEF Unmixed, Varied
  <2> QED BY <2>5, <2>6
<1> QED BY <1>1 DEF Put

(* A place of a well-formed localization, or a category its plurals lack,  *)
(* can be written, and nothing stands above it.                            *)
LEMMA ListedWritable ==
    ASSUME NEW loc, DOMAIN loc \subseteq Place, Unmixed(loc), NEW source, NEW p \in Place,
           \/ p \in DOMAIN loc
           \/ p.plural # Whole /\ \E q \in DOMAIN loc : q.at = p.at /\ q.plural # Whole
    PROVE  /\ Writable(loc, source, p)
           /\ Above(p) \cap DOMAIN loc = {}
           /\ p.at \in Names => p.at \in Substitutions(loc)
<1>1. Above(p) \cap DOMAIN loc = {}
  <2> DEFINE texts == [q \in {p} |-> Blank]
  <2>1. DOMAIN texts = {p}
    OBVIOUS
  <2> HIDE DEF texts
  <2>2. DOMAIN Put(loc, texts) = DOMAIN loc \cup {p}
    <3>1. \A x \in DOMAIN texts :
            /\ x \in Place
            /\ \/ x \in DOMAIN loc
               \/ x.plural # Whole /\ \E q \in DOMAIN loc : q.at = x.at /\ q.plural # Whole
      BY <2>1
    <3>2. DOMAIN Put(loc, texts) = DOMAIN loc \cup DOMAIN texts
      BY <3>1, ListedPut
    <3> QED BY <2>1, <3>2
  <2>3. DOMAIN Put(loc, texts) = (DOMAIN loc \ Above(p)) \cup {p}
    BY <2>1 DEF Put
  <2>4. p \notin Above(p)
    BY DEF Above
  <2> QED BY <2>2, <2>3, <2>4
<1>2. p.at = Root /\ p.plural # Whole => ~HasDevice(loc)
  BY DEF Unmixed, HasPlural
<1>3. p.at \in Devices => ~HasPlural(loc, Root)
  BY DEF Unmixed, HasDevice
<1>4. p.at \notin Names /\ p.plural = Whole => ~Varied(loc, p.at)
  BY PlaceFacts DEF Unmixed
<1>5. p.at \in Names => p.at \in Substitutions(loc)
  BY DEF Substitutions
<1> QED BY <1>1, <1>2, <1>3, <1>4, <1>5 DEF Writable

(* The references of a localization still hold when one of its texts is    *)
(* replaced or a category added, if the new text has all of them.          *)
LEMMA PutReferences ==
    ASSUME NEW loc, NEW p \in Place, NEW text, ReferencesHold(loc), Above(p) \cap DOMAIN loc = {},
           IF p.at \in Names THEN p.at \in Substitutions(loc)
           ELSE References(text) = Substitutions(loc)
    PROVE  ReferencesHold(Put(loc, [q \in {p} |-> text]))
<1> DEFINE texts == [q \in {p} |-> text]
           after == Put(loc, texts)
<1>1. /\ DOMAIN after = DOMAIN loc \cup {p} /\ after[p].text = text
      /\ \A q \in DOMAIN loc \ {p} : after[q] = loc[q]
  BY DEF Put
<1> HIDE DEF after
<1>2. Substitutions(after) = Substitutions(loc)
  BY <1>1 DEF Substitutions
<1>3. Referenced(loc) = Substitutions(loc)
  BY DEF ReferencesHold
<1>4. CASE p.at \in Names
  <2>1. {q \in DOMAIN after : q.at \notin Names} = {q \in DOMAIN loc : q.at \notin Names}
    BY <1>1, <1>4
  <2>2. \A q \in {x \in DOMAIN loc : x.at \notin Names} : after[q] = loc[q]
    BY <1>1, <1>4
  <2>3. Referenced(after) = Referenced(loc)
    BY <2>1, <2>2 DEF Referenced
  <2> QED BY <1>2, <1>3, <2>3 DEF ReferencesHold, after
<1>5. CASE p.at \notin Names
  <2>1. References(after[p].text) = Substitutions(loc)
    BY <1>1, <1>5
  <2>2. \A q \in DOMAIN after : q.at \notin Names /\ q # p => References(after[q].text) \subseteq Referenced(loc)
    BY <1>1 DEF Referenced
  <2>3. Referenced(after) = Substitutions(loc)
    <3>1. \A n : n \in Referenced(after) <=>
                \E q \in DOMAIN after : q.at \notin Names /\ n \in References(after[q].text)
      BY DEF Referenced
    <3>2. \A n \in Referenced(after) : n \in Substitutions(loc)
      BY <1>3, <2>1, <2>2, <3>1
    <3>3. \A n \in Substitutions(loc) : n \in Referenced(after)
      BY <1>1, <1>5, <2>1, <3>1
    <3> QED BY <3>2, <3>3
  <2> QED BY <1>2, <2>3 DEF ReferencesHold, after
<1> QED BY <1>4, <1>5

(* Listed texts that start a locale from nothing are a root beside nothing.*)
LEMMA FromNothing ==
    ASSUME NEW locs, AreLocalizations(locs), NEW m \in Languages, m \notin DOMAIN locs,
           NEW texts, RequestPlaces(DOMAIN texts), CanStage(locs, m, texts),
           ~NeedsShape(locs, DOMAIN texts), Clean(locs, m),
           DOMAIN texts \subseteq Advertised(locs, m)
    PROVE  DOMAIN texts = {RootPlace} /\ Advertised(locs, m) = {RootPlace}
<1> DEFINE basis == SourceBasis(locs, KeyText)
           source == Source(locs)
           T == DOMAIN texts
           list == Advertised(locs, m)
<1>1. m \in Locales /\ m # SourceLanguage /\ Categories(m) \in SUBSET Plurals
  BY LocalesAssumption DEF Locales
<1>2. \A p : p \in list <=>
        /\ p \in Place
        /\ \/ p \in DOMAIN basis /\ (p.plural # Whole => p.plural \in Categories(m))
           \/ p.plural \in Categories(m) /\ \E q \in DOMAIN basis : q.at = p.at /\ q.plural # Whole
  BY <1>1, MissingListMember
<1>3. DOMAIN basis \subseteq Place
  BY BasisTyped, TextsAssumption DEF IsLocalization
<1>4. Unmixed(basis)
  BY FaultsMean DEF Clean, Basis
<1>5. /\ StagedOn(locs, m, T) = NoLocalization
      /\ \A p \in T : Writable(NoLocalization, source, p)
      /\ ReferencesHold(Put(NoLocalization, texts))
  BY DEF StagedOn, CanStage
<1>6. DOMAIN Put(NoLocalization, texts) = T
  BY DEF Put, NoLocalization
<1>7. basis = source \/ (DOMAIN basis = {RootPlace} /\ DOMAIN source = {})
  BY DEF SourceBasis, Source, NoLocalization
<1>8. /\ RootPlace \in DOMAIN source /\ Substitutions(source) # {}
            => \A p \in T : p # RootPlace /\ p.at \notin Names
      /\ RootPlace \notin T => ~Varied(source, Root)
  BY DEF NeedsShape
<1>9. \A p \in T : p \in list /\ p \in Place
  BY <1>2
<1>10. RootPlace.at = Root /\ RootPlace.plural = Whole
  BY DEF RootPlace
<1>11. T # {} /\ ((\E p \in Place : T = {p}) \/ \A p, q \in T : p.at = q.at /\ p.at \notin Devices /\ p.plural # Whole)
  BY DEF RequestPlaces
<1> DEFINE after == Put(NoLocalization, texts)
<1> HIDE DEF basis, source, list, after, T
<1>12. ASSUME NEW p \in T, p.at \in Names PROVE FALSE
  <2>1. \A q \in T : q.at = p.at
    BY <1>11, <1>12
  <2>2. Referenced(after) = {}
    BY <1>6, <1>12, <2>1 DEF Referenced, after
  <2>3. p.at \in Substitutions(after)
    BY <1>6, <1>12 DEF Substitutions, after
  <2> QED BY <1>5, <2>2, <2>3 DEF ReferencesHold, after
<1>13. RootPlace \in T
  <2>1. SUFFICES ASSUME RootPlace \notin T PROVE FALSE
    OBVIOUS
  <2>2. ~HasPlural(source, Root) /\ ~HasDevice(source)
    BY <1>8, <2>1 DEF Varied
  <2>3. ~HasPlural(basis, Root) /\ ~HasDevice(basis)
    BY <1>7, <1>10, <2>2, PlacesAssumption DEF HasPlural, HasDevice
  <2>4. PICK p \in T : p \in Place /\ p \in list
    BY <1>9, <1>11
  <2>5. p.at = Root \/ p.at \in Devices
    BY <1>12, <2>4, PlaceFacts
  <2>6. p # RootPlace
    BY <2>1, <2>4
  <2>7. p.at = Root => p.plural # Whole
    BY <2>4, <2>6, PlaceFacts DEF RootPlace
  <2>8. PICK x \in DOMAIN basis : x.at = p.at /\ (p.plural # Whole => x.plural # Whole)
    BY <1>2, <2>4
  <2> QED BY <2>3, <2>5, <2>7, <2>8 DEF HasPlural, HasDevice
<1>14. T = {RootPlace}
  BY <1>10, <1>11, <1>13
<1>15. RootPlace \in DOMAIN basis
  BY <1>1, <1>2, <1>9, <1>10, <1>13, PlacesAssumption
<1>16. ~HasPlural(basis, Root) /\ ~HasDevice(basis)
  BY <1>4, <1>15 DEF Unmixed, Varied, RootPlace
<1>17. Substitutions(basis) = {}
  <2>1. CASE basis = source
    BY <1>8, <1>13, <1>15, <2>1
  <2>2. CASE DOMAIN basis = {RootPlace}
    BY <1>10, <2>2, PlacesAssumption DEF Substitutions
  <2> QED BY <1>7, <2>1, <2>2
<1>18. ASSUME NEW p \in DOMAIN basis PROVE p = RootPlace
  <2>1. p \in Place /\ p.at \in {Root} \cup Devices \cup Names
    BY <1>3, <1>18, PlaceFacts
  <2>2. p.at = Root
    BY <1>16, <1>17, <1>18, <2>1 DEF HasDevice, Substitutions
  <2>3. p.plural = Whole
    BY <1>16, <1>18, <2>2 DEF HasPlural
  <2> QED BY <2>1, <2>2, <2>3, PlaceFacts DEF RootPlace
<1>19. \A p : p \in list => p = RootPlace
  BY <1>2, <1>10, <1>18
<1>20. list = {RootPlace}
  BY <1>9, <1>13, <1>19
<1> QED BY <1>14, <1>20 DEF T, list

(* A request for listed places leaves the list as it is.                   *)
LEMMA StagedList ==
    ASSUME NEW locs, AreLocalizations(locs), NEW m \in Languages, NEW texts,
           RequestPlaces(DOMAIN texts), CanStage(locs, m, texts), Clean(locs, m),
           DOMAIN texts \subseteq Advertised(locs, m)
    PROVE  Advertised(Staged(locs, m, texts), m) = Advertised(locs, m)
<1> DEFINE after == Staged(locs, m, texts)
           start == StagedOn(locs, m, DOMAIN texts)
           list == Advertised(locs, m)
<1>1. m \in Locales /\ m # SourceLanguage /\ Categories(m) \in SUBSET Plurals
  BY LocalesAssumption DEF Locales
<1>2. m \in DOMAIN after /\ after[m] = Put(start, texts)
  BY DEF Staged
<1> HIDE DEF after
<1>3. CASE m \in DOMAIN locs
  <2>1. start = locs[m]
    BY <1>3 DEF StagedOn
  <2> HIDE DEF start
  <2>2. DOMAIN locs[m] \subseteq Place /\ Unmixed(locs[m])
    BY <1>3, FaultsMean DEF Clean, Basis, AreLocalizations, IsLocalization
  <2>3. \A p : p \in list <=>
            /\ p \in Place
            /\ \/ p \in DOMAIN locs[m]
               \/ p.plural \in Categories(m) /\ \E q \in DOMAIN locs[m] : q.at = p.at /\ q.plural # Whole
    BY <1>1, <1>3, <2>2, ListMember
  <2>4. Whole \notin Categories(m)
    BY <1>1, PlacesAssumption
  <2>5. DOMAIN after[m] = DOMAIN locs[m] \cup DOMAIN texts
    <3>1. \A p \in DOMAIN texts :
            /\ p \in Place
            /\ \/ p \in DOMAIN locs[m]
               \/ p.plural # Whole /\ \E q \in DOMAIN locs[m] : q.at = p.at /\ q.plural # Whole
      BY <2>3, <2>4
    <3> QED BY <1>2, <2>1, <2>2, <3>1, ListedPut
  <2>6. DOMAIN after[m] \subseteq Place
    BY <2>2, <2>5 DEF RequestPlaces
  <2>7. \A p : p \in Advertised(after, m) <=>
            /\ p \in Place
            /\ \/ p \in DOMAIN after[m]
               \/ p.plural \in Categories(m) /\ \E q \in DOMAIN after[m] : q.at = p.at /\ q.plural # Whole
    BY <1>1, <1>2, <2>6, ListMember
  <2>8. \A p \in DOMAIN texts : p \in list
    OBVIOUS
  <2> HIDE DEF list
  <2>9. \A p : p \in Advertised(after, m) <=> p \in list
    BY <2>3, <2>4, <2>5, <2>7, <2>8
  <2>10. Advertised(after, m) = list
    BY <2>9
  <2> QED BY <2>10 DEF after, list
<1>4. CASE m \notin DOMAIN locs /\ NeedsShape(locs, DOMAIN texts)
  <2>1. start = InitialLocale(locs, m)
    BY <1>4 DEF StagedOn
  <2>2. list = DOMAIN start
    BY <1>1, <1>4, <2>1, MissingListMember
  <2>3. DOMAIN start \subseteq Place
    BY <1>1, <2>1, InitialTyped DEF IsLocalization
  <2>4. Unmixed(start)
    <3>1. CanInitialize(locs)
      BY <1>4 DEF CanStage
    <3> QED BY <1>1, <2>1, <3>1, InitialUnmixed
  <2>5. DOMAIN texts \subseteq DOMAIN start
    BY <2>2
  <2>6. DOMAIN after[m] = DOMAIN start
    <3> HIDE DEF start
    <3>1. DOMAIN Put(start, texts) = DOMAIN start \cup DOMAIN texts
      BY <2>3, <2>4, <2>5, ListedPut
    <3> QED BY <1>2, <2>5, <3>1
  <2> QED BY <1>1, <1>2, <1>4, <2>1, <2>6, InitialList DEF after
<1>5. CASE m \notin DOMAIN locs /\ ~NeedsShape(locs, DOMAIN texts)
  <2>1. DOMAIN texts = {RootPlace} /\ list = {RootPlace}
    BY <1>5, FromNothing
  <2>2. start = NoLocalization
    BY <1>5 DEF StagedOn
  <2>3. DOMAIN after[m] = {RootPlace}
    BY <1>2, <2>1, <2>2 DEF Put, NoLocalization
  <2>4. RootPlace \in Place /\ RootPlace.plural = Whole
    BY DEF RootPlace, Place
  <2>5. \A p : p \in Advertised(after, m) <=> p = RootPlace
    <3>1. \A p : p \in Advertised(after, m) <=>
            /\ p \in Place
            /\ \/ p \in DOMAIN after[m]
               \/ p.plural \in Categories(m) /\ \E q \in DOMAIN after[m] : q.at = p.at /\ q.plural # Whole
      BY <1>1, <1>2, <2>3, <2>4, ListMember
    <3> QED BY <2>3, <2>4, <3>1
  <2>6. Advertised(after, m) = {RootPlace}
    BY <2>5
  <2> QED BY <2>1, <2>6 DEF after
<1> QED BY <1>3, <1>4, <1>5
=============================================================================
