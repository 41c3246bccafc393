---------------------------- MODULE MergeProofs ----------------------------
(***************************************************************************)
(* Theorems about SemanticMerge and MergeSession, for every set of         *)
(* pointers and values.                                                    *)
(***************************************************************************)
EXTENDS MergeSession, SequenceTheorems, WellFoundedInduction, TLAPS

(* A prefix agrees with the sequence as far as it goes.                    *)
LEMMA PrefixAgrees ==
    ASSUME NEW s \in Seq(STRING), NEW t \in Seq(STRING)
    PROVE  IsPrefix(s, t) <=> Len(s) <= Len(t) /\ \A k \in 1..Len(s) : s[k] = t[k]
<1>1. ASSUME IsPrefix(s, t) PROVE Len(s) <= Len(t) /\ \A k \in 1..Len(s) : s[k] = t[k]
  BY <1>1, SubSeqProperties DEF IsPrefix
<1>2. ASSUME Len(s) <= Len(t), \A k \in 1..Len(s) : s[k] = t[k] PROVE IsPrefix(s, t)
  <2>1. SubSeq(s, 1, Len(s)) \in Seq(STRING) /\ SubSeq(t, 1, Len(s)) \in Seq(STRING)
    BY <1>2, SubSeqProperties
  <2>2. Len(SubSeq(s, 1, Len(s))) = Len(s) /\ Len(SubSeq(t, 1, Len(s))) = Len(s)
    BY <1>2, SubSeqProperties
  <2>3. \A k \in 1..Len(s) : SubSeq(s, 1, Len(s))[k] = SubSeq(t, 1, Len(s))[k]
    BY <1>2, SubSeqProperties
  <2> QED BY <2>1, <2>2, <2>3, <1>2, SeqEqual DEF IsPrefix
<1> QED BY <1>1, <1>2

LEMMA AboveFacts ==
    ASSUME NEW q \in Pointers
    PROVE  /\ q \in Above[q]
           /\ q \in Under[q]
           /\ Root \in Above[q]
           /\ \A p \in Above[q] : p \in Pointers /\ Len(p) \in Nat /\ Above[p] \subseteq Above[q]
           /\ \A p \in Pointers : p \in Above[q] <=> q \in Under[p]
           /\ \A p \in Pointers : Under[p] \subseteq Pointers
<1>1. \A p \in Pointers : p \in Seq(STRING) /\ Len(p) \in Nat
  BY PointersAssumption, LenProperties
<1>2. \A p \in Pointers, a \in Pointers : IsPrefix(a, p) /\ IsPrefix(p, q) => IsPrefix(a, q)
  BY <1>1, PrefixAgrees
<1>3. IsPrefix(q, q) /\ IsPrefix(Root, q)
  BY <1>1, PrefixAgrees, PointersAssumption, EmptySeq DEF Root
<1> QED BY <1>1, <1>2, <1>3, PointersAssumption DEF Above, Under

(* Two ancestors of one place are ancestors of each other.                 *)
LEMMA AboveIsAChain ==
    ASSUME NEW q \in Pointers, NEW p \in Above[q], NEW a \in Above[q]
    PROVE  p = a \/ p \in StrictlyAbove[a] \/ a \in StrictlyAbove[p]
<1>1. p \in Seq(STRING) /\ a \in Seq(STRING) /\ q \in Seq(STRING) /\ p \in Pointers /\ a \in Pointers
  BY PointersAssumption DEF Above
<1>2. Len(p) \in Nat /\ Len(a) \in Nat
  BY <1>1, LenProperties
<1>3. /\ Len(p) <= Len(q) /\ \A k \in 1..Len(p) : p[k] = q[k]
      /\ Len(a) <= Len(q) /\ \A k \in 1..Len(a) : a[k] = q[k]
  BY <1>1, PrefixAgrees DEF Above
<1>4. CASE Len(p) = Len(a)
  BY <1>1, <1>2, <1>3, <1>4, SeqEqual
<1>5. CASE Len(p) < Len(a)
  BY <1>1, <1>2, <1>3, <1>5, PrefixAgrees DEF StrictlyAbove, Above
<1>6. CASE Len(a) < Len(p)
  BY <1>1, <1>2, <1>3, <1>6, PrefixAgrees DEF StrictlyAbove, Above
<1> QED BY <1>2, <1>4, <1>5, <1>6

LEMMA Shortest ==
    ASSUME NEW S \in SUBSET Pointers, S # {}
    PROVE  \E p \in S : \A a \in S : Len(p) <= Len(a)
<1> DEFINE T == {Len(p) : p \in S}
           Less == {pair \in Nat \X Nat : pair[1] < pair[2]}
<1>1. \A p \in S : Len(p) \in Nat
  BY PointersAssumption, LenProperties
<1>2. T \subseteq Nat /\ T # {}
  BY <1>1
<1>3. IsWellFoundedOn(Less, Nat)
  BY NatLessThanWellFounded DEF OpToRel
<1>4. PICK n \in T : \A k \in T : ~(<<k, n>> \in Less)
  <2> HIDE DEF T, Less
  <2> QED BY <1>2, <1>3, WFMin
<1>5. ASSUME NEW k \in T PROVE n <= k
  <2>1. k \in Nat /\ n \in Nat
    BY <1>2
  <2>2. ~(<<k, n>> \in Less)
    BY <1>4
  <2>3. <<k, n>> \in Nat \X Nat /\ <<k, n>>[1] = k /\ <<k, n>>[2] = n
    BY <2>1
  <2>4. ~(k < n)
    BY <2>2, <2>3
  <2> QED BY <2>1, <2>4
<1> QED BY <1>5
-----------------------------------------------------------------------------
(* At most one node answers for a place.                                   *)
LEMMA OneDecider ==
    ASSUME NEW m, NEW q \in Pointers,
           NEW p \in Above[q] \cap Settled(m), NEW a \in Above[q] \cap Settled(m)
    PROVE  p = a
<1>1. p \notin StrictlyAbove[a] /\ a \notin StrictlyAbove[p]
  BY DEF Settled
<1> QED BY <1>1, AboveIsAChain

(* Where none answers, the recursion goes all the way down.                *)
LEMMA NoDecider ==
    ASSUME NEW m, NEW q \in Pointers, Above[q] \cap Settled(m) = {}
    PROVE  \A a \in Above[q] : Descends(m, a)
<1> DEFINE N == {a \in Above[q] : ~Descends(m, a)}
<1>1. SUFFICES ASSUME N # {} PROVE FALSE
  OBVIOUS
<1>2. N \subseteq Pointers
  BY AboveFacts
<1>3. PICK p \in N : \A a \in N : Len(p) <= Len(a)
  <2> HIDE DEF N
  <2> QED BY <1>1, <1>2, Shortest
<1>4. p \in Pointers /\ p \in Above[q] /\ ~Descends(m, p) /\ Len(p) \in Nat
  BY <1>2, AboveFacts
<1>5. ASSUME NEW a \in StrictlyAbove[p] PROVE Descends(m, a)
  <2>1. a \in Above[p] /\ Len(a) < Len(p)
    BY <1>4 DEF StrictlyAbove
  <2>2. a \in Above[q] /\ Len(a) \in Nat /\ a \in Pointers
    BY <1>4, <2>1, AboveFacts
  <2>3. a \notin N
    <3> HIDE DEF N
    <3> QED BY <1>3, <1>4, <2>1, <2>2
  <2> QED BY <2>2, <2>3
<1>6. StrictlyAbove[p] \subseteq {a \in Pointers : Descends(m, a)}
  BY <1>4, <1>5 DEF StrictlyAbove, Above
<1>7. p \in Settled(m)
  BY <1>4, <1>6 DEF Settled
<1> QED BY <1>4, <1>7

LEMMA MergeValue ==
    ASSUME NEW m, NEW r, NEW q \in Pointers
    PROVE  /\ \A p \in Above[q] \cap Settled(m) : Merge(m, r)[q] = Winner(m, r, p)[q]
           /\ Above[q] \cap Settled(m) = {} => Merge(m, r)[q] = Object
<1>1. Merge(m, r)[q] =
        IF Above[q] \cap Settled(m) = {} THEN Object
        ELSE Winner(m, r, CHOOSE p \in Above[q] \cap Settled(m) : TRUE)[q]
  BY DEF Merge
<1>2. ASSUME NEW p \in Above[q] \cap Settled(m) PROVE Merge(m, r)[q] = Winner(m, r, p)[q]
  <2>1. (CHOOSE a \in Above[q] \cap Settled(m) : TRUE) = p
    BY OneDecider
  <2> QED BY <1>1, <2>1
<1> QED BY <1>1, <1>2

(* Equal subtrees are equal at each place of them.                         *)
LEMMA SameAt ==
    ASSUME NEW x, NEW y, NEW q \in Pointers, NEW p \in Above[q], Same(x, y, p)
    PROVE  x[q] = y[q]
<1>1. q \in Under[p]
  BY AboveFacts
<1> QED BY <1>1 DEF Same

(* The merge, place by place: outside conflicts the side that changed a    *)
(* place wins it (merge_node, engine.rs lines 125-136).                    *)
THEOREM MergeIsPointwise ==
    ASSUME NEW m \in Triples, NEW r, NEW q \in Pointers,
           Above[q] \cap ConflictPointers(m) = {}
    PROVE  Merge(m, r)[q] =
             IF m.current[q] = m.base[q] THEN m.incoming[q] ELSE m.current[q]
<1>1. CASE Above[q] \cap Settled(m) = {}
  <2>1. Merge(m, r)[q] = Object
    BY <1>1, MergeValue
  <2>2. Descends(m, q)
    BY <1>1, NoDecider, AboveFacts
  <2>3. AllObjects(m, q)
    BY <2>2 DEF Descends, AllObjects, Triples, Catalogs
  <2> QED BY <2>1, <2>3 DEF AllObjects
<1>2. ASSUME NEW p \in Above[q] \cap Settled(m)
      PROVE  Merge(m, r)[q] =
                IF m.current[q] = m.base[q] THEN m.incoming[q] ELSE m.current[q]
  <2>1. Merge(m, r)[q] = Winner(m, r, p)[q]
    BY MergeValue
  <2>2. ~AllDiffer(m, p)
    BY DEF ConflictPointers
  <2>3. CASE Same(m.current, m.incoming, p)
    BY <2>1, <2>3, SameAt DEF Winner, Side
  <2>4. CASE ~Same(m.current, m.incoming, p) /\ Same(m.current, m.base, p)
    BY <2>1, <2>4, SameAt DEF Winner, Side
  <2>5. CASE ~Same(m.current, m.incoming, p) /\ ~Same(m.current, m.base, p)
    <3>1. Same(m.incoming, m.base, p)
      BY <2>2, <2>5 DEF AllDiffer
    <3>2. Merge(m, r)[q] = m.current[q] /\ m.incoming[q] = m.base[q]
      BY <2>1, <2>5, <3>1, SameAt DEF Winner, Side
    <3> QED BY <3>2
  <2> QED BY <2>3, <2>4, <2>5
<1>3. CASE Above[q] \cap Settled(m) # {}
  <2>1. PICK p \in Above[q] \cap Settled(m) : TRUE
    BY <1>3
  <2> QED BY <1>2, <2>1
<1> QED BY <1>1, <1>3
-----------------------------------------------------------------------------
LEMMA FrontFacts ==
    ASSUME NEW p \in Pointers, p # Root
    PROVE  /\ Front(p) \in StrictlyAbove[p]
           /\ \A a \in Above[p] : a # p => a \in Above[Front(p)]
<1> DEFINE n == Len(p)
<1>1. p \in Seq(STRING) /\ n \in Nat \ {0} /\ Front(p) \in Pointers /\ Front(p) \in Seq(STRING)
  BY PointersAssumption, EmptySeq DEF Root
<1>2. Len(Front(p)) = n - 1 /\ \A k \in 1..(n - 1) : Front(p)[k] = p[k]
  <2>1. \A k \in 1..(n - 1) : p[k] \in STRING
    BY <1>1, ElementOfSeq
  <2>2. 1 \in Int /\ n - 1 \in Int /\ n - 1 >= 0
    BY <1>1
  <2>3. /\ Len(SubSeq(p, 1, n - 1)) = IF 1 <= n - 1 THEN (n - 1) - 1 + 1 ELSE 0
        /\ \A k \in 1..((n - 1) - 1 + 1) : SubSeq(p, 1, n - 1)[k] = p[1 + k - 1]
    <3> HIDE DEF n
    <3> QED BY <2>1, <2>2, SubSeqProperties
  <2>4. Front(p) = SubSeq(p, 1, n - 1)
    BY DEF Front
  <2>5. Len(SubSeq(p, 1, n - 1)) = n - 1
    BY <2>2, <2>3
  <2>6. \A k \in 1..(n - 1) : SubSeq(p, 1, n - 1)[k] = p[k]
    <3> TAKE k \in 1..(n - 1)
    <3>1. k \in 1..((n - 1) - 1 + 1) /\ 1 + k - 1 = k
      BY <2>2
    <3> QED BY <2>3, <3>1
  <2> HIDE DEF n
  <2> QED BY <2>4, <2>5, <2>6
<1>3. Front(p) \in StrictlyAbove[p]
  BY <1>1, <1>2, PrefixAgrees DEF StrictlyAbove, Above
<1>4. ASSUME NEW a \in Above[p], a # p PROVE a \in Above[Front(p)]
  <2>1. a \in Pointers /\ a \in Seq(STRING) /\ Len(a) \in Nat
    BY PointersAssumption, LenProperties DEF Above
  <2>2. Len(a) <= n /\ \A k \in 1..Len(a) : a[k] = p[k]
    BY <1>1, <2>1, PrefixAgrees DEF Above
  <2>3. Len(a) # n
    BY <1>1, <1>4, <2>1, <2>2, SeqEqual
  <2> QED BY <1>1, <1>2, <2>1, <2>2, <2>3, PrefixAgrees DEF Above
<1> QED BY <1>3, <1>4

LEMMA RootDescends ==
    ASSUME NEW m, NEW r
    PROVE  Above[Root] \cap Settled(m) = {} /\ Merge(m, r)[Root] = Object
<1>1. Root \in Pointers /\ \A a \in Above[Root] : a = Root
  <2>1. ASSUME NEW a \in Above[Root] PROVE a = Root
    <3>1. a \in Pointers /\ a \in Seq(STRING) /\ Root \in Seq(STRING) /\ Len(Root) = 0
      BY PointersAssumption, EmptySeq DEF Above, Root
    <3>2. Len(a) <= 0 /\ Len(a) \in Nat
      BY <3>1, PrefixAgrees, PointersAssumption, LenProperties DEF Above
    <3> QED BY <3>1, <3>2, EmptySeq DEF Root
  <2> QED BY <2>1, PointersAssumption
<1>2. Root \notin Settled(m)
  BY DEF Settled, Descends
<1> QED BY <1>1, <1>2, MergeValue

IsResolution(r) == \A id \in DOMAIN r : r[id] \in Choice

LEMMA SideIsAChoice ==
    ASSUME NEW m \in Triples, NEW r, IsResolution(r), NEW p \in Pointers
    PROVE  Side(m, r, p) \in Choice /\ Winner(m, r, p) \in Catalogs
<1>1. ChoiceFor(m, r, p) \in Choice
  BY DEF ChoiceFor, IsResolution, Choice
<1>2. Side(m, r, p) \in Choice
  BY <1>1 DEF Side, Choice
<1> QED BY <1>2 DEF Winner, Choice, Triples

(* What is merged is a catalog: no field is left without its object.       *)
THEOREM MergedIsACatalog ==
    ASSUME NEW m \in Triples, NEW r, IsResolution(r)
    PROVE  Merge(m, r) \in Catalogs
<1>1. Merge(m, r) \in [Pointers -> Values]
  <2>1. ASSUME NEW q \in Pointers PROVE Merge(m, r)[q] \in Values
    <3>1. CASE Above[q] \cap Settled(m) = {}
      BY <3>1, MergeValue DEF Values
    <3>2. ASSUME NEW p \in Above[q] \cap Settled(m) PROVE Merge(m, r)[q] \in Values
      BY MergeValue, SideIsAChoice, AboveFacts DEF Catalogs
    <3> QED BY <3>1, <3>2
  <2>2. Merge(m, r) = [q \in Pointers |-> Merge(m, r)[q]]
    BY DEF Merge
  <2> QED BY <2>1, <2>2
<1>2. ASSUME NEW q \in Pointers, q # Root, Merge(m, r)[q] # Absent
      PROVE  Merge(m, r)[Front(q)] = Object
  <2>1. /\ Front(q) \in Pointers /\ Front(q) \in Above[q] /\ Front(q) \in StrictlyAbove[q]
        /\ Above[Front(q)] \subseteq Above[q]
    BY <1>2, FrontFacts, AboveFacts, PointersAssumption DEF StrictlyAbove
  <2>2. CASE Above[Front(q)] \cap Settled(m) = {}
    BY <2>1, <2>2, MergeValue
  <2>3. ASSUME NEW p \in Above[Front(q)] \cap Settled(m)
        PROVE  Merge(m, r)[Front(q)] = Object
    <3>1. /\ Merge(m, r)[Front(q)] = Winner(m, r, p)[Front(q)]
          /\ Merge(m, r)[q] = Winner(m, r, p)[q]
      BY <2>1, MergeValue
    <3>2. Winner(m, r, p) \in Catalogs
      BY SideIsAChoice, <2>1, AboveFacts
    <3> QED BY <1>2, <3>1, <3>2 DEF Catalogs
  <2> QED BY <2>2, <2>3
<1> QED BY <1>1, <1>2, RootDescends DEF Catalogs
-----------------------------------------------------------------------------
(* An atomic node comes whole from one side.                               *)
THEOREM AtomicIsWhole ==
    ASSUME NEW m \in Triples, NEW r, IsResolution(r), NEW p \in AtomicNodes
    PROVE  \E side \in Choice : Same(Merge(m, r), m[side], p)
<1>1. p \in Pointers /\ ~Descends(m, p)
  BY DEF AtomicNodes, Descends
<1>2. PICK a \in Above[p] \cap Settled(m) : TRUE
  BY <1>1, NoDecider, AboveFacts
<1>3. a \in Pointers /\ Side(m, r, a) \in Choice
  BY <1>1, <1>2, AboveFacts, SideIsAChoice
<1>4. ASSUME NEW q \in Under[p] PROVE Merge(m, r)[q] = m[Side(m, r, a)][q]
  <2>1. q \in Pointers /\ a \in Above[q]
    BY <1>1, <1>2, AboveFacts
  <2> QED BY <1>2, <2>1, MergeValue DEF Winner
<1> QED BY <1>3, <1>4 DEF Same

LEMMA SameIsSymmetric ==
    ASSUME NEW x, NEW y, NEW p
    PROVE  Same(x, y, p) <=> Same(y, x, p)
BY DEF Same

LEMMA SwapFacts ==
    ASSUME NEW m \in Triples
    PROVE  /\ Swap(m) \in Triples
           /\ Swap(m).base = m.base
           /\ Swap(m).current = m.incoming
           /\ Swap(m).incoming = m.current
           /\ Settled(Swap(m)) = Settled(m)
           /\ ConflictPointers(Swap(m)) = ConflictPointers(m)
           /\ \A p \in ConflictPointers(m) : ConflictId(Swap(m), p) = ConflictId(m, p)
           /\ ConflictIds(Swap(m)) = ConflictIds(m)
<1>1. /\ Swap(m) \in Triples
      /\ Swap(m).base = m.base
      /\ Swap(m).current = m.incoming
      /\ Swap(m).incoming = m.current
  BY DEF Swap, Triples
<1>2. \A p : AllDiffer(Swap(m), p) <=> AllDiffer(m, p)
  BY <1>1, SameIsSymmetric DEF AllDiffer
<1>3. \A p : Descends(Swap(m), p) <=> Descends(m, p)
  BY <1>1, <1>2 DEF Descends, AllObjects
<1>4. Settled(Swap(m)) = Settled(m)
  BY <1>3 DEF Settled
<1>5. ConflictPointers(Swap(m)) = ConflictPointers(m)
  BY <1>2, <1>4 DEF ConflictPointers
<1>6. \A p : {m.current[p], m.incoming[p]} = {Swap(m).current[p], Swap(m).incoming[p]}
  BY <1>1
<1>7. \A p \in ConflictPointers(m) : ConflictKind(Swap(m), p) = ConflictKind(m, p)
  <2> TAKE p \in ConflictPointers(m)
  <2>1. {m.base[p], m.current[p], m.incoming[p]} =
          {Swap(m).base[p], Swap(m).current[p], Swap(m).incoming[p]}
    BY <1>1
  <2> QED BY <1>1, <1>6, <2>1 DEF ConflictKind
<1>8. \A p \in ConflictPointers(m) : ConflictId(Swap(m), p) = ConflictId(m, p)
  BY <1>7 DEF ConflictId
<1> QED BY <1>1, <1>4, <1>5, <1>8 DEF ConflictIds

(* The roles of the two branches may be exchanged.                         *)
THEOREM SwappedMerge ==
    ASSUME NEW m \in Triples, NEW r, IsResolution(r)
    PROVE  Merge(Swap(m), SwapResolutions(r)) = Merge(m, r)
<1> DEFINE n == Swap(m)
           s == SwapResolutions(r)
<1>1. ASSUME NEW q \in Pointers, NEW p \in Above[q] \cap Settled(m)
      PROVE  Winner(n, s, p)[q] = Winner(m, r, p)[q]
  <2>1. n.base = m.base /\ n.current = m.incoming /\ n.incoming = m.current
    BY SwapFacts
  <2>2. CASE Same(m.current, m.incoming, p)
    <3>1. Winner(n, s, p) = m.incoming /\ Winner(m, r, p) = m.current
      BY <2>1, <2>2, SameIsSymmetric DEF Winner, Side
    <3> QED BY <2>2, <3>1, SameAt
  <2>3. CASE ~Same(m.current, m.incoming, p) /\ Same(m.current, m.base, p)
    <3>1. Winner(m, r, p) = m.incoming
      BY <2>3 DEF Winner, Side
    <3>2. ~Same(m.incoming, m.base, p) \/ Same(m.incoming, m.base, p)
      OBVIOUS
    <3>3. CASE ~Same(m.incoming, m.base, p)
      BY <2>1, <2>3, <3>1, <3>3, SameIsSymmetric DEF Winner, Side
    <3>4. CASE Same(m.incoming, m.base, p)
      <4>1. Same(m.current, m.incoming, p)
        BY <2>3, <3>4 DEF Same
      <4> QED BY <2>3, <4>1
    <3> QED BY <3>3, <3>4
  <2>4. CASE ~Same(m.current, m.incoming, p) /\ ~Same(m.current, m.base, p)
                /\ Same(m.incoming, m.base, p)
    BY <2>1, <2>4, SameIsSymmetric DEF Winner, Side
  <2>5. CASE AllDiffer(m, p)
    <3>1. p \in ConflictPointers(m) /\ ConflictId(n, p) = ConflictId(m, p)
      BY <2>5, SwapFacts DEF ConflictPointers
    <3>2. Side(m, r, p) = ChoiceFor(m, r, p) /\ Side(n, s, p) = ChoiceFor(n, s, p)
      BY <2>1, <2>5, SameIsSymmetric DEF AllDiffer, Side
    <3>3. DOMAIN s = DOMAIN r /\ \A id \in DOMAIN r : s[id] = SwapSide(r[id])
      BY DEF SwapResolutions
    <3>4. ChoiceFor(m, r, p) \in Choice /\ ChoiceFor(n, s, p) = SwapSide(ChoiceFor(m, r, p))
      BY <3>1, <3>3 DEF ChoiceFor, SwapSide, IsResolution, Choice
    <3>5. \A side \in Choice : n[SwapSide(side)] = m[side]
      BY <2>1 DEF Choice, SwapSide
    <3> QED BY <3>2, <3>4, <3>5 DEF Winner
  <2> QED BY <2>2, <2>3, <2>4, <2>5 DEF AllDiffer
<1>2. ASSUME NEW q \in Pointers PROVE Merge(n, s)[q] = Merge(m, r)[q]
  <2>1. Settled(n) = Settled(m)
    BY SwapFacts
  <2>2. CASE Above[q] \cap Settled(m) = {}
    BY <2>1, <2>2, MergeValue
  <2>3. ASSUME NEW p \in Above[q] \cap Settled(m) PROVE Merge(n, s)[q] = Merge(m, r)[q]
    BY <1>1, <2>1, MergeValue
  <2> QED BY <2>2, <2>3
<1>3. /\ Merge(n, s) = [q \in Pointers |-> Merge(n, s)[q]]
      /\ Merge(m, r) = [q \in Pointers |-> Merge(m, r)[q]]
  BY DEF Merge
<1> QED BY <1>2, <1>3
-----------------------------------------------------------------------------
(* The recursion of the engine.                                            *)

(* Induction over the numbers, of a set.                                   *)
LEMMA SetInduction ==
    ASSUME NEW S, S \subseteq Nat, 0 \in S, \A n \in S : n + 1 \in S
    PROVE  S = Nat
<1> DEFINE Less == {pair \in Nat \X Nat : pair[1] < pair[2]}
<1>1. IsWellFoundedOn(Less, Nat)
  BY NatLessThanWellFounded DEF OpToRel
<1>2. \A a, b \in Nat : a < b => <<a, b>> \in Less
  OBVIOUS
<1> HIDE DEF Less
<1>3. SUFFICES ASSUME Nat \ S # {} PROVE FALSE
  OBVIOUS
<1>4. PICK n \in Nat \ S : \A k \in Nat \ S : ~(<<k, n>> \in Less)
  BY <1>1, <1>3, WFMin
<1>5. n # 0 /\ n - 1 \in Nat /\ n - 1 < n /\ (n - 1) + 1 = n
  OBVIOUS
<1>6. <<n - 1, n>> \in Less
  BY <1>2, <1>5
<1>7. n - 1 \in S
  BY <1>4, <1>5, <1>6
<1> QED BY <1>5, <1>7

LEMMA LengthsAreBounded ==
    \E d \in Nat : \A p \in Pointers : Len(p) \in Nat /\ Len(p) <= d
<1>1. \A p \in Pointers : Len(p) \in Nat
  BY PointersAssumption, LenProperties
<1> QED BY <1>1, DepthAssumption

(* What holds of a place when it holds of its fields holds of all places.  *)
LEMMA FieldInduction ==
    ASSUME NEW S, S \subseteq Pointers,
           \A p \in Pointers :
                (\A f \in Pointers : f # Root /\ Front(f) = p => f \in S) => p \in S
    PROVE  S = Pointers
<1>1. PICK d \in Nat : \A p \in Pointers : Len(p) \in Nat /\ Len(p) <= d
  BY LengthsAreBounded
<1> DEFINE Reached == {n \in Nat : \A p \in Pointers : Len(p) + n > d => p \in S}
<1>2. 0 \in Reached
  BY <1>1
<1>3. ASSUME NEW n \in Reached PROVE n + 1 \in Reached
  <2>1. ASSUME NEW p \in Pointers, Len(p) + (n + 1) > d PROVE p \in S
    <3>1. ASSUME NEW f \in Pointers, f # Root, Front(f) = p PROVE f \in S
      <4>1. p \in StrictlyAbove[f]
        BY <3>1, FrontFacts
      <4>2. Len(p) < Len(f)
        BY <4>1 DEF StrictlyAbove
      <4>3. Len(f) + n > d
        BY <1>1, <2>1, <4>2
      <4> QED BY <4>3
    <3> QED BY <3>1
  <2> QED BY <2>1
<1>4. Reached = Nat
  <2>1. Reached \subseteq Nat
    OBVIOUS
  <2> HIDE DEF Reached
  <2> QED BY <1>2, <1>3, <2>1, SetInduction
<1>5. ASSUME NEW p \in Pointers PROVE p \in S
  <2>1. d + 1 \in Reached
    <3> HIDE DEF Reached
    <3> QED BY <1>4
  <2>2. Len(p) + (d + 1) > d
    BY <1>1
  <2> QED BY <2>1, <2>2
<1> QED BY <1>5

LEMMA NodeUses ==
    ASSUME NEW m, NEW r, NEW p, NEW g, NEW h, \A f \in Fields(m, p) : g[f] = h[f]
    PROVE  MergeNode(m, r, p, g) = MergeNode(m, r, p, h)
<1>1. {g[f] : f \in Fields(m, p)} = {h[f] : f \in Fields(m, p)}
  OBVIOUS
<1>2. MergeObject(m, p, g) = MergeObject(m, p, h)
  BY <1>1 DEF MergeObject
<1> QED BY <1>2 DEF MergeNode

(* There is a function of which the equation of the recursion is true: one *)
(* that answers from the deepest places up to any depth.                   *)
LEMMA EngineRuns ==
    ASSUME NEW m, NEW r
    PROVE  \A p \in Pointers : Engine(m, r)[p] = MergeNode(m, r, p, Engine(m, r))
<1>1. PICK d \in Nat : \A p \in Pointers : Len(p) \in Nat /\ Len(p) <= d
  BY LengthsAreBounded
<1> DEFINE Layer(n) == {p \in Pointers : Len(p) + n > d}
           Solves(g, n) == \A p \in Layer(n) : g[p] = MergeNode(m, r, p, g)
           Solved == {n \in Nat : \E g : Solves(g, n)}
<1>2. 0 \in Solved
  BY <1>1
<1>3. ASSUME NEW n \in Solved PROVE n + 1 \in Solved
  <2>1. PICK g : Solves(g, n)
    OBVIOUS
  <2> DEFINE h == [p \in Pointers |-> MergeNode(m, r, p, g)]
  <2>2. ASSUME NEW p \in Layer(n + 1) PROVE h[p] = MergeNode(m, r, p, h)
    <3>1. ASSUME NEW f \in Fields(m, p) PROVE g[f] = h[f]
      <4>1. f \in Pointers /\ f # Root /\ Front(f) = p
        BY DEF Fields
      <4>2. Len(p) < Len(f)
        BY <4>1, FrontFacts DEF StrictlyAbove
      <4>3. f \in Layer(n)
        BY <1>1, <4>1, <4>2
      <4> QED BY <2>1, <4>1, <4>3
    <3> HIDE DEF h
    <3>2. MergeNode(m, r, p, g) = MergeNode(m, r, p, h)
      BY <3>1, NodeUses
    <3> QED BY <3>2 DEF h
  <2> HIDE DEF h
  <2> QED BY <2>2
<1>4. d + 1 \in Solved
  <2>1. Solved \subseteq Nat
    OBVIOUS
  <2> HIDE DEF Solved
  <2>2. Solved = Nat
    BY <1>2, <1>3, <2>1, SetInduction
  <2> QED BY <2>2
<1>5. PICK g : Solves(g, d + 1)
  BY <1>4
<1> DEFINE h == [p \in Pointers |-> MergeNode(m, r, p, g)]
           IsEngine(e) == e = [p \in Pointers |-> MergeNode(m, r, p, e)]
<1>6. ASSUME NEW p \in Pointers PROVE MergeNode(m, r, p, h) = MergeNode(m, r, p, g)
  <2>1. \A f \in Pointers : f \in Layer(d + 1)
    BY <1>1
  <2>2. \A f \in Pointers : g[f] = h[f]
    BY <1>5, <2>1
  <2>3. \A f \in Fields(m, p) : g[f] = h[f]
    BY <2>2 DEF Fields
  <2> HIDE DEF h
  <2> QED BY <2>3, NodeUses
<1>7. IsEngine(h)
  BY <1>6
<1>8. Engine(m, r) = CHOOSE e : IsEngine(e)
  BY DEF Engine
<1>9. IsEngine(Engine(m, r))
  <2> HIDE DEF h, IsEngine
  <2> QED BY <1>7, <1>8
<1> QED BY <1>9

(* The places below a place are those below its fields.                    *)
LEMMA FieldAbove ==
    ASSUME NEW p \in Pointers, NEW q \in Under[p], q # p
    PROVE  \E f \in Pointers : f # Root /\ Front(f) = p /\ q \in Under[f] /\ f \in Above[q]
<1> DEFINE Deeper == {a \in Above[q] : Len(a) > Len(p)}
<1>1. q \in Pointers /\ p \in Above[q] /\ Len(p) \in Nat
  BY AboveFacts
<1>2. \A a \in Above[q] : a \in Pointers /\ Len(a) \in Nat /\ Above[a] \subseteq Above[q] /\ q \in Under[a]
  BY <1>1, AboveFacts
<1>3. q \in Deeper
  <2>1. p \in StrictlyAbove[q]
    <3>1. q \notin StrictlyAbove[p]
      <4>1. ASSUME q \in StrictlyAbove[p] PROVE FALSE
        <5>1. q \in Above[p] /\ Len(q) < Len(p)
          BY <4>1 DEF StrictlyAbove
        <5>2. Len(p) <= Len(q)
          BY <1>1, PrefixAgrees, PointersAssumption DEF Above
        <5> QED BY <1>1, <1>2, <5>1, <5>2, AboveFacts
      <4> QED BY <4>1
    <3> QED BY <1>1, <3>1, AboveIsAChain, AboveFacts
  <2> QED BY <1>1, <2>1, AboveFacts DEF StrictlyAbove
<1>4. PICK f \in Deeper : \A a \in Deeper : Len(f) <= Len(a)
  <2>1. Deeper \subseteq Pointers
    BY <1>2
  <2> HIDE DEF Deeper
  <2> QED BY <1>3, <2>1, Shortest
<1>5. f \in Pointers /\ f # Root /\ Len(f) > Len(p) /\ f \in Above[q]
  BY <1>1, <1>2, EmptySeq DEF Root
<1>6. Front(f) \in Above[q] /\ Len(Front(f)) < Len(f) /\ Len(Front(f)) \in Nat
  BY <1>2, <1>5, FrontFacts DEF StrictlyAbove
<1>7. Len(Front(f)) <= Len(p)
  BY <1>1, <1>4, <1>5, <1>6
<1>8. p \in Above[Front(f)]
  <2>1. p \in Above[f]
    <3>1. p = f \/ p \in StrictlyAbove[f] \/ f \in StrictlyAbove[p]
      BY <1>1, <1>5, AboveIsAChain
    <3>2. Len(p) \in Nat /\ Len(f) \in Nat /\ Len(f) > Len(p)
      BY <1>1, <1>2, <1>5
    <3>3. p # f
      BY <3>2
    <3>4. f \notin StrictlyAbove[p]
      BY <3>2 DEF StrictlyAbove
    <3> QED BY <1>5, <3>1, <3>3, <3>4 DEF StrictlyAbove
  <2>2. p # f
    BY <1>1, <1>5
  <2> QED BY <1>5, <2>1, <2>2, FrontFacts
<1>9. Front(f) = p
  <2>1. Front(f) \in Pointers /\ p \in Seq(STRING) /\ Front(f) \in Seq(STRING)
    BY <1>2, <1>6, PointersAssumption
  <2>2. Len(p) <= Len(Front(f)) /\ \A k \in 1..Len(p) : p[k] = Front(f)[k]
    BY <1>8, <2>1, PrefixAgrees DEF Above
  <2> QED BY <1>1, <1>6, <1>7, <2>1, <2>2, SeqEqual
<1> QED BY <1>2, <1>5, <1>9

(* What is said of a place whose subtree the engine has merged.            *)
ConflictsUnder(m, p) == {ConflictId(m, q) : q \in ConflictPointers(m) \cap Under[p]}
IsMerged(m, r, p) ==
    /\ Engine(m, r)[p].tree = Places(Merge(m, r), p)
    /\ Engine(m, r)[p].conflicts = ConflictsUnder(m, p)

(* All above a place of which the recursion merges the fields.             *)
LEMMA AboveFields ==
    ASSUME NEW m, NEW p \in Pointers, Descends(m, p), \A a \in StrictlyAbove[p] : Descends(m, a)
    PROVE  /\ \A a \in Above[p] : Descends(m, a)
           /\ Above[p] \cap Settled(m) = {}
           /\ \A f \in Pointers : f # Root /\ Front(f) = p =>
                /\ \A a \in StrictlyAbove[f] : Descends(m, a)
                /\ Under[f] \subseteq Under[p]
<1>1. ASSUME NEW a \in Above[p] PROVE Descends(m, a)
  <2>1. a = p \/ a \in StrictlyAbove[p] \/ p \in StrictlyAbove[a]
    BY AboveIsAChain, AboveFacts
  <2>2. ASSUME p \in StrictlyAbove[a] PROVE FALSE
    <3>1. Len(p) < Len(a) /\ a \in Pointers
      BY <2>2, AboveFacts DEF StrictlyAbove
    <3>2. Len(a) <= Len(p)
      BY PrefixAgrees, PointersAssumption DEF Above
    <3> QED BY <3>1, <3>2, PointersAssumption, LenProperties
  <2> QED BY <2>1, <2>2
<1>2. Above[p] \cap Settled(m) = {}
  BY <1>1 DEF Settled
<1>3. ASSUME NEW f \in Pointers, f # Root, Front(f) = p, NEW a \in StrictlyAbove[f]
      PROVE  Descends(m, a)
  <2>1. a \in Above[f] /\ a # f
    BY PointersAssumption, LenProperties DEF StrictlyAbove
  <2> QED BY <1>1, <1>3, <2>1, FrontFacts
<1>4. ASSUME NEW f \in Pointers, f # Root, Front(f) = p, NEW q \in Under[f] PROVE q \in Under[p]
  <2>1. p \in Above[f] /\ q \in Pointers
    BY <1>4, FrontFacts, AboveFacts DEF StrictlyAbove
  <2>2. f \in Above[q]
    BY <2>1, AboveFacts
  <2>3. p \in Above[q]
    BY <2>1, <2>2, AboveFacts
  <2> QED BY <2>1, <2>3, AboveFacts
<1> QED BY <1>1, <1>2, <1>3, <1>4

(* A settled place answers for all places under it.                        *)
LEMMA SettledUnder ==
    ASSUME NEW m, NEW r, NEW p \in Settled(m)
    PROVE  /\ Places(Merge(m, r), p) = Places(Winner(m, r, p), p)
           /\ ConflictsUnder(m, p) = IF AllDiffer(m, p) THEN {ConflictId(m, p)} ELSE {}
<1>1. p \in Pointers
  BY DEF Settled
<1>2. \A q \in Under[p] : q \in Pointers /\ p \in Above[q]
  BY <1>1, AboveFacts
<1>3. \A q \in Under[p] : Merge(m, r)[q] = Winner(m, r, p)[q]
  BY <1>2, MergeValue
<1>4. Places(Merge(m, r), p) = Places(Winner(m, r, p), p)
  BY <1>3 DEF Places
<1>5. ASSUME NEW q \in ConflictPointers(m) \cap Under[p] PROVE q = p
  BY <1>2, <1>5, OneDecider, AboveFacts DEF ConflictPointers
<1>6. ConflictPointers(m) \cap Under[p] = IF AllDiffer(m, p) THEN {p} ELSE {}
  BY <1>1, <1>5, AboveFacts DEF ConflictPointers
<1> QED BY <1>4, <1>6 DEF ConflictsUnder

LEMMA NothingUnder ==
    ASSUME NEW c \in Catalogs, NEW f \in Pointers, c[f] = Absent, NEW q \in Under[f]
    PROVE  c[q] = Absent
<1> DEFINE Left == {a \in Above[q] : f \in Above[a] /\ c[a] # Absent}
<1>1. SUFFICES ASSUME c[q] # Absent PROVE FALSE
  OBVIOUS
<1>2. q \in Pointers /\ f \in Above[q] /\ q \in Above[q]
  BY AboveFacts
<1>3. PICK a \in Left : \A b \in Left : Len(a) <= Len(b)
  <2>1. q \in Left /\ Left \subseteq Pointers
    BY <1>1, <1>2, AboveFacts
  <2> HIDE DEF Left
  <2> QED BY <2>1, Shortest
<1>4. a \in Pointers /\ a # f /\ a \in Above[q] /\ f \in Above[a] /\ c[a] # Absent
  BY <1>2, AboveFacts
<1>5. a # Root
  BY <1>4, RootDescends, AboveFacts, EmptySeq, PrefixAgrees, PointersAssumption, LenProperties
     DEF Above, Root
<1>6. /\ Front(a) \in Above[a] /\ Len(Front(a)) < Len(a) /\ f \in Above[Front(a)]
  BY <1>4, <1>5, FrontFacts DEF StrictlyAbove
<1>7. c[Front(a)] = Object /\ Front(a) \in Above[q]
  BY <1>2, <1>4, <1>5, <1>6, AboveFacts DEF Catalogs
<1>8. Front(a) \in Left
  BY <1>6, <1>7, ValuesAssumption
<1> QED BY <1>3, <1>4, <1>6, <1>8, AboveFacts, LenProperties, PointersAssumption

(* Nothing is left of a field that neither branch has.                     *)
LEMMA GoneField ==
    ASSUME NEW m \in Triples, NEW r, NEW f \in Pointers, f # Root,
           m.current[f] = Absent, m.incoming[f] = Absent,
           \A a \in StrictlyAbove[f] : Descends(m, a)
    PROVE  Places(Merge(m, r), f) = {} /\ ConflictsUnder(m, f) = {}
<1>1. \A q \in Under[f] : m.current[q] = Absent /\ m.incoming[q] = Absent
  BY NothingUnder DEF Triples
<1>2. Same(m.current, m.incoming, f)
  BY <1>1 DEF Same
<1>3. f \in Settled(m) /\ ~AllDiffer(m, f)
  BY <1>2 DEF Settled, Descends, AllDiffer, StrictlyAbove, Above
<1>4. Winner(m, r, f) = m.current
  BY <1>2 DEF Winner, Side
<1>5. Places(m.current, f) = {}
  BY <1>1 DEF Places
<1> QED BY <1>3, <1>4, <1>5, SettledUnder

LEMMA ObjectMerged ==
    ASSUME NEW m \in Triples, NEW r, NEW p \in Pointers, Descends(m, p),
           \A a \in StrictlyAbove[p] : Descends(m, a),
           \A f \in Fields(m, p) : IsMerged(m, r, f)
    PROVE  MergeObject(m, p, Engine(m, r)) =
                [tree |-> Places(Merge(m, r), p), conflicts |-> ConflictsUnder(m, p)]
<1> DEFINE e == Engine(m, r)
           merged == {e[f] : f \in Fields(m, p)}
           tree == {<<p, Object>>} \cup UNION {field.tree : field \in merged}
           conflicts == UNION {field.conflicts : field \in merged}
<1>1. MergeObject(m, p, e) = [tree |-> tree, conflicts |-> conflicts]
  BY DEF MergeObject
<1>2. \A f \in Fields(m, p) :
        /\ f \in Pointers /\ f # Root /\ Front(f) = p /\ Under[f] \subseteq Under[p]
        /\ e[f].tree = Places(Merge(m, r), f) /\ e[f].conflicts = ConflictsUnder(m, f)
  BY AboveFields DEF Fields, IsMerged
<1>3. /\ tree = {<<p, Object>>} \cup UNION {Places(Merge(m, r), f) : f \in Fields(m, p)}
      /\ conflicts = UNION {ConflictsUnder(m, f) : f \in Fields(m, p)}
  <2>1. /\ {field.tree : field \in merged} = {Places(Merge(m, r), f) : f \in Fields(m, p)}
        /\ {field.conflicts : field \in merged} = {ConflictsUnder(m, f) : f \in Fields(m, p)}
    <3> HIDE DEF e
    <3> QED BY <1>2
  <2> HIDE DEF merged
  <2> QED BY <2>1
<1>4. Merge(m, r)[p] = Object /\ p \in Under[p] /\ p \notin ConflictPointers(m)
  <2>1. Above[p] \cap Settled(m) = {}
    BY AboveFields
  <2>2. p \notin Settled(m)
    BY DEF Settled
  <2> QED BY <2>1, <2>2, MergeValue, AboveFacts DEF ConflictPointers
<1>5. ASSUME NEW q \in Under[p], q # p,
             Merge(m, r)[q] # Absent \/ q \in ConflictPointers(m)
      PROVE  \E f \in Fields(m, p) : q \in Under[f]
  <2>1. PICK f \in Pointers : f # Root /\ Front(f) = p /\ q \in Under[f]
    BY <1>5, FieldAbove
  <2>2. \A a \in StrictlyAbove[f] : Descends(m, a)
    BY <2>1, AboveFields
  <2>3. CASE f \in Fields(m, p)
    BY <2>1, <2>3
  <2>4. CASE f \notin Fields(m, p)
    <3>1. m.current[f] = Absent /\ m.incoming[f] = Absent
      BY <2>1, <2>4 DEF Fields
    <3>2. Places(Merge(m, r), f) = {} /\ ConflictsUnder(m, f) = {}
      BY <2>1, <2>2, <3>1, GoneField
    <3>3. Merge(m, r)[q] = Absent
      BY <2>1, <3>2 DEF Places
    <3>4. q \notin ConflictPointers(m)
      BY <2>1, <3>2 DEF ConflictsUnder
    <3> QED BY <1>5, <3>3, <3>4
  <2> QED BY <2>3, <2>4
<1>6. tree = Places(Merge(m, r), p)
  <2>1. ASSUME NEW x \in tree PROVE x \in Places(Merge(m, r), p)
    <3>1. CASE x = <<p, Object>>
      BY <1>4, <3>1, ValuesAssumption DEF Places
    <3>2. ASSUME NEW f \in Fields(m, p), x \in Places(Merge(m, r), f)
          PROVE  x \in Places(Merge(m, r), p)
      BY <1>2, <3>2 DEF Places
    <3> QED BY <1>3, <3>1, <3>2
  <2>2. ASSUME NEW q \in Under[p], Merge(m, r)[q] # Absent PROVE <<q, Merge(m, r)[q]>> \in tree
    <3>1. CASE q = p
      BY <1>4, <3>1
    <3>2. CASE q # p
      <4>1. PICK f \in Fields(m, p) : q \in Under[f]
        BY <1>5, <2>2, <3>2
      <4>2. <<q, Merge(m, r)[q]>> \in Places(Merge(m, r), f)
        BY <2>2, <4>1 DEF Places
      <4> HIDE DEF tree
      <4> QED BY <1>3, <4>2
    <3> QED BY <3>1, <3>2
  <2> HIDE DEF tree
  <2>3. Places(Merge(m, r), p) \subseteq tree
    BY <2>2 DEF Places
  <2> QED BY <2>1, <2>3
<1>7. conflicts = ConflictsUnder(m, p)
  <2>1. ASSUME NEW x \in ConflictsUnder(m, p) PROVE x \in conflicts
    <3>1. PICK q \in ConflictPointers(m) \cap Under[p] : x = ConflictId(m, q)
      BY DEF ConflictsUnder
    <3>2. q # p
      BY <1>4
    <3>3. PICK f \in Fields(m, p) : q \in Under[f]
      BY <1>5, <3>2
    <3>4. x \in ConflictsUnder(m, f)
      BY <3>1, <3>3 DEF ConflictsUnder
    <3> HIDE DEF conflicts
    <3> QED BY <1>3, <3>4
  <2>2. ASSUME NEW x \in conflicts PROVE x \in ConflictsUnder(m, p)
    <3>1. PICK f \in Fields(m, p) : x \in ConflictsUnder(m, f)
      <4> HIDE DEF conflicts
      <4> QED BY <1>3, <2>2
    <3> QED BY <1>2, <3>1 DEF ConflictsUnder
  <2> HIDE DEF conflicts
  <2> QED BY <2>1, <2>2
<1> QED BY <1>1, <1>6, <1>7

(* At every place the engine comes to, it returns the subtree that the     *)
(* statement without recursion gives, and pushes its conflicts.            *)
LEMMA NodesMerged ==
    ASSUME NEW m \in Triples, NEW r, NEW p \in Pointers, p # Root,
           \A a \in StrictlyAbove[p] : Descends(m, a)
    PROVE  IsMerged(m, r, p)
<1> DEFINE e == Engine(m, r)
           Visited(q) == q # Root /\ \A a \in StrictlyAbove[q] : Descends(m, a)
           S == {q \in Pointers : Visited(q) => IsMerged(m, r, q)}
<1>1. ASSUME NEW q \in Pointers, Visited(q),
             \A f \in Pointers : f # Root /\ Front(f) = q => f \in S
      PROVE  IsMerged(m, r, q)
  <2>1. e[q] = MergeNode(m, r, q, e)
    BY EngineRuns
  <2>2. CASE Descends(m, q)
    <3>1. AllDiffer(m, q) /\ AllObjects(m, q) /\ q \notin AtomicNodes
      BY <1>1, <2>2 DEF Descends
    <3>2. e[q] = MergeObject(m, q, e)
      BY <2>1, <3>1 DEF MergeNode, AllDiffer
    <3>3. ASSUME NEW f \in Fields(m, q) PROVE IsMerged(m, r, f)
      <4>1. f \in Pointers /\ f # Root /\ Front(f) = q
        BY DEF Fields
      <4>2. Visited(f)
        BY <1>1, <2>2, <4>1, AboveFields
      <4> QED BY <1>1, <4>1, <4>2
    <3>4. e[q] = [tree |-> Places(Merge(m, r), q), conflicts |-> ConflictsUnder(m, q)]
      BY <1>1, <2>2, <3>2, <3>3, ObjectMerged
    <3> QED BY <3>4 DEF IsMerged
  <2>3. CASE ~Descends(m, q)
    <3>1. q \in Settled(m)
      BY <1>1, <2>3 DEF Settled, StrictlyAbove, Above
    <3>2. e[q] = [tree |-> Places(Winner(m, r, q), q),
                  conflicts |-> IF AllDiffer(m, q) THEN {ConflictId(m, q)} ELSE {}]
      <4>1. ~(AllDiffer(m, q) /\ AllObjects(m, q) /\ q \notin AtomicNodes)
        BY <2>3 DEF Descends
      <4> HIDE DEF e
      <4> QED BY <2>1, <4>1 DEF MergeNode, AllDiffer, Winner, Side, Taken, ResolveConflict
    <3> HIDE DEF e
    <3> QED BY <3>1, <3>2, SettledUnder DEF e, IsMerged
  <2> QED BY <2>2, <2>3
<1>2. S = Pointers
  <2>1. \A q \in Pointers : (\A f \in Pointers : f # Root /\ Front(f) = q => f \in S) => q \in S
    <3> HIDE DEF Visited
    <3> QED BY <1>1
  <2>2. S \subseteq Pointers
    OBVIOUS
  <2> HIDE DEF S
  <2> QED BY <2>1, <2>2, FieldInduction
<1> QED BY <1>2

(* The recursion of the engine and its statement without recursion are one *)
(* function: the tree and the conflicts that merge_root returns are Merge  *)
(* and ConflictIds, for three catalogs of any shape.                       *)
THEOREM EngineMerges ==
    ASSUME NEW m \in Triples, NEW r
    PROVE  /\ MergeRoot(m, r).tree = Places(Merge(m, r), Root)
           /\ MergeRoot(m, r).conflicts = ConflictIds(m)
<1>1. Root \in Pointers /\ Descends(m, Root)
  BY PointersAssumption DEF Descends
<1>2. StrictlyAbove[Root] = {}
  BY <1>1, EmptySeq, PointersAssumption, LenProperties DEF StrictlyAbove, Above, Root
<1>3. ASSUME NEW f \in Fields(m, Root) PROVE IsMerged(m, r, f)
  <2>1. f \in Pointers /\ f # Root /\ Front(f) = Root
    BY DEF Fields
  <2> QED BY <1>1, <1>2, <2>1, AboveFields, NodesMerged
<1>4. MergeRoot(m, r) = [tree |-> Places(Merge(m, r), Root), conflicts |-> ConflictsUnder(m, Root)]
  BY <1>1, <1>2, <1>3, ObjectMerged DEF MergeRoot
<1>5. Under[Root] = Pointers
  BY <1>1, AboveFacts
<1>6. ConflictsUnder(m, Root) = ConflictIds(m)
  BY <1>5 DEF ConflictsUnder, ConflictIds, ConflictPointers, Settled
<1> QED BY <1>4, <1>6
-----------------------------------------------------------------------------
(* Merging into a merge again.                                             *)
Again(m, r) == [m EXCEPT !.current = Merge(m, r)]

LEMMA AgainFacts ==
    ASSUME NEW m \in Triples, NEW r, IsResolution(r), Clean(m)
    PROVE  /\ Again(m, r) \in Triples
           /\ Again(m, r).base = m.base
           /\ Again(m, r).current = Merge(m, r)
           /\ Again(m, r).incoming = m.incoming
           /\ \A q \in Pointers :
                Merge(m, r)[q] =
                    IF m.current[q] = m.base[q] THEN m.incoming[q] ELSE m.current[q]
<1>1. \A q \in Pointers : Above[q] \cap ConflictPointers(m) = {}
  BY DEF Clean
<1> QED BY <1>1, MergeIsPointwise, MergedIsACatalog DEF Again, Triples

(* Whatever still descends in the second merge descended in the first.     *)
LEMMA DescendsAgain ==
    ASSUME NEW m \in Triples, NEW r, IsResolution(r), Clean(m), NEW p \in Pointers,
           AllDiffer(Again(m, r), p), \A a \in StrictlyAbove[p] : Descends(m, a)
    PROVE  Descends(m, p)
<1>1. SUFFICES ASSUME ~Descends(m, p) PROVE FALSE
  OBVIOUS
<1>2. p \in Settled(m)
  BY <1>1 DEF Settled, StrictlyAbove, Above
<1>3. ~AllDiffer(m, p)
  BY <1>2 DEF Clean, ConflictPointers
<1>4. \A q \in Under[p] : q \in Pointers /\ Merge(m, r)[q] = Winner(m, r, p)[q]
  BY <1>2, MergeValue, AboveFacts
<1>5. ~Same(Merge(m, r), m.incoming, p) /\ ~Same(m.incoming, m.base, p)
  BY AgainFacts DEF AllDiffer
<1>6. CASE Same(m.current, m.incoming, p)
  <2>1. \A q \in Under[p] : Merge(m, r)[q] = m.current[q]
    BY <1>4, <1>6 DEF Winner, Side
  <2> QED BY <1>5, <1>6, <2>1 DEF Same
<1>7. CASE ~Same(m.current, m.incoming, p) /\ Same(m.current, m.base, p)
  <2>1. \A q \in Under[p] : Merge(m, r)[q] = m.incoming[q]
    BY <1>4, <1>7 DEF Winner, Side
  <2> QED BY <1>5, <2>1 DEF Same
<1> QED BY <1>3, <1>5, <1>6, <1>7 DEF AllDiffer

LEMMA AgainDescends ==
    ASSUME NEW m \in Triples, NEW r, IsResolution(r), Clean(m), NEW p \in Pointers,
           \A a \in StrictlyAbove[p] : Descends(m, a),
           Descends(m, p), AllDiffer(Again(m, r), p)
    PROVE  Descends(Again(m, r), p)
<1>1. CASE p = Root
  BY <1>1 DEF Descends
<1>2. CASE p # Root
  <2>1. AllObjects(m, p) /\ p \notin AtomicNodes
    BY <1>2 DEF Descends
  <2>2. Merge(m, r)[p] = Object
    BY <2>1, AgainFacts DEF AllObjects
  <2>3. AllObjects(Again(m, r), p)
    BY <2>1, <2>2, AgainFacts DEF AllObjects
  <2> QED BY <2>1, <2>3 DEF Descends
<1> QED BY <1>1, <1>2

(* A caller who repeats a merge without conflicts changes nothing.         *)
THEOREM MergedAgain ==
    ASSUME NEW m \in Triples, NEW r, IsResolution(r), Clean(m)
    PROVE  Clean(Again(m, r)) /\ Merge(Again(m, r), NoResolutions) = Merge(m, r)
<1> DEFINE n == Again(m, r)
<1>1. ASSUME NEW p \in ConflictPointers(n) PROVE FALSE
  <2>1. p \in Pointers /\ p \in Settled(n) /\ AllDiffer(n, p) /\ ~Descends(n, p)
    BY DEF ConflictPointers, Settled
  <2>2. \A a \in StrictlyAbove[p] : a \in Pointers /\ Descends(n, a)
    BY <2>1 DEF Settled, StrictlyAbove, Above
  <2>3. \A a \in StrictlyAbove[p] : a # Root => AllDiffer(n, a)
    BY <2>2 DEF Descends
  <2> DEFINE N == {a \in StrictlyAbove[p] : ~Descends(m, a)}
  <2>4. N = {}
    <3>1. SUFFICES ASSUME N # {} PROVE FALSE
      OBVIOUS
    <3>2. N \subseteq Pointers
      BY <2>2
    <3>3. PICK a \in N : \A e \in N : Len(a) <= Len(e)
      <4> HIDE DEF N
      <4> QED BY <3>1, <3>2, Shortest
    <3>4. a \in StrictlyAbove[p] /\ ~Descends(m, a) /\ a \in Pointers /\ a # Root
      BY <2>2 DEF Descends
    <3>5. ASSUME NEW e \in StrictlyAbove[a] PROVE Descends(m, e)
      <4>1. /\ e \in Above[a] /\ Len(e) < Len(a) /\ Len(e) \in Nat /\ Len(a) \in Nat
            /\ Len(p) \in Nat /\ a \in Above[p] /\ Len(a) < Len(p)
        BY <3>4, <2>1, AboveFacts DEF StrictlyAbove
      <4>2. e \in Above[p]
        BY <2>1, <4>1, AboveFacts
      <4>3. e \in StrictlyAbove[p]
        BY <2>1, <4>1, <4>2 DEF StrictlyAbove
      <4>4. e \notin N
        <5> HIDE DEF N
        <5> QED BY <3>3, <4>1
      <4> QED BY <4>3, <4>4
    <3> QED BY <2>3, <3>4, <3>5, DescendsAgain
  <2>5. \A a \in StrictlyAbove[p] : Descends(m, a)
    BY <2>4
  <2>6. Descends(m, p)
    BY <2>1, <2>5, DescendsAgain
  <2> QED BY <2>1, <2>5, <2>6, AgainDescends
<1>2. Clean(n)
  BY <1>1 DEF Clean
<1>3. ASSUME NEW q \in Pointers PROVE Merge(n, NoResolutions)[q] = Merge(m, r)[q]
  <2>1. Merge(n, NoResolutions)[q] =
          IF n.current[q] = n.base[q] THEN n.incoming[q] ELSE n.current[q]
    BY <1>2, AgainFacts, MergeIsPointwise DEF Clean
  <2>2. Merge(m, r)[q] = IF m.current[q] = m.base[q] THEN m.incoming[q] ELSE m.current[q]
    BY AgainFacts
  <2>3. Merge(Swap(m), SwapResolutions(r))[q] =
          IF m.incoming[q] = m.base[q] THEN m.current[q] ELSE m.incoming[q]
    BY SwapFacts, MergeIsPointwise DEF Clean
  <2>4. Merge(Swap(m), SwapResolutions(r))[q] = Merge(m, r)[q]
    BY SwappedMerge
  <2> QED BY <2>1, <2>2, <2>3, <2>4, AgainFacts
<1>4. /\ Merge(n, NoResolutions) = [q \in Pointers |-> Merge(n, NoResolutions)[q]]
      /\ Merge(m, r) = [q \in Pointers |-> Merge(m, r)[q]]
  BY DEF Merge
<1> QED BY <1>2, <1>3, <1>4
-----------------------------------------------------------------------------
LEMMA SeenTriple ==
    ASSUME TypeOK, SeenOK, pc \in {"decide", "write"}
    PROVE  /\ Inputs(seen) \in Triples
           /\ IsResolution(request.resolutions)
           /\ Result \in Catalogs
<1>1. Inputs(seen) \in Triples
  BY DEF TypeOK, SeenOK, Roles, Inputs, Triples
<1>2. IsResolution(request.resolutions)
  BY DEF TypeOK, IsResolution
<1> QED BY <1>1, <1>2, MergedIsACatalog DEF Result

LEMMA PathIsAPath ==
    ASSUME TypeOK, NEW role \in Roles
    PROVE  PathOf(role) \in Paths
BY OutputsAssumption DEF TypeOK, Roles, PathOf, Paths

LEMMA InitHolds == Init => IInv
<1> SUFFICES ASSUME Init PROVE IInv
  OBVIOUS
<1>1. PICK t \in Branches, o \in Drafts :
        file = [p \in Paths |->
                    CASE p = "ancestor" -> t.base [] p = "ours" -> t.current
                      [] p = "theirs" -> t.incoming [] p = "merged" -> o]
  BY DEF Init
<1>2. t \in Triples /\ o \in Catalogs \cup {Missing}
  BY DraftsAssumption
<1>3. file \in [Paths -> Catalogs \cup {Missing}]
  BY <1>1, <1>2 DEF Paths, Triples
<1>4. seen \in [Roles -> Catalogs \cup {Missing}]
  BY DEF Init, Unread
<1>5. request.dry = TRUE /\ DOMAIN request.resolutions = {}
  BY DEF Init, NoRequest, NoResolutions
<1>6. /\ output \in Outputs /\ pc = "idle" /\ preview = NoPreview /\ answer = "none"
      /\ saves = 0
  BY DEF Init
<1>7. TypeOK
  <2>1. pc \in Roles \cup {"idle", "exists", "decide", "write"} /\ saves \in 0..MaxSaves
    BY <1>6, SavesAssumption
  <2>2. \A id \in DOMAIN request.resolutions : request.resolutions[id] \in Choice
    BY <1>5
  <2>3. request.dry \in BOOLEAN
    BY <1>5
  <2> QED BY <1>3, <1>4, <1>6, <2>1, <2>2, <2>3 DEF TypeOK
<1>8. SeenOK
  BY <1>5, <1>6 DEF SeenOK
<1> QED BY <1>7, <1>8 DEF IInv

LEMMA ResolutionsAreChoices ==
    ASSUME NEW r \in Resolutions
    PROVE  IsResolution(r)
<1>1. CASE preview = NoPreview
  BY <1>1 DEF Resolutions, NoResolutions, IsResolution
<1>2. CASE preview # NoPreview
  <2>1. PICK ids \in SUBSET ConflictIds(Inputs(preview)) : r \in [ids -> Choice]
    BY <1>2 DEF Resolutions
  <2> QED BY <2>1 DEF IsResolution
<1> QED BY <1>1, <1>2

LEMMA CallKeeps ==
    ASSUME IInv, NEW dry \in BOOLEAN, Call(dry)
    PROVE  IInv'
<1>1. PICK r \in Resolutions : request' = [dry |-> dry, resolutions |-> r]
  BY DEF Call
<1>2. request'.dry = dry /\ request'.resolutions = r /\ IsResolution(r)
  BY <1>1, ResolutionsAreChoices
<1>3. TypeOK'
  BY <1>2 DEF IInv, TypeOK, Call, IsResolution, Roles
<1>4. SeenOK'
  BY <1>2 DEF IInv, SeenOK, Call
<1> QED BY <1>3, <1>4 DEF IInv

LEMMA FinishKeeps ==
    ASSUME IInv, NEW a \in {"none", "refused", "reported", "written", "failed"}, Finish(a),
           file' \in [Paths -> Catalogs \cup {Missing}],
           \/ preview' = preview
           \/ /\ preview' = seen
              /\ Missing \notin {seen.base, seen.current, seen.incoming}
    PROVE  IInv'
<1>1. request'.dry = TRUE /\ DOMAIN request'.resolutions = {}
  BY DEF Finish, NoRequest, NoResolutions
<1>2. seen' \in [Roles -> Catalogs \cup {Missing}]
  BY DEF Finish, Unread
<1>3. TypeOK'
  BY <1>1, <1>2 DEF IInv, TypeOK, Finish
<1>4. SeenOK'
  BY <1>1 DEF IInv, SeenOK, Finish
<1> QED BY <1>3, <1>4 DEF IInv

LEMMA ReadKeeps ==
    ASSUME IInv,
           NEW role \in Roles, NEW next \in {"current", "incoming", "exists", "decide"},
           <<role, next>> \in {<<"base", "current">>, <<"current", "incoming">>,
                               <<"incoming", "exists">>, <<"output", "decide">>},
           Read(role, next)
    PROVE  IInv'
<1>1. file[PathOf(role)] \in Catalogs
  BY PathIsAPath DEF IInv, TypeOK, Read
<1>2. seen' \in [Roles -> Catalogs \cup {Missing}] /\ seen'[role] # Missing
      /\ \A other \in Roles : other # role => seen'[other] = seen[other]
  BY <1>1, DraftsAssumption DEF IInv, TypeOK, Read
<1>3. TypeOK'
  BY <1>2 DEF IInv, TypeOK, Read, Roles
<1>4. pc' # "write" /\ pc' = next /\ pc = role
  BY DEF Read
<1>5. SeenOK'
  BY <1>2, <1>4 DEF IInv, SeenOK, Read, Roles
<1> QED BY <1>3, <1>5 DEF IInv

LEMMA ReplaceKeepsFiles ==
    ASSUME IInv, Replace
    PROVE  file' \in [Paths -> Catalogs \cup {Missing}]
<1>1. Result \in Catalogs
  BY SeenTriple DEF IInv, Replace
<1> QED BY <1>1 DEF IInv, TypeOK, Replace

LEMMA SaveKeeps ==
    ASSUME IInv, NEW p \in Paths, Save(p)
    PROVE  IInv'
<1>1. file' \in [Paths -> Catalogs \cup {Missing}]
  BY DraftsAssumption DEF IInv, TypeOK, Save
<1>2. saves' \in 0..MaxSaves
  BY SavesAssumption DEF IInv, TypeOK, Save
<1>3. TypeOK'
  BY <1>1, <1>2 DEF IInv, TypeOK, Save
<1>4. MayApply' <=> MayApply
  BY DEF Save, MayApply, Fresh, Prepared, Introduced, Result
<1>5. SeenOK'
  BY <1>4 DEF IInv, SeenOK, Save
<1> QED BY <1>3, <1>5 DEF IInv

LEMMA NextKeeps == IInv /\ [Next]_vars => IInv'
<1> SUFFICES ASSUME IInv, [Next]_vars PROVE IInv'
  OBVIOUS
<1>1. CASE \E dry \in BOOLEAN : Call(dry)
  BY <1>1, CallKeeps
<1>2. CASE ReadBase \/ ReadCurrent \/ ReadIncoming \/ ReadOutput
  BY <1>2, ReadKeeps DEF ReadBase, ReadCurrent, ReadIncoming, ReadOutput, Roles
<1>3. CASE LookForOutput
  <2>1. TypeOK'
    BY <1>3 DEF IInv, TypeOK, LookForOutput, Roles
  <2>2. SeenOK'
    BY <1>3 DEF IInv, SeenOK, LookForOutput
  <2> QED BY <2>1, <2>2 DEF IInv
<1>4. CASE NotFound \/ Reject \/ Conflict
  <2>1. Finish("refused") /\ file' = file /\ preview' = preview
    BY <1>4 DEF NotFound, Reject, Conflict, Refuse
  <2> QED BY <2>1, FinishKeeps DEF IInv, TypeOK
<1>5. CASE Report
  <2>1. Missing \notin {seen.base, seen.current, seen.incoming}
    BY <1>5 DEF IInv, SeenOK, Report
  <2> QED BY <1>5, <2>1, FinishKeeps DEF IInv, TypeOK, Report
<1>6. CASE Accept
  <2>1. TypeOK'
    BY <1>6 DEF IInv, TypeOK, Accept
  <2>2. MayApply' <=> MayApply
    BY <1>6 DEF Accept, MayApply, Fresh, Prepared, Introduced, Result
  <2>3. SeenOK'
    BY <1>6, <2>2 DEF IInv, SeenOK, Accept
  <2> QED BY <2>1, <2>3 DEF IInv
<1>7. CASE Replace
  <2>1. PICK a \in {"written", "failed"} : Finish(a)
    BY <1>7 DEF Replace
  <2>2. preview' = preview
    BY <1>7 DEF Replace
  <2> QED BY <1>7, <2>1, <2>2, ReplaceKeepsFiles, FinishKeeps
<1>8. CASE WriteFails
  BY <1>8, FinishKeeps DEF WriteFails, IInv, TypeOK
<1>9. CASE \E p \in Paths : Save(p)
  BY <1>9, SaveKeeps
<1>10. CASE UNCHANGED vars
  <2>1. TypeOK'
    BY <1>10 DEF IInv, TypeOK, vars
  <2>2. MayApply' <=> MayApply
    BY <1>10 DEF vars, MayApply, Fresh, Prepared, Introduced, Result
  <2>3. SeenOK'
    BY <1>10, <2>2 DEF IInv, SeenOK, vars
  <2> QED BY <2>1, <2>3 DEF IInv
<1> QED
  BY <1>1, <1>2, <1>3, <1>4, <1>5, <1>6, <1>7, <1>8, <1>9, <1>10 DEF Next

(* The inductive invariant of a session.                                   *)
THEOREM SessionInvariant == Spec => []IInv
BY InitHolds, NextKeeps, PTL DEF Spec
-----------------------------------------------------------------------------
(* Every file is a well-formed catalog in every state of every session     *)
(* (execute_merge, whatever is resolved and whatever others save).         *)
THEOREM SessionTypes == Spec => []TypeOK
BY SessionInvariant, PTL DEF IInv

(* What execute_merge prepares is the place-by-place three-way merge.      *)
THEOREM SessionThreeWay == Spec => []ThreeWay
<1>1. IInv => ThreeWay
  <2> SUFFICES ASSUME IInv, pc = "decide"
               PROVE  \A q \in Pointers :
                        \/ Above[q] \cap ConflictPointers(Inputs(seen)) # {}
                        \/ Result[q] = IF Inputs(seen).current[q] = Inputs(seen).base[q]
                                       THEN Inputs(seen).incoming[q]
                                       ELSE Inputs(seen).current[q]
    BY DEF ThreeWay, Preparing
  <2>1. Inputs(seen) \in Triples
    BY SeenTriple DEF IInv
  <2> HIDE DEF Inputs
  <2> QED BY <2>1, MergeIsPointwise DEF Result
<1> QED BY <1>1, SessionInvariant, PTL

(* No stringUnit and no unknown subtree is put together from two catalogs. *)
THEOREM SessionAtomicNodes == Spec => []AtomicNodesAreWhole
<1>1. IInv => AtomicNodesAreWhole
  BY SeenTriple, AtomicIsWhole DEF IInv, AtomicNodesAreWhole, Preparing, Result
<1> QED BY <1>1, SessionInvariant, PTL

(* Current and incoming are treated alike by merge_node.                   *)
THEOREM SessionSymmetric == Spec => []Symmetric
<1>1. IInv => Symmetric
  BY SeenTriple, SwapFacts, SwappedMerge DEF IInv, Symmetric, Preparing, Result
<1> QED BY <1>1, SessionInvariant, PTL

(* A merge without conflicts may be repeated.                              *)
THEOREM SessionRepeats == Spec => []MergedAgainIsTheSame
<1>1. IInv => MergedAgainIsTheSame
  BY SeenTriple, MergedAgain DEF IInv, MergedAgainIsTheSame, Preparing, Result, Again
<1> QED BY <1>1, SessionInvariant, PTL

(* Both together: every place of what execute_merge prepares has the value *)
(* of a three-way merge, and every atomic node that of one catalog.        *)
THEOREM SessionPlaces == Spec => []PlacesMergeThreeWay
BY SessionThreeWay, SessionAtomicNodes, PTL DEF PlacesMergeThreeWay

(* Both together: execute_merge may be called with the branches in either  *)
(* order, and again after it is done.                                      *)
THEOREM SessionOrder == Spec => []OrderDoesNotMatter
BY SessionSymmetric, SessionRepeats, PTL DEF OrderDoesNotMatter

(* EngineAgrees holds in every reachable state: what merge_root returns    *)
(* for the catalogs a call has read is what the other theorems speak of.   *)
THEOREM SessionEngine == Spec => []EngineAgrees
<1>1. IInv => EngineAgrees
  <2> SUFFICES ASSUME IInv, pc = "decide"
               PROVE  LET done == MergeRoot(Inputs(seen), request.resolutions)
                      IN  /\ done.tree = Places(Result, Root)
                          /\ done.conflicts = ConflictIds(Inputs(seen))
    BY DEF EngineAgrees, Preparing
  <2>1. Inputs(seen) \in Triples
    BY SeenTriple DEF IInv
  <2> HIDE DEF Inputs
  <2> QED BY <2>1, EngineMerges DEF Result
<1> QED BY <1>1, SessionInvariant, PTL

(* The only step that merges is the write, from what was accepted.         *)
LEMMA MergesByReplace ==
    ASSUME IInv, Next, Merges
    PROVE  /\ Replace
           /\ MayApply
           /\ Inputs(seen) = Inputs(preview)
           /\ file[output] = preview.output
           /\ file'[output] = Merge(Inputs(preview), request.resolutions)
           /\ seen.current = preview.current
<1>1. Replace
  <2>1. pc = "write" /\ file' # file /\ saves' = saves
    BY DEF Merges
  <2>2. ~(\E p \in Paths : Save(p))
    BY <2>1 DEF Save, IInv, TypeOK
  <2> QED BY <2>1, <2>2 DEF Next, Call, Read, ReadBase, ReadCurrent, ReadIncoming, ReadOutput,
            LookForOutput, NotFound, Report, Accept, Reject, Conflict, WriteFails, Refuse, Roles
<1>2. MayApply
  BY <1>1 DEF IInv, SeenOK, Replace
<1>3. /\ seen.base = preview.base /\ seen.current = preview.current
      /\ seen.incoming = preview.incoming /\ seen.output = preview.output
  BY <1>2 DEF MayApply, Fresh, Roles
<1>4. Inputs(seen) = Inputs(preview)
  BY <1>3 DEF Inputs
<1>5. output \in Paths
  BY OutputsAssumption DEF IInv, TypeOK
<1>6. file'[output] = Result /\ file[output] = seen.output
  BY <1>1, <1>5 DEF Replace, IInv, TypeOK
<1> QED BY <1>1, <1>2, <1>3, <1>4, <1>6 DEF Result

(* Nobody's saves can make an apply use other catalogs than the report's   *)
(* (verify_fingerprint and write_if_matches together).                     *)
THEOREM AppliesThePreview == Spec => AppliesWhatWasPreviewed
<1>1. IInv /\ [Next]_vars =>
        [Merges =>
            /\ file[output] = preview.output
            /\ file'[output] = Merge(Inputs(preview), request.resolutions)]_vars
  BY MergesByReplace
<1> QED BY <1>1, SessionInvariant, PTL DEF Spec, AppliesWhatWasPreviewed

(* No merge adds an error to the catalog it was asked to change            *)
(* (validation_delta).                                                     *)
THEOREM AddsNoError == Spec => NoErrorIntroduced
<1>1. IInv /\ [Next]_vars =>
        [Merges => Errors(file'[output]) \subseteq Errors(preview.current)]_vars
  <2> SUFFICES ASSUME IInv, Next, Merges
               PROVE  Errors(file'[output]) \subseteq Errors(preview.current)
    OBVIOUS
  <2>1. Introduced = {} /\ file'[output] = Result /\ seen.current = preview.current
    BY MergesByReplace DEF MayApply, Result
  <2> QED BY <2>1 DEF Introduced
<1> QED BY <1>1, SessionInvariant, PTL DEF Spec, NoErrorIntroduced

(* A merge into the current catalog loses none of its edits, conflicts the *)
(* caller decided excepted.                                                *)
THEOREM EditsAreKept == Spec => InPlaceKeepsEdits
<1> DEFINE Kept(q) ==
        \/ file[output][q] = preview.base[q]
        \/ file'[output][q] = file[output][q]
        \/ \E p \in Above[q] \cap ConflictPointers(Inputs(preview)) :
            ConflictId(Inputs(preview), p) \in DOMAIN request.resolutions
<1>1. IInv /\ [Next]_vars =>
        [Merges /\ output = "ours" /\ preview.current = preview.output =>
            \A q \in Pointers : Kept(q)]_vars
  <2> SUFFICES ASSUME IInv, Next, Merges, preview.current = preview.output,
                      NEW q \in Pointers
               PROVE  Kept(q)
    OBVIOUS
  <2> DEFINE m == Inputs(preview)
  <2>1. /\ m \in Triples /\ m.base = preview.base /\ m.current = file[output]
        /\ file'[output] = Merge(m, request.resolutions)
    BY MergesByReplace, SeenTriple DEF Inputs, Replace, IInv
  <2>2. Unresolved(m, request.resolutions) = {}
    BY MergesByReplace DEF MayApply
  <2>3. CASE Above[q] \cap ConflictPointers(m) = {}
    <3> HIDE DEF m
    <3>1. Merge(m, request.resolutions)[q] =
            IF m.current[q] = m.base[q] THEN m.incoming[q] ELSE m.current[q]
      BY <2>1, <2>3, MergeIsPointwise
    <3> QED BY <2>1, <3>1
  <2>4. CASE Above[q] \cap ConflictPointers(m) # {}
    BY <2>2, <2>4 DEF Unresolved
  <2> QED BY <2>3, <2>4
<1> QED BY <1>1, SessionInvariant, PTL DEF Spec, InPlaceKeepsEdits
=============================================================================
