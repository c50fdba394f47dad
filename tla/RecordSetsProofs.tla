--------------------------- MODULE RecordSetsProofs ---------------------------
(*****************************************************************************)
(* A set has the records it was combined from, and its cursors go on from    *)
(* where they were, for any finite set of records.                           *)
(*                                                                           *)
(* A set is Good: of each key it has some numbers, in the form (Shaped) that *)
(* their count calls for.  Every operation keeps it so, and has the records  *)
(* that it should, key by key (GoodFrom, BitOrIs, BitAndIs, ...).  That the  *)
(* count, a fold over the keys, is the number of records is shown by taking  *)
(* a smallest set of keys for which it would not be (CountIsCardinality).    *)
(*                                                                           *)
(* Advance_1 looks in three places one after the other; since records are in *)
(* order of file, segment and number, it comes to the nearest record of all  *)
(* (AdvanceIs), and two of its steps to the second one (StepsAhead,          *)
(* StepsBehind).  A cursor has its record in the set or was told that it may *)
(* not (CursorOn), and from that record, or the one that comes instead, it   *)
(* goes on (MainFromRecord, MainFromGone).                                   *)
(*****************************************************************************)
EXTENDS RecordSets, FiniteSetTheorems, FunctionTheorems, WellFoundedInduction, TLAPS

\* A set of numbers that is not empty has a least one.
LEMMA LeastOf ==
  ASSUME NEW T \in SUBSET Nat, T # {}
  PROVE  \E m \in T : \A k \in T : m <= k
  <1> DEFINE Less == {p \in Nat \X Nat : p[1] < p[2]}
  <1>1. IsWellFoundedOn(Less, Nat)
    BY NatLessThanWellFounded DEF OpToRel
  <1> HIDE DEF Less
  <1>2. PICK m \in T : \A k \in T : ~(<<k, m>> \in Less)
    BY <1>1, WFMin
  <1>3. ASSUME NEW k \in T PROVE m <= k
    <2>1. k \in Nat /\ m \in Nat
      OBVIOUS
    <2>2. ~(<<k, m>> \in Less)
      BY <1>2
    <2>3. ~(k < m)
      BY <2>1, <2>2 DEF Less
    <2> QED BY <2>1, <2>3
  <1> QED BY <1>3

\* The records of some keys; and what the count is chosen by.
Part(s, T) == UNION {{<<k[1], k[2], r>> : r \in s[k].recs} : k \in T}
Summed(s, it) ==
  it = [T \in SUBSET Keys |->
          IF T = {} THEN 0 ELSE it[T \ {CHOOSE k \in T : TRUE}] + Cardinality(s[CHOOSE k \in T : TRUE].recs)]
LEMMA CountIsChosen == ASSUME NEW s PROVE Count(s) = (CHOOSE it : Summed(s, it))[Keys]
  BY DEF Count, FoldSet, MapThenFoldSet, Summed

LEMMA KeysFinite == IsFiniteSet(Keys) /\ Keys \subseteq Nat \X Nat
  <1> DEFINE F == [r \in SetRecs |-> <<r[1], r[2]>>]
  <1>1. IsFiniteSet(Keys)
    <2>1. F \in [SetRecs -> Keys] /\ \A k \in Keys : \E r \in SetRecs : F[r] = k
      BY DEF Keys
    <2> HIDE DEF F
    <2>2. F \in Surjection(SetRecs, Keys)
      BY <2>1 DEF Surjection
    <2> QED BY <2>2, SetsAssumption, FS_Surjection
  <1> QED BY <1>1, SetsAssumption DEF Keys

\* A set as it is kept: of each key the numbers of some records.
Segment == [kind : {"none", "single", "bitmap", "array"}, recs : SUBSET Nat]
IsSet(s) == s \in [Keys -> Segment] /\ \A k \in Keys : \A r \in s[k].recs : <<k[1], k[2], r>> \in SetRecs

LEMMA PartOfKey ==
  ASSUME NEW s, IsSet(s), NEW k \in Keys
  PROVE  /\ IsFiniteSet(Part(s, {k})) /\ IsFiniteSet(s[k].recs)
         /\ Cardinality(Part(s, {k})) = Cardinality(s[k].recs)
  <1>1. Part(s, {k}) = {<<k[1], k[2], r>> : r \in s[k].recs}
    BY DEF Part
  <1>2. Part(s, {k}) \subseteq SetRecs
    BY <1>1 DEF IsSet
  <1>3. IsFiniteSet(Part(s, {k}))
    BY <1>2, SetsAssumption, FS_Subset
  <1> DEFINE F == [x \in Part(s, {k}) |-> x[3]]
  <1>4. F \in Bijection(Part(s, {k}), s[k].recs)
    <2>1. \A x \in Part(s, {k}) : x = <<k[1], k[2], x[3]>> /\ x[3] \in s[k].recs
      BY <1>1
    <2>2. \A r \in s[k].recs : <<k[1], k[2], r>> \in Part(s, {k}) /\ F[<<k[1], k[2], r>>] = r
      BY <1>1
    <2>3. F \in [Part(s, {k}) -> s[k].recs]
      BY <2>1
    <2>4. \A x, y \in Part(s, {k}) : F[x] = F[y] => x = y
      BY <2>1
    <2> HIDE DEF F
    <2>5. F \in Injection(Part(s, {k}), s[k].recs)
      BY <2>3, <2>4 DEF Injection, IsInjective
    <2>6. F \in Surjection(Part(s, {k}), s[k].recs)
      BY <2>2, <2>3 DEF Surjection
    <2> QED BY <2>5, <2>6 DEF Bijection
  <1> QED BY <1>3, <1>4, FS_Bijection DEF ExistsBijection

LEMMA PartIsFinite ==
  ASSUME NEW s, IsSet(s), NEW T \in SUBSET Keys
  PROVE  Part(s, T) \subseteq SetRecs /\ IsFiniteSet(Part(s, T)) /\ Cardinality(Part(s, T)) \in Nat
  <1>1. Part(s, T) \subseteq SetRecs
    BY DEF IsSet, Part
  <1> QED BY <1>1, SetsAssumption, FS_Subset, FS_CardinalityType

LEMMA Disjoint ==
  ASSUME NEW A, NEW B, IsFiniteSet(A), IsFiniteSet(B), A \cap B = {}
  PROVE  Cardinality(A \cup B) = Cardinality(A) + Cardinality(B)
  <1>1. Cardinality(A \cup B) = Cardinality(A) + Cardinality(B) - Cardinality(A \cap B)
    BY FS_Union
  <1>2. Cardinality(A) \in Nat /\ Cardinality(B) \in Nat
    BY FS_CardinalityType
  <1> QED BY <1>1, <1>2, FS_EmptySet

LEMMA PartWithout ==
  ASSUME NEW s, IsSet(s), NEW T \in SUBSET Keys, NEW k \in T
  PROVE  Cardinality(Part(s, T)) = Cardinality(Part(s, T \ {k})) + Cardinality(s[k].recs)
  <1>1. Part(s, T) = Part(s, T \ {k}) \cup Part(s, {k})
    BY DEF Part
  <1>2. Part(s, T \ {k}) \cap Part(s, {k}) = {}
    <2>1. \A j \in Keys : j = <<j[1], j[2]>>
      BY KeysFinite
    <2>2. ASSUME NEW x \in Part(s, T \ {k}), x \in Part(s, {k}) PROVE FALSE
      <3>1. PICK j \in T \ {k} : x \in {<<j[1], j[2], r>> : r \in s[j].recs}
        BY DEF Part
      <3>2. x \in {<<k[1], k[2], r>> : r \in s[k].recs}
        BY <2>2 DEF Part
      <3>3. j[1] = k[1] /\ j[2] = k[2]
        BY <3>1, <3>2
      <3> QED BY <2>1, <3>3
    <2> QED BY <2>2
  <1>3. IsFiniteSet(Part(s, T \ {k})) /\ Cardinality(Part(s, T \ {k})) \in Nat
    BY PartIsFinite
  <1>4. IsFiniteSet(Part(s, {k})) /\ Cardinality(Part(s, {k})) = Cardinality(s[k].recs)
    BY PartOfKey
  <1> QED BY <1>1, <1>2, <1>3, <1>4, Disjoint

LEMMA CountIsCardinality ==
  ASSUME NEW s, IsSet(s)
  PROVE  Count(s) = Cardinality(RecordsOf(s))
  <1> DEFINE g == [T \in SUBSET Keys |-> Cardinality(Part(s, T))]
             Of(T) == CHOOSE k \in T : TRUE
  <1>1. \A T \in SUBSET Keys : T # {} => Of(T) \in T
    OBVIOUS
  <1>2. Summed(s, g)
    <2>1. ASSUME NEW T \in SUBSET Keys
          PROVE  g[T] = IF T = {} THEN 0 ELSE g[T \ {Of(T)}] + Cardinality(s[Of(T)].recs)
      <3>1. CASE T = {}
        <4>1. Part(s, T) = {}
          BY <3>1 DEF Part
        <4> QED BY <3>1, <4>1, FS_EmptySet
      <3>2. CASE T # {}
        <4>1. Of(T) \in T
          BY <3>2, <1>1
        <4> HIDE DEF Of
        <4>2. Cardinality(Part(s, T)) = Cardinality(Part(s, T \ {Of(T)})) + Cardinality(s[Of(T)].recs)
          BY <4>1, PartWithout
        <4> QED BY <3>2, <4>1, <4>2
      <3> QED BY <3>1, <3>2
    <2> QED BY <2>1 DEF Summed
  <1>3. ASSUME NEW it, Summed(s, it), NEW S \in SUBSET Keys
        PROVE  it[S] = g[S]
    <2> DEFINE Bad == {n \in Nat : \E T \in SUBSET Keys : Cardinality(T) = n /\ it[T] # g[T]}
    <2>1. SUFFICES ASSUME Bad # {} PROVE FALSE
      <3>1. IsFiniteSet(S)
        BY KeysFinite, FS_Subset
      <3> QED BY <2>1, <3>1, FS_CardinalityType
    <2>2. PICK n \in Bad : \A k \in Bad : n <= k
      BY <2>1, LeastOf
    <2>3. PICK T \in SUBSET Keys : Cardinality(T) = n /\ it[T] # g[T]
      BY <2>2
    <2>4. T # {}
      BY <1>2, <1>3, <2>3 DEF Summed
    <2>5. Of(T) \in T
      BY <1>1, <2>4
    <2>6. IsFiniteSet(T) /\ Cardinality(T \ {Of(T)}) = n - 1 /\ n - 1 \in Nat
      <3>1. IsFiniteSet(T)
        BY KeysFinite, FS_Subset
      <3> HIDE DEF Of
      <3>2. Cardinality(T \ {Of(T)}) = n - 1 /\ IsFiniteSet(T \ {Of(T)})
        BY <2>3, <2>5, <3>1, FS_RemoveElement
      <3> QED BY <3>1, <3>2, FS_CardinalityType
    <2>7. it[T \ {Of(T)}] = g[T \ {Of(T)}]
      BY <2>2, <2>6
    <2>8. it[T] = it[T \ {Of(T)}] + Cardinality(s[Of(T)].recs)
      BY <1>3, <2>4 DEF Summed
    <2>9. g[T] = g[T \ {Of(T)}] + Cardinality(s[Of(T)].recs)
      <3> HIDE DEF g
      <3> QED BY <1>2, <2>4 DEF Summed
    <2> QED BY <2>3, <2>7, <2>8, <2>9
  <1>4. Count(s) = (CHOOSE it : Summed(s, it))[Keys]
    BY CountIsChosen
  <1>5. Summed(s, CHOOSE it : Summed(s, it))
    BY <1>2
  <1>6. Count(s) = g[Keys]
    BY <1>3, <1>4, <1>5
  <1>7. Part(s, Keys) = RecordsOf(s)
    BY DEF Part, RecordsOf
  <1> QED BY <1>6, <1>7

\* A segment has the kind that its records call for.
Shaped(seg) ==
  /\ seg \in Segment /\ IsFiniteSet(seg.recs)
  /\ seg.kind = "none" => seg.recs = {}
  /\ seg.kind = "single" => \E r : seg.recs = {r}
  /\ seg.kind \in {"bitmap", "array"} => \E r, q \in seg.recs : r # q
Good(s) == IsSet(s) /\ \A k \in Keys : Shaped(s[k])

LEMMA SegSetIs ==
  ASSUME NEW rels \in SUBSET Nat, IsFiniteSet(rels)
  PROVE  Shaped(SegSet(rels)) /\ SegSet(rels).recs = rels
  <1>1. CASE rels = {}
    BY <1>1, FS_EmptySet DEF SegSet, Nothing, Shaped, Segment
  <1>2. CASE rels # {} /\ Cardinality(rels) = 1
    <2>1. \E r : rels = {r}
      BY <1>2, FS_Singleton
    <2> QED BY <1>2, <2>1 DEF SegSet, Shaped, Segment
  <1>3. CASE rels # {} /\ Cardinality(rels) # 1
    <2>1. ~\E r : rels = {r}
      BY <1>3, FS_Singleton
    <2>2. PICK r \in rels : TRUE
      BY <1>3
    <2>3. \E q \in rels : q # r
      <3>1. SUFFICES ASSUME \A q \in rels : q = r PROVE FALSE
        OBVIOUS
      <3>2. rels = {r}
        BY <2>2, <3>1
      <3> QED BY <2>1, <3>2
    <2> QED BY <1>3, <2>2, <2>3 DEF SegSet, Shaped, Segment
  <1> QED BY <1>1, <1>2, <1>3

LEMMA SegBitOrIs ==
  ASSUME NEW a, NEW b, Shaped(a), Shaped(b)
  PROVE  Shaped(SegBitOr(a, b)) /\ SegBitOr(a, b).recs = a.recs \cup b.recs
  <1>1. CASE b.kind = "none"
    BY <1>1 DEF SegBitOr, Shaped
  <1>2. CASE b.kind # "none" /\ a.kind = "none"
    BY <1>2 DEF SegBitOr, Shaped
  <1>3. CASE b.kind # "none" /\ a.kind # "none" /\ a.kind = "single" /\ b.kind = "single" /\ a.recs = b.recs
    BY <1>3 DEF SegBitOr, Shaped
  <1>4. CASE b.kind # "none" /\ a.kind # "none" /\ ~(a.kind = "single" /\ b.kind = "single" /\ a.recs = b.recs)
    <2>1. SegBitOr(a, b) = [kind |-> "bitmap", recs |-> a.recs \cup b.recs]
      BY <1>4 DEF SegBitOr
    <2>2. IsFiniteSet(a.recs \cup b.recs) /\ a.recs \cup b.recs \in SUBSET Nat
      BY FS_Union DEF Shaped, Segment
    <2>3. \E r, q \in a.recs \cup b.recs : r # q
      <3>1. CASE a.kind = "single" /\ b.kind = "single"
        <4>1. PICK r, q : a.recs = {r} /\ b.recs = {q}
          BY <3>1 DEF Shaped
        <4> QED BY <1>4, <3>1, <4>1
      <3>2. CASE a.kind # "single"
        <4>1. a.kind \in {"bitmap", "array"}
          BY <1>4, <3>2 DEF Shaped, Segment
        <4> QED BY <4>1 DEF Shaped
      <3>3. CASE b.kind # "single"
        <4>1. b.kind \in {"bitmap", "array"}
          BY <1>4, <3>3 DEF Shaped, Segment
        <4> QED BY <4>1 DEF Shaped
      <3> QED BY <3>1, <3>2, <3>3
    <2> QED BY <2>1, <2>2, <2>3 DEF Shaped, Segment
  <1> QED BY <1>1, <1>2, <1>3, <1>4

\* What an And or AndNot leaves.
Masked(a, b, rhs_not) == IF rhs_not THEN a \ b ELSE a \cap b
LEMMA SegBitAndIs ==
  ASSUME NEW a, NEW b, NEW rhs_not \in BOOLEAN, Shaped(a), Shaped(b)
  PROVE  /\ Shaped(SegBitAnd(a, b, rhs_not))
         /\ SegBitAnd(a, b, rhs_not).recs = Masked(a.recs, b.recs, rhs_not)
  <1> DEFINE left == Masked(a.recs, b.recs, rhs_not)
             untouched == a.kind = "bitmap" /\ b.kind = "single" /\ rhs_not /\ a.recs \cap b.recs = {}
  <1>1. left \in SUBSET Nat /\ IsFiniteSet(left)
    <2>1. left \in SUBSET a.recs /\ a.recs \in SUBSET Nat /\ IsFiniteSet(a.recs)
      BY DEF Shaped, Segment, Masked
    <2> HIDE DEF left
    <2> QED BY <2>1, FS_Subset
  <1>2. Shaped(Nothing)
    BY FS_EmptySet DEF Nothing, Shaped, Segment
  <1>3. CASE a.kind = "none" \/ b.kind = "none"
    BY <1>2, <1>3 DEF Masked, SegBitAnd, Nothing, Shaped
  <1>4. CASE a.kind = "single" /\ b.kind # "none"
    BY <1>2, <1>4 DEF Masked, SegBitAnd, Nothing, Shaped
  <1>5. CASE a.kind \notin {"none", "single"} /\ b.kind # "none" /\ untouched
    BY <1>5 DEF SegBitAnd, Masked
  <1>6. CASE a.kind \notin {"none", "single"} /\ b.kind # "none" /\ ~untouched
    <2>1. SegBitAnd(a, b, rhs_not) = SegSet(left)
      BY <1>6 DEF SegBitAnd, Masked, Demoted
    <2> HIDE DEF left
    <2>2. Shaped(SegSet(left)) /\ SegSet(left).recs = left
      BY <1>1, SegSetIs
    <2> QED BY <2>1, <2>2 DEF left
  <1> QED BY <1>3, <1>4, <1>5, <1>6

\* A set has a record if it has its number at its key.
LEMMA InRecords ==
  ASSUME NEW s, IsSet(s), NEW x
  PROVE  x \in RecordsOf(s) <=> x \in SetRecs /\ x[3] \in s[<<x[1], x[2]>>].recs
  <1>1. ASSUME x \in RecordsOf(s) PROVE x \in SetRecs /\ x[3] \in s[<<x[1], x[2]>>].recs
    <2>1. PICK k \in Keys : x \in {<<k[1], k[2], r>> : r \in s[k].recs}
      BY <1>1 DEF RecordsOf
    <2>2. k = <<k[1], k[2]>>
      BY KeysFinite
    <2> QED BY <2>1, <2>2 DEF IsSet
  <1>2. ASSUME x \in SetRecs, x[3] \in s[<<x[1], x[2]>>].recs PROVE x \in RecordsOf(s)
    <2>1. x = <<x[1], x[2], x[3]>> /\ <<x[1], x[2]>> \in Keys
      BY <1>2, SetsAssumption DEF Keys
    <2> QED BY <1>2, <2>1 DEF RecordsOf
  <1> QED BY <1>1, <1>2

LEMMA HasRecord ==
  ASSUME NEW s, NEW k \in Keys, NEW n \in s[k].recs
  PROVE  <<k[1], k[2], n>> \in RecordsOf(s)
  BY DEF RecordsOf

\* So sets of which that holds for the same records have the same records.
LEMMA SameRecords ==
  ASSUME NEW s, IsSet(s), NEW recs \in SUBSET SetRecs,
         \A x \in SetRecs : x[3] \in s[<<x[1], x[2]>>].recs <=> x \in recs
  PROVE  RecordsOf(s) = recs
  BY InRecords

LEMMA KeyOf == ASSUME NEW x \in SetRecs PROVE x = <<x[1], x[2], x[3]>> /\ <<x[1], x[2]>> \in Keys
  BY SetsAssumption DEF Keys

\* A set whose segments have parts of other sets' has no other records.
LEMMA GoodFrom ==
  ASSUME NEW s, s \in [Keys -> Segment], \A k \in Keys : Shaped(s[k]),
         NEW t, IsSet(t), NEW u, IsSet(u), \A k \in Keys : s[k].recs \subseteq t[k].recs \cup u[k].recs
  PROVE  Good(s)
  <1>1. ASSUME NEW k \in Keys, NEW r \in s[k].recs PROVE <<k[1], k[2], r>> \in SetRecs
    BY <1>1 DEF IsSet
  <1> QED BY <1>1 DEF Good, IsSet

LEMMA FoundIs ==
  ASSUME NEW recs \in SUBSET SetRecs
  PROVE  Good(Found(recs)) /\ RecordsOf(Found(recs)) = recs
  <1>1. ASSUME NEW k \in Keys
        PROVE  /\ InSeg(recs, k) \in SUBSET Nat /\ IsFiniteSet(InSeg(recs, k))
               /\ \A n : n \in InSeg(recs, k) <=> <<k[1], k[2], n>> \in recs
    <2>1. k = <<k[1], k[2]>>
      BY KeysFinite
    <2>2. \A x \in recs : x = <<x[1], x[2], x[3]>> /\ x[3] \in Nat
      BY SetsAssumption
    <2>3. \A n : n \in InSeg(recs, k) <=> <<k[1], k[2], n>> \in recs
      <3>1. ASSUME NEW n \in InSeg(recs, k) PROVE <<k[1], k[2], n>> \in recs
        <4>1. PICK x \in recs : <<x[1], x[2]>> = k /\ n = x[3]
          BY DEF InSeg
        <4>2. k[1] = x[1] /\ k[2] = x[2]
          BY <4>1
        <4> QED BY <4>1, <4>2, <2>2
      <3>2. ASSUME NEW n, <<k[1], k[2], n>> \in recs PROVE n \in InSeg(recs, k)
        <4> DEFINE x == <<k[1], k[2], n>>
        <4>1. x \in recs /\ <<x[1], x[2]>> = k /\ x[3] = n
          BY <3>2, <2>1
        <4> HIDE DEF x
        <4> QED BY <4>1 DEF InSeg
      <3> QED BY <3>1, <3>2
    <2>4. IsFiniteSet(recs)
      BY SetsAssumption, FS_Subset
    <2> DEFINE F == [x \in {y \in recs : <<y[1], y[2]>> = k} |-> x[3]]
    <2>5. IsFiniteSet({y \in recs : <<y[1], y[2]>> = k})
      BY <2>4, FS_Subset
    <2>6. F \in Surjection({y \in recs : <<y[1], y[2]>> = k}, InSeg(recs, k))
      BY DEF Surjection, InSeg
    <2>7. IsFiniteSet(InSeg(recs, k))
      BY <2>5, <2>6, FS_Surjection
    <2> QED BY <2>2, <2>3, <2>7 DEF InSeg
  <1>2. ASSUME NEW k \in Keys PROVE Shaped(Found(recs)[k]) /\ Found(recs)[k].recs = InSeg(recs, k)
    BY <1>1, SegSetIs DEF Found
  <1>3. IsSet(Found(recs))
    <2>1. Found(recs) \in [Keys -> Segment]
      BY <1>2 DEF Found, Shaped
    <2> QED BY <1>1, <1>2, <2>1 DEF IsSet
  <1>4. \A x \in SetRecs : x[3] \in Found(recs)[<<x[1], x[2]>>].recs <=> x \in recs
    <2>1. TAKE x \in SetRecs
    <2> DEFINE k == <<x[1], x[2]>>
    <2>2. k \in Keys /\ x = <<k[1], k[2], x[3]>>
      BY KeyOf
    <2> HIDE DEF k
    <2> QED BY <1>1, <1>2, <2>2 DEF k
  <1> QED BY <1>2, <1>3, <1>4, SameRecords DEF Good

LEMMA LoadedIs ==
  ASSUME NEW recs \in SUBSET SetRecs
  PROVE  Good(Loaded(recs)) /\ RecordsOf(Loaded(recs)) = recs
  <1>1. Good(Found(recs)) /\ RecordsOf(Found(recs)) = recs
    BY FoundIs
  <1>2. ASSUME NEW k \in Keys
        PROVE  Shaped(Loaded(recs)[k]) /\ Loaded(recs)[k].recs = Found(recs)[k].recs
    <2>1. Shaped(Found(recs)[k])
      BY <1>1 DEF Good
    <2>2. Loaded(recs)[k] = IF Found(recs)[k].kind = "bitmap" THEN [Found(recs)[k] EXCEPT !.kind = "array"] ELSE Found(recs)[k]
      BY DEF Loaded
    <2> QED BY <2>1, <2>2 DEF Shaped, Segment
  <1>3. Loaded(recs) \in [Keys -> Segment]
    BY <1>2 DEF Loaded, Shaped
  <1>4. Good(Loaded(recs))
    BY <1>1, <1>2, <1>3, GoodFrom DEF Good
  <1>5. RecordsOf(Loaded(recs)) = RecordsOf(Found(recs))
    BY <1>2 DEF RecordsOf
  <1> QED BY <1>1, <1>4, <1>5

LEMMA BitOrIs ==
  ASSUME NEW s, NEW t, Good(s), Good(t)
  PROVE  Good(BitOr(s, t)) /\ RecordsOf(BitOr(s, t)) = RecordsOf(s) \cup RecordsOf(t)
  <1>1. ASSUME NEW k \in Keys
        PROVE  Shaped(BitOr(s, t)[k]) /\ BitOr(s, t)[k].recs = s[k].recs \cup t[k].recs
    BY SegBitOrIs DEF BitOr, Good
  <1>2. BitOr(s, t) \in [Keys -> Segment]
    BY <1>1 DEF BitOr, Shaped
  <1>3. Good(BitOr(s, t))
    BY <1>1, <1>2, GoodFrom DEF Good
  <1>4. \A x \in SetRecs : x[3] \in BitOr(s, t)[<<x[1], x[2]>>].recs <=> x \in RecordsOf(s) \cup RecordsOf(t)
    BY <1>1, KeyOf, InRecords DEF Good
  <1>5. RecordsOf(s) \cup RecordsOf(t) \in SUBSET SetRecs
    BY InRecords DEF Good
  <1> QED BY <1>3, <1>4, <1>5, SameRecords DEF Good

LEMMA BitAndIs ==
  ASSUME NEW s, NEW t, NEW rhs_not \in BOOLEAN, Good(s), Good(t)
  PROVE  /\ Good(BitAnd(s, t, rhs_not))
         /\ RecordsOf(BitAnd(s, t, rhs_not))
              = Masked(RecordsOf(s), RecordsOf(t), rhs_not)
  <1> DEFINE b == BitAnd(s, t, rhs_not)
             recs == Masked(RecordsOf(s), RecordsOf(t), rhs_not)
  <1>1. ASSUME NEW k \in Keys
        PROVE  Shaped(b[k]) /\ b[k].recs = Masked(s[k].recs, t[k].recs, rhs_not)
    <2>1. b[k] = SegBitAnd(s[k], t[k], rhs_not) /\ Shaped(s[k]) /\ Shaped(t[k])
      BY DEF BitAnd, Good
    <2>2. /\ Shaped(SegBitAnd(s[k], t[k], rhs_not))
          /\ SegBitAnd(s[k], t[k], rhs_not).recs = Masked(s[k].recs, t[k].recs, rhs_not)
      BY <2>1, SegBitAndIs
    <2> HIDE DEF b
    <2> QED BY <2>1, <2>2
  <1>2. b \in [Keys -> Segment]
    BY <1>1 DEF BitAnd, Shaped
  <1> HIDE DEF b
  <1>3. Good(b)
    BY <1>1, <1>2, GoodFrom DEF Good, Masked
  <1>4. ASSUME NEW x \in SetRecs PROVE x[3] \in b[<<x[1], x[2]>>].recs <=> x \in recs
    <2> DEFINE k == <<x[1], x[2]>>
    <2>1. k \in Keys
      BY KeyOf
    <2>2. (x \in RecordsOf(s) <=> x[3] \in s[k].recs) /\ (x \in RecordsOf(t) <=> x[3] \in t[k].recs)
      BY InRecords DEF Good
    <2> HIDE DEF k
    <2>3. b[k].recs = Masked(s[k].recs, t[k].recs, rhs_not)
      BY <1>1, <2>1
    <2> QED BY <2>2, <2>3 DEF k, recs, Masked
  <1>5. recs \in SUBSET SetRecs
    BY InRecords DEF Good, Masked
  <1> HIDE DEF recs
  <1>6. RecordsOf(b) = recs
    BY <1>3, <1>4, <1>5, SameRecords DEF Good
  <1> QED BY <1>3, <1>6 DEF b, recs

\* What only leaves out segments.
LEMMA PartOfSet ==
  ASSUME NEW s, Good(s), NEW Keep \in SUBSET Keys, NEW t, t = [k \in Keys |-> IF k \in Keep THEN s[k] ELSE Nothing]
  PROVE  Good(t) /\ RecordsOf(t) = {x \in RecordsOf(s) : <<x[1], x[2]>> \in Keep}
  <1>1. Shaped(Nothing) /\ Nothing.recs = {}
    BY FS_EmptySet DEF Nothing, Shaped, Segment
  <1>2. ASSUME NEW k \in Keys
        PROVE  Shaped(t[k]) /\ t[k].recs = IF k \in Keep THEN s[k].recs ELSE {}
    BY <1>1 DEF Good
  <1>3. t \in [Keys -> Segment]
    BY <1>2 DEF Shaped
  <1>4. Good(t)
    BY <1>2, <1>3, GoodFrom DEF Good
  <1> DEFINE recs == {x \in RecordsOf(s) : <<x[1], x[2]>> \in Keep}
  <1>5. \A x \in SetRecs : x[3] \in t[<<x[1], x[2]>>].recs <=> x \in recs
    BY <1>2, KeyOf, InRecords DEF Good
  <1>6. recs \in SUBSET SetRecs
    BY InRecords DEF Good
  <1> QED BY <1>4, <1>5, <1>6, SameRecords DEF Good

LEMMA MaskRecordIs ==
  ASSUME NEW s, Good(s), NEW r \in SetRecs
  PROVE  Good(MaskRecord(s, r, TRUE)) /\ RecordsOf(MaskRecord(s, r, TRUE)) = RecordsOf(s) \ {r}
  <1> DEFINE j == <<r[1], r[2]>>
             seg == SegBitAnd(s[j], SegSet({r[3]}), TRUE)
             t == MaskRecord(s, r, TRUE)
  <1>1. j \in Keys /\ r[3] \in Nat /\ r = <<r[1], r[2], r[3]>>
    BY SetsAssumption, KeyOf
  <1>2. Shaped(SegSet({r[3]})) /\ SegSet({r[3]}).recs = {r[3]}
    BY <1>1, SegSetIs, FS_Singleton
  <1>3. Shaped(seg) /\ seg.recs = s[j].recs \ {r[3]}
    <2>1. Shaped(s[j])
      BY <1>1 DEF Good
    <2>2. seg.recs = Masked(s[j].recs, {r[3]}, TRUE) /\ Shaped(seg)
      BY <1>2, <2>1, SegBitAndIs
    <2> QED BY <2>2 DEF Masked
  <1>4. t = [s EXCEPT ![j] = seg]
    BY DEF MaskRecord
  <1>5. s \in [Keys -> Segment]
    BY DEF Good, IsSet
  <1> HIDE DEF j, seg, t
  <1>6. ASSUME NEW k \in Keys
        PROVE  Shaped(t[k]) /\ t[k].recs = IF k = j THEN s[k].recs \ {r[3]} ELSE s[k].recs
    BY <1>3, <1>4, <1>5 DEF Good
  <1>7. t \in [Keys -> Segment]
    BY <1>3, <1>4, <1>5 DEF Shaped
  <1>8. Good(t)
    BY <1>6, <1>7, GoodFrom DEF Good
  <1>9. \A x \in SetRecs : x[3] \in t[<<x[1], x[2]>>].recs <=> x \in RecordsOf(s) \ {r}
    <2>1. TAKE x \in SetRecs
    <2>2. x = <<x[1], x[2], x[3]>> /\ <<x[1], x[2]>> \in Keys
      BY KeyOf
    <2>3. x \in RecordsOf(s) <=> x[3] \in s[<<x[1], x[2]>>].recs
      BY InRecords DEF Good
    <2>4. x = r <=> <<x[1], x[2]>> = j /\ x[3] = r[3]
      BY <1>1, <2>2 DEF j
    <2> QED BY <1>6, <2>2, <2>3, <2>4
  <1>10. RecordsOf(s) \ {r} \in SUBSET SetRecs
    BY InRecords DEF Good
  <1>11. RecordsOf(t) = RecordsOf(s) \ {r}
    BY <1>8, <1>9, <1>10, SameRecords DEF Good
  <1> QED BY <1>8, <1>11 DEF t

LEMMA EmptySetIs == Good(EmptySet) /\ RecordsOf(EmptySet) = {}
  <1>1. Shaped(Nothing) /\ Nothing.recs = {}
    BY FS_EmptySet DEF Nothing, Shaped, Segment
  <1>2. Good(EmptySet)
    BY <1>1 DEF EmptySet, Good, IsSet, Shaped
  <1> QED BY <1>1, <1>2 DEF RecordsOf, EmptySet

LEMMA SegmentAndIs ==
  ASSUME NEW s, NEW t, Good(s), Good(t)
  PROVE  /\ Good(SegmentAnd(s, t))
         /\ RecordsOf(SegmentAnd(s, t))
              = {r \in RecordsOf(s) : <<r[1], r[2]>> \in {<<x[1], x[2]>> : x \in RecordsOf(t)}}
  <1> DEFINE Keep == {k \in Keys : t[k].kind # "none"}
  <1>1. SegmentAnd(s, t) = [k \in Keys |-> IF k \in Keep THEN s[k] ELSE Nothing]
    BY DEF SegmentAnd
  <1>2. ASSUME NEW k \in Keys PROVE k \in Keep <=> k \in {<<x[1], x[2]>> : x \in RecordsOf(t)}
    <2>1. Shaped(t[k]) /\ k = <<k[1], k[2]>>
      BY KeysFinite DEF Good
    <2>2. k \in Keep <=> t[k].recs # {}
      BY <2>1 DEF Shaped, Segment
    <2>3. \A x \in RecordsOf(t) : <<x[1], x[2]>> = k => x[3] \in t[k].recs
      BY InRecords DEF Good
    <2>4. \A n \in t[k].recs : <<k[1], k[2], n>> \in RecordsOf(t)
      BY HasRecord
    <2>5. ASSUME NEW n \in t[k].recs PROVE k \in {<<x[1], x[2]>> : x \in RecordsOf(t)}
      <3> DEFINE x == <<k[1], k[2], n>>
      <3>1. x \in RecordsOf(t) /\ <<x[1], x[2]>> = k
        BY <2>1, <2>4
      <3> HIDE DEF x
      <3> QED BY <3>1
    <2> QED BY <2>2, <2>3, <2>5
  <1>3. Keep \in SUBSET Keys
    OBVIOUS
  <1> HIDE DEF Keep
  <1>4. Good(SegmentAnd(s, t)) /\ RecordsOf(SegmentAnd(s, t)) = {x \in RecordsOf(s) : <<x[1], x[2]>> \in Keep}
    BY <1>1, <1>3, PartOfSet
  <1>5. \A x \in RecordsOf(s) : <<x[1], x[2]>> \in Keys
    BY InRecords, KeyOf DEF Good
  <1> QED BY <1>2, <1>4, <1>5

LEMMA MakeCopyIs ==
  ASSUME NEW s, Good(s), NEW lo, NEW hi
  PROVE  Good(MakeCopy(s, lo, hi)) /\ RecordsOf(MakeCopy(s, lo, hi)) = {r \in RecordsOf(s) : r[2] \in lo .. hi}
  <1> DEFINE Keep == {k \in Keys : k[2] \in lo .. hi}
  <1>1. MakeCopy(s, lo, hi) = [k \in Keys |-> IF k \in Keep THEN s[k] ELSE Nothing]
    BY DEF MakeCopy
  <1>2. \A x \in RecordsOf(s) : <<x[1], x[2]>> \in Keep <=> x[2] \in lo .. hi
    BY InRecords, KeyOf DEF Good
  <1>3. Keep \in SUBSET Keys
    OBVIOUS
  <1> HIDE DEF Keep
  <1>4. Good(MakeCopy(s, lo, hi)) /\ RecordsOf(MakeCopy(s, lo, hi)) = {x \in RecordsOf(s) : <<x[1], x[2]>> \in Keep}
    BY <1>1, <1>3, PartOfSet
  <1>5. {x \in RecordsOf(s) : <<x[1], x[2]>> \in Keep} = {r \in RecordsOf(s) : r[2] \in lo .. hi}
    BY <1>2
  <1> QED BY <1>4, <1>5

LEMMA ClearMemberIs ==
  ASSUME NEW s, Good(s), NEW m
  PROVE  Good(ClearMember(s, m)) /\ RecordsOf(ClearMember(s, m)) = {r \in RecordsOf(s) : r[1] # m}
  <1> DEFINE Keep == {k \in Keys : k[1] # m}
  <1>1. ClearMember(s, m) = [k \in Keys |-> IF k \in Keep THEN s[k] ELSE Nothing]
    BY DEF ClearMember
  <1>2. \A x \in RecordsOf(s) : <<x[1], x[2]>> \in Keep <=> x[1] # m
    BY InRecords, KeyOf DEF Good
  <1>3. Keep \in SUBSET Keys
    OBVIOUS
  <1> HIDE DEF Keep
  <1>4. Good(ClearMember(s, m)) /\ RecordsOf(ClearMember(s, m)) = {x \in RecordsOf(s) : <<x[1], x[2]>> \in Keep}
    BY <1>1, <1>3, PartOfSet
  <1>5. {x \in RecordsOf(s) : <<x[1], x[2]>> \in Keep} = {r \in RecordsOf(s) : r[1] # m}
    BY <1>2
  <1> QED BY <1>4, <1>5

\* The set has its records and the shape they call for.
SetOK == Good(set) /\ RecordsOf(set) = members

LEMMA SetIsTrue ==
  ASSUME SetOK
  PROVE  SetsAreRecords
  <1>1. Good(set) /\ IsSet(set) /\ RecordsOf(set) = members /\ members \in SUBSET SetRecs
    BY InRecords DEF SetOK, Good
  <1>2. Count(set) = Cardinality(members)
    BY <1>1, CountIsCardinality
  <1>3. ASSUME NEW k \in Keys
        PROVE  CASE set[k].kind = "none" -> set[k].recs = {}
                 [] set[k].kind = "single" -> Cardinality(set[k].recs) = 1
                 [] OTHER -> Cardinality(set[k].recs) > 1
    <2>1. Shaped(set[k]) /\ set[k].kind \in {"none", "single", "bitmap", "array"}
      BY <1>1 DEF Good, Shaped, Segment
    <2>2. IsFiniteSet(set[k].recs) /\ Cardinality(set[k].recs) \in Nat
      BY <2>1, FS_CardinalityType DEF Shaped
    <2>3. CASE set[k].kind = "none"
      BY <2>1, <2>3 DEF Shaped
    <2>4. CASE set[k].kind = "single"
      BY <2>1, <2>4, FS_Singleton DEF Shaped
    <2>5. CASE set[k].kind \in {"bitmap", "array"}
      <3>1. PICK r, q \in set[k].recs : r # q
        BY <2>1, <2>5 DEF Shaped
      <3>2. Cardinality(set[k].recs) # 0
        BY <2>2, <3>1, FS_EmptySet
      <3>3. Cardinality(set[k].recs) # 1
        <4>1. ASSUME Cardinality(set[k].recs) = 1 PROVE FALSE
          <5>1. \E x : set[k].recs = {x}
            BY <2>2, <4>1, FS_Singleton
          <5> QED BY <3>1, <5>1
        <4> QED BY <4>1
      <3>4. Cardinality(set[k].recs) > 1
        BY <2>2, <3>2, <3>3
      <3> QED BY <2>5, <3>4
    <2> QED BY <2>1, <2>3, <2>4, <2>5
  <1>4. ASSUME NEW r \in SetRecs PROVE ContainsAbsRecNum(set, r) = (r \in members)
    BY <1>1, InRecords DEF ContainsAbsRecNum
  <1>5. ASSUME NEW r \in SetRecs PROVE AnyIntersection(set, Found({r})) = (r \in members)
    <2>1. Good(Found({r})) /\ RecordsOf(Found({r})) = {r}
      BY FoundIs
    <2>2. \A k \in Keys : \A n \in Found({r})[k].recs : k = <<r[1], r[2]>> /\ n = r[3]
      <3>1. \A k \in Keys : \A n \in Found({r})[k].recs : <<k[1], k[2], n>> \in {r}
        BY <2>1, HasRecord
      <3>2. \A k \in Keys : k = <<k[1], k[2]>>
        BY KeysFinite
      <3> QED BY <3>1, <3>2
    <2>3. r[3] \in Found({r})[<<r[1], r[2]>>].recs
      BY <2>1, InRecords DEF Good
    <2>4. <<r[1], r[2]>> \in Keys
      BY KeyOf
    <2>5. AnyIntersection(set, Found({r})) <=> r[3] \in set[<<r[1], r[2]>>].recs
      BY <2>2, <2>3, <2>4 DEF AnyIntersection
    <2>6. AnyIntersection(set, Found({r})) <=> r \in members
      BY <1>1, <2>5, InRecords
    <2>7. AnyIntersection(set, Found({r})) \in BOOLEAN
      BY DEF AnyIntersection
    <2> QED BY <2>6, <2>7
  <1>6. SingleRecordNumber(set) # {} <=> Cardinality(members) = 1
    <2>1. IsFiniteSet(members)
      BY <1>1, SetsAssumption, FS_Subset
    <2>2. ASSUME NEW r \in SingleRecordNumber(set) PROVE \E x : members = {x}
      <3>1. /\ r \in members /\ r \in SetRecs
            /\ {k \in Keys : set[k].kind # "none"} = {<<r[1], r[2]>>} /\ set[<<r[1], r[2]>>].kind = "single"
        BY <1>1, <2>2 DEF SingleRecordNumber
      <3>2. PICK n : set[<<r[1], r[2]>>].recs = {n}
        BY <1>1, <3>1, KeyOf DEF Good, Shaped
      <3>3. ASSUME NEW x \in members PROVE x = r
        <4>1. x \in SetRecs /\ x[3] \in set[<<x[1], x[2]>>].recs
          BY <1>1, <3>3, InRecords
        <4>2. <<x[1], x[2]>> \in Keys /\ x = <<x[1], x[2], x[3]>> /\ r = <<r[1], r[2], r[3]>>
          BY <3>1, <4>1, KeyOf
        <4>3. set[<<x[1], x[2]>>].kind # "none"
          BY <1>1, <4>1, <4>2 DEF Good, Shaped
        <4>4. <<x[1], x[2]>> = <<r[1], r[2]>>
          BY <3>1, <4>2, <4>3
        <4>5. r[3] \in set[<<r[1], r[2]>>].recs
          BY <1>1, <3>1, InRecords
        <4>6. x[3] = r[3]
          BY <3>2, <4>1, <4>4, <4>5
        <4> QED BY <4>2, <4>4, <4>6
      <3>4. members = {r}
        BY <3>1, <3>3
      <3> QED BY <3>4
    <2>3. ASSUME NEW r, members = {r} PROVE r \in SingleRecordNumber(set)
      <3> DEFINE j == <<r[1], r[2]>>
      <3>1. r \in SetRecs /\ r \in RecordsOf(set) /\ j \in Keys /\ r = <<r[1], r[2], r[3]>>
        BY <1>1, <2>3, KeyOf
      <3>2. \A k \in Keys : \A n \in set[k].recs : k = j /\ n = r[3]
        <4>1. \A k \in Keys : \A n \in set[k].recs : <<k[1], k[2], n>> = r
          BY <1>1, <2>3, HasRecord
        <4>2. \A k \in Keys : k = <<k[1], k[2]>>
          BY KeysFinite
        <4> QED BY <4>1, <4>2
      <3>3. r[3] \in set[j].recs
        BY <1>1, <3>1, InRecords
      <3>4. \A k \in Keys : Shaped(set[k]) /\ set[k].kind \in {"none", "single", "bitmap", "array"}
        BY <1>1 DEF Good, Shaped, Segment
      <3> HIDE DEF j
      <3>5. set[j].kind = "single"
        BY <3>1, <3>2, <3>3, <3>4 DEF Shaped
      <3>6. \A k \in Keys \ {j} : set[k].kind = "none"
        <4>1. TAKE k \in Keys \ {j}
        <4>2. set[k].recs = {}
          BY <3>2
        <4> QED BY <3>4, <4>2 DEF Shaped
      <3>7. {k \in Keys : set[k].kind # "none"} = {j}
        BY <3>1, <3>5, <3>6
      <3> QED BY <3>1, <3>5, <3>7 DEF SingleRecordNumber, j
    <2>4. Cardinality(members) = 1 <=> \E x : members = {x}
      BY <2>1, FS_Singleton
    <2> QED BY <2>2, <2>3, <2>4
  <1> QED BY <1>1, <1>2, <1>3, <1>4, <1>5, <1>6 DEF SetsAreRecords

(* The order of the records, and the first and the last of some.              *)
\* Records in their order.
Triples == Nat \X Nat \X Nat
LEMMA BeforeIsOrder ==
  /\ \A a \in Triples : ~Before(a, a)
  /\ \A a, b \in Triples : a = b \/ Before(a, b) \/ Before(b, a)
  /\ \A a, b \in Triples : Before(a, b) => ~Before(b, a)
  /\ \A a, b, c \in Triples : Before(a, b) /\ Before(b, c) => Before(a, c)
  <1>1. \A a \in Triples : a[1] \in Nat /\ a[2] \in Nat /\ a[3] \in Nat /\ a = <<a[1], a[2], a[3]>>
    BY DEF Triples
  <1> QED BY <1>1 DEF Before

LEMMA FirstIs ==
  ASSUME NEW T \in SUBSET Triples, IsFiniteSet(T), T # {}
  PROVE  First(T) \in T /\ \A x \in T \ {First(T)} : Before(First(T), x)
  <1>1. \A r \in T : IsFiniteSet(Preceding(T, r)) /\ Cardinality(Preceding(T, r)) \in Nat
    <2>1. TAKE r \in T
    <2>2. Preceding(T, r) \in SUBSET T
      BY DEF Preceding
    <2> QED BY <2>2, FS_Subset, FS_CardinalityType
  <1>2. PICK r \in T : \A x \in T : Cardinality(Preceding(T, r)) <= Cardinality(Preceding(T, x))
    <2> DEFINE Cards == {Cardinality(Preceding(T, x)) : x \in T}
    <2>1. Cards \in SUBSET Nat /\ Cards # {}
      BY <1>1
    <2>2. PICK m \in Cards : \A k \in Cards : m <= k
      BY <2>1, LeastOf
    <2> QED BY <2>2
  <1>3. ASSUME NEW q \in Preceding(T, r) PROVE FALSE
    <2>1. q \in T /\ Before(q, r)
      BY <1>3 DEF Preceding
    <2>2. Preceding(T, q) \in SUBSET Preceding(T, r) /\ q \notin Preceding(T, q)
      BY <2>1, BeforeIsOrder DEF Preceding
    <2>3. Cardinality(Preceding(T, q)) <= Cardinality(Preceding(T, r))
          /\ (Cardinality(Preceding(T, r)) = Cardinality(Preceding(T, q)) => Preceding(T, r) = Preceding(T, q))
      BY <1>1, <2>2, FS_Subset
    <2>4. Cardinality(Preceding(T, r)) <= Cardinality(Preceding(T, q))
      BY <1>2, <2>1
    <2>5. Cardinality(Preceding(T, r)) = Cardinality(Preceding(T, q))
      BY <1>1, <2>1, <2>3, <2>4
    <2> QED BY <1>3, <2>2, <2>3, <2>5
  <1>4. \A x \in T \ {r} : Before(r, x)
    BY <1>3, BeforeIsOrder DEF Preceding
  <1> QED BY <1>4 DEF First

LEMMA FinalIs ==
  ASSUME NEW T \in SUBSET Triples, IsFiniteSet(T), T # {}
  PROVE  Final(T) \in T /\ \A x \in T \ {Final(T)} : Before(x, Final(T))
  <1>1. \A r \in T : IsFiniteSet(After(T, r)) /\ Cardinality(After(T, r)) \in Nat
    <2>1. TAKE r \in T
    <2>2. After(T, r) \in SUBSET T
      BY DEF After
    <2> QED BY <2>2, FS_Subset, FS_CardinalityType
  <1>2. PICK r \in T : \A x \in T : Cardinality(After(T, r)) <= Cardinality(After(T, x))
    <2> DEFINE Cards == {Cardinality(After(T, x)) : x \in T}
    <2>1. Cards \in SUBSET Nat /\ Cards # {}
      BY <1>1
    <2>2. PICK m \in Cards : \A k \in Cards : m <= k
      BY <2>1, LeastOf
    <2> QED BY <2>2
  <1>3. ASSUME NEW q \in After(T, r) PROVE FALSE
    <2>1. q \in T /\ Before(r, q)
      BY <1>3 DEF After
    <2>2. After(T, q) \in SUBSET After(T, r) /\ q \notin After(T, q)
      BY <2>1, BeforeIsOrder DEF After
    <2>3. Cardinality(After(T, q)) <= Cardinality(After(T, r))
          /\ (Cardinality(After(T, r)) = Cardinality(After(T, q)) => After(T, r) = After(T, q))
      BY <1>1, <2>2, FS_Subset
    <2>4. Cardinality(After(T, r)) <= Cardinality(After(T, q))
      BY <1>2, <2>1
    <2>5. Cardinality(After(T, r)) = Cardinality(After(T, q))
      BY <1>1, <2>1, <2>3, <2>4
    <2> QED BY <1>3, <2>2, <2>3, <2>5
  <1>4. \A x \in T \ {r} : Before(x, r)
    BY <1>3, BeforeIsOrder DEF After
  <1> QED BY <1>4 DEF Final

LEMMA OnlyFirst ==
  ASSUME NEW T \in SUBSET Triples, IsFiniteSet(T), NEW m \in T, \A x \in T \ {m} : Before(m, x)
  PROVE  First(T) = m
  BY FirstIs, BeforeIsOrder

LEMMA OnlyFinal ==
  ASSUME NEW T \in SUBSET Triples, IsFiniteSet(T), NEW m \in T, \A x \in T \ {m} : Before(x, m)
  PROVE  Final(T) = m
  BY FinalIs, BeforeIsOrder

\* Whatever level Advance_1 finds it at, it goes to the next record there is.
LEMMA AdvanceIs ==
  ASSUME NEW s, RecordsOf(s) \in SUBSET SetRecs, NEW c, c.at \in Triples, NEW forward \in BOOLEAN
  PROVE  Advance_1(c, s, forward) =
           IF forward THEN IF After(RecordsOf(s), c.at) = {} THEN AtEnd(c) ELSE AtRec(c, First(After(RecordsOf(s), c.at)))
           ELSE IF Preceding(RecordsOf(s), c.at) = {} THEN AtEnd(c) ELSE AtRec(c, Final(Preceding(RecordsOf(s), c.at)))
  <1> DEFINE S == RecordsOf(s)
             inSeg == {r \in S : r[1] = c.at[1] /\ r[2] = c.at[2]}
             inFile == {r \in S : r[1] = c.at[1]}
             On(recs) == IF forward THEN After(recs, c.at) ELSE Preceding(recs, c.at)
             tried == IF On(inSeg) # {} THEN On(inSeg) ELSE IF On(inFile) # {} THEN On(inFile) ELSE On(S)
  <1>1. S \in SUBSET Triples /\ IsFiniteSet(S)
    BY SetsAssumption, FS_Subset DEF Triples
  <1>2. Advance_1(c, s, forward) = IF tried = {} THEN AtEnd(c) ELSE AtRec(c, IF forward THEN First(tried) ELSE Final(tried))
    BY DEF Advance_1
  <1> HIDE DEF S
  <1>3. On(inSeg) \in SUBSET On(S) /\ On(inFile) \in SUBSET On(S) /\ On(S) \in SUBSET S
    BY DEF After, Preceding
  <1>4. tried \in SUBSET On(S) /\ (tried = {} <=> On(S) = {})
    BY <1>3
  <1>5. IsFiniteSet(tried) /\ tried \in SUBSET Triples /\ IsFiniteSet(On(S)) /\ On(S) \in SUBSET Triples
    BY <1>1, <1>3, <1>4, FS_Subset
  <1>6. \A a \in Triples : a[1] \in Nat /\ a[2] \in Nat /\ a[3] \in Nat /\ a = <<a[1], a[2], a[3]>>
    BY DEF Triples
  <1>7. \A x \in On(S) \ tried : \A y \in tried : IF forward THEN Before(y, x) ELSE Before(x, y)
    <2>1. CASE forward
      BY <1>1, <1>6, <2>1 DEF After, Before
    <2>2. CASE ~forward
      BY <1>1, <1>6, <2>2 DEF Preceding, Before
    <2> QED BY <2>1, <2>2
  <1>8. CASE forward /\ tried # {}
    <2>1. On(S) = After(S, c.at)
      BY <1>8
    <2> HIDE DEF On, tried
    <2>2. First(tried) \in tried /\ \A x \in tried \ {First(tried)} : Before(First(tried), x)
      BY <1>5, <1>8, FirstIs
    <2>3. \A x \in On(S) \ {First(tried)} : Before(First(tried), x)
      BY <1>7, <1>8, <2>2
    <2>4. First(On(S)) = First(tried)
      BY <1>4, <1>5, <2>2, <2>3, OnlyFirst
    <2> QED BY <1>2, <1>4, <1>8, <2>1, <2>4 DEF S
  <1>9. CASE ~forward /\ tried # {}
    <2>1. On(S) = Preceding(S, c.at)
      BY <1>9
    <2> HIDE DEF On, tried
    <2>2. Final(tried) \in tried /\ \A x \in tried \ {Final(tried)} : Before(x, Final(tried))
      BY <1>5, <1>9, FinalIs
    <2>3. \A x \in On(S) \ {Final(tried)} : Before(x, Final(tried))
      BY <1>7, <1>9, <2>2
    <2>4. Final(On(S)) = Final(tried)
      BY <1>4, <1>5, <2>2, <2>3, OnlyFinal
    <2> QED BY <1>2, <1>4, <1>9, <2>1, <2>4 DEF S
  <1>10. CASE tried = {}
    <2>1. forward => On(S) = After(S, c.at)
      OBVIOUS
    <2>2. ~forward => On(S) = Preceding(S, c.at)
      OBVIOUS
    <2> HIDE DEF On, tried
    <2> QED BY <1>2, <1>4, <1>10, <2>1, <2>2 DEF S
  <1> QED BY <1>8, <1>9, <1>10

(* The cursor.                                                                *)
\* Cursors, at a record there may be.
Cursor == [open : BOOLEAN, at : Triples, lar : {<<>>} \cup {<<r>> : r \in Triples}, needs : BOOLEAN, stays : BOOLEAN]
\* A cursor that has a record is open and at it, and has not lost it unless it was told.
CursorOn(c, S) == c \in Cursor /\ (c.lar # <<>> => c.open /\ c.lar = <<c.at>> /\ (c.needs \/ c.at \in S))

LEMMA NeedsIs ==
  ASSUME NEW c \in Cursor, NEW v
  PROVE  [c EXCEPT !.needs = v] = [open |-> c.open, at |-> c.at, lar |-> c.lar, needs |-> v, stays |-> c.stays]
  BY DEF Cursor

LEMMA AtRecIs ==
  ASSUME NEW c \in Cursor, NEW r \in Triples
  PROVE  /\ AtRec(c, r) \in Cursor /\ AtRec(c, r).at = r /\ AtRec(c, r).lar = <<r>> /\ AtRec(c, r).lar # <<>>
         /\ ~AtRec(c, r).needs /\ AtRec(c, r).stays = c.stays /\ AtRec(c, r).open = c.open
  <1> DEFINE a == [c EXCEPT !.at = r]
             b == [a EXCEPT !.lar = <<r>>]
             d == [b EXCEPT !.needs = FALSE]
  <1>1. a = [open |-> c.open, at |-> r, lar |-> c.lar, needs |-> c.needs, stays |-> c.stays]
    BY DEF Cursor
  <1>2. a \in Cursor
    BY <1>1 DEF Cursor
  <1>3. AtRec(c, r) = d
    BY DEF AtRec
  <1> HIDE DEF a
  <1>4. b = [open |-> a.open, at |-> a.at, lar |-> <<r>>, needs |-> a.needs, stays |-> a.stays]
    BY <1>2 DEF Cursor
  <1>5. b \in Cursor
    BY <1>2, <1>4 DEF Cursor
  <1> HIDE DEF b
  <1>6. d = [open |-> b.open, at |-> b.at, lar |-> b.lar, needs |-> FALSE, stays |-> b.stays]
    BY <1>5, NeedsIs
  <1>7. d \in Cursor
    BY <1>5, <1>6 DEF Cursor
  <1> HIDE DEF d
  <1> QED BY <1>1, <1>3, <1>4, <1>6, <1>7

LEMMA AtEndIs ==
  ASSUME NEW c \in Cursor
  PROVE  /\ AtEnd(c) \in Cursor /\ AtEnd(c).at = c.at /\ AtEnd(c).lar = <<>> /\ AtEnd(c).needs = c.needs
         /\ AtEnd(c).stays = c.stays /\ AtEnd(c).open = c.open
  <1>1. AtEnd(c) = [open |-> c.open, at |-> c.at, lar |-> <<>>, needs |-> c.needs, stays |-> c.stays]
    BY DEF AtEnd, Cursor
  <1> QED BY <1>1 DEF Cursor

LEMMA Some ==
  ASSUME NEW S \in SUBSET Triples, IsFiniteSet(S), NEW p \in Triples
  PROVE  /\ After(S, p) \in SUBSET S /\ IsFiniteSet(After(S, p)) /\ After(S, p) \in SUBSET Triples
         /\ Preceding(S, p) \in SUBSET S /\ IsFiniteSet(Preceding(S, p)) /\ Preceding(S, p) \in SUBSET Triples
  <1>1. After(S, p) \in SUBSET S /\ Preceding(S, p) \in SUBSET S
    BY DEF After, Preceding
  <1> QED BY <1>1, FS_Subset

LEMMA Beyond ==
  ASSUME NEW S \in SUBSET Triples, IsFiniteSet(S), NEW p \in Triples, After(S, p) # {}, NEW f, f = First(After(S, p))
  PROVE  f \in S /\ Before(p, f) /\ After(S, p) \ {f} = After(S, f)
  <1>1. f \in After(S, p) /\ \A x \in After(S, p) \ {f} : Before(f, x)
    BY Some, FirstIs
  <1>2. f \in S /\ Before(p, f) /\ f \in Triples
    BY <1>1 DEF After
  <1>3. After(S, p) \ {f} \subseteq After(S, f)
    BY <1>1, Some DEF After
  <1>4. After(S, f) \subseteq After(S, p) \ {f}
    BY <1>2, BeforeIsOrder DEF After
  <1> QED BY <1>2, <1>3, <1>4

\* How many records there are from a place to the n-th.
\* The first record after a place, and the first after that; the same going back.
TwoAhead(S, p, f, g) ==
  /\ After(S, p) = {} => \A r : Cardinality(After(S, p) \ After(S, r)) = 0
  /\ After(S, p) # {} =>
       /\ f \in S /\ Cardinality(After(S, p) \ After(S, f)) = 1
       /\ After(S, f) = {} => \A r : Cardinality(After(S, p) \ After(S, r)) \in {0, 1}
       /\ After(S, f) # {} => g \in S /\ Cardinality(After(S, p) \ After(S, g)) = 2
LEMMA Ahead ==
  ASSUME NEW S \in SUBSET Triples, IsFiniteSet(S), NEW p \in Triples, NEW f, NEW g,
         f = First(After(S, p)), g = First(After(S, f))
  PROVE  TwoAhead(S, p, f, g)
  <1>1. CASE After(S, p) = {}
    <2>1. \A r : After(S, p) \ After(S, r) = {}
      BY <1>1
    <2> QED BY <1>1, <2>1, FS_EmptySet DEF TwoAhead
  <1>2. CASE After(S, p) # {}
    <2>1. f \in After(S, p) /\ \A x \in After(S, p) \ {f} : Before(f, x)
      BY <1>2, Some, FirstIs
    <2>2. f \in S /\ Before(p, f) /\ f \in Triples
      BY <2>1 DEF After
    <2>3. After(S, p) \ {f} = After(S, f)
      BY <1>2, Beyond
    <2>4. After(S, p) \ After(S, f) = {f}
      BY <2>1, <2>3
    <2>5. CASE After(S, f) = {}
      <3>1. After(S, p) = {f}
        BY <2>1, <2>3, <2>5
      <3>2. \A r : After(S, p) \ After(S, r) \in {{}, {f}}
        BY <3>1
      <3>3. \A r : Cardinality(After(S, p) \ After(S, r)) \in {0, 1}
        BY <3>2, FS_EmptySet, FS_Singleton
      <3> QED BY <1>2, <2>2, <2>3, <2>4, <2>5, <3>3, FS_Singleton DEF TwoAhead
    <2>6. CASE After(S, f) # {}
      <3>1. g \in After(S, f) /\ \A x \in After(S, f) \ {g} : Before(g, x)
        BY <2>2, <2>6, Some, FirstIs
      <3>2. After(S, f) \ {g} = After(S, g)
        <4>1. g \in S /\ g \in Triples /\ Before(f, g)
          BY <3>1 DEF After
        <4>2. After(S, f) \ {g} \subseteq After(S, g)
          BY <2>2, <3>1, Some DEF After
        <4>3. After(S, g) \subseteq After(S, f) \ {g}
          BY <2>2, <4>1, BeforeIsOrder DEF After
        <4> QED BY <4>2, <4>3
      <3>3. After(S, p) \ After(S, g) = {f} \cup {g} /\ {f} \cap {g} = {} /\ g \in S
        BY <2>1, <2>2, <2>3, <3>1, <3>2, Some
      <3>4. Cardinality({f} \cup {g}) = Cardinality({f}) + Cardinality({g})
        BY <3>3, FS_Singleton, Disjoint
      <3>5. Cardinality(After(S, p) \ After(S, g)) = 2
        BY <3>3, <3>4, FS_Singleton
      <3> QED BY <1>2, <2>2, <2>3, <2>4, <2>6, <3>3, <3>5, FS_Singleton DEF TwoAhead
    <2> QED BY <2>5, <2>6
  <1> QED BY <1>1, <1>2

TwoBehind(S, p, f, g) ==
  /\ Preceding(S, p) = {} => \A r : Cardinality(Preceding(S, p) \ Preceding(S, r)) = 0
  /\ Preceding(S, p) # {} =>
       /\ f \in S /\ Cardinality(Preceding(S, p) \ Preceding(S, f)) = 1
       /\ Preceding(S, f) = {} => \A r : Cardinality(Preceding(S, p) \ Preceding(S, r)) \in {0, 1}
       /\ Preceding(S, f) # {} => g \in S /\ Cardinality(Preceding(S, p) \ Preceding(S, g)) = 2
LEMMA Behind ==
  ASSUME NEW S \in SUBSET Triples, IsFiniteSet(S), NEW p \in Triples, NEW f, NEW g,
         f = Final(Preceding(S, p)), g = Final(Preceding(S, f))
  PROVE  TwoBehind(S, p, f, g)
  <1>1. CASE Preceding(S, p) = {}
    <2>1. \A r : Preceding(S, p) \ Preceding(S, r) = {}
      BY <1>1
    <2> QED BY <1>1, <2>1, FS_EmptySet DEF TwoBehind
  <1>2. CASE Preceding(S, p) # {}
    <2>1. f \in Preceding(S, p) /\ \A x \in Preceding(S, p) \ {f} : Before(x, f)
      BY <1>2, Some, FinalIs
    <2>2. f \in S /\ Before(f, p) /\ f \in Triples
      BY <2>1 DEF Preceding
    <2>3. Preceding(S, p) \ {f} = Preceding(S, f)
      <3>1. Preceding(S, p) \ {f} \subseteq Preceding(S, f)
        BY <2>1, Some DEF Preceding
      <3>2. Preceding(S, f) \subseteq Preceding(S, p) \ {f}
        BY <2>2, BeforeIsOrder DEF Preceding
      <3> QED BY <3>1, <3>2
    <2>4. Preceding(S, p) \ Preceding(S, f) = {f}
      BY <2>1, <2>3
    <2>5. CASE Preceding(S, f) = {}
      <3>1. Preceding(S, p) = {f}
        BY <2>1, <2>3, <2>5
      <3>2. \A r : Preceding(S, p) \ Preceding(S, r) \in {{}, {f}}
        BY <3>1
      <3>3. \A r : Cardinality(Preceding(S, p) \ Preceding(S, r)) \in {0, 1}
        BY <3>2, FS_EmptySet, FS_Singleton
      <3> QED BY <1>2, <2>2, <2>4, <2>5, <3>3, FS_Singleton DEF TwoBehind
    <2>6. CASE Preceding(S, f) # {}
      <3>1. g \in Preceding(S, f) /\ \A x \in Preceding(S, f) \ {g} : Before(x, g)
        BY <2>2, <2>6, Some, FinalIs
      <3>2. Preceding(S, f) \ {g} = Preceding(S, g)
        <4>1. g \in S /\ g \in Triples /\ Before(g, f)
          BY <3>1 DEF Preceding
        <4>2. Preceding(S, f) \ {g} \subseteq Preceding(S, g)
          BY <2>2, <3>1, Some DEF Preceding
        <4>3. Preceding(S, g) \subseteq Preceding(S, f) \ {g}
          BY <2>2, <4>1, BeforeIsOrder DEF Preceding
        <4> QED BY <4>2, <4>3
      <3>3. Preceding(S, p) \ Preceding(S, g) = {f} \cup {g} /\ {f} \cap {g} = {} /\ g \in S
        BY <2>1, <2>2, <2>3, <3>1, <3>2, Some
      <3>4. Cardinality({f} \cup {g}) = Cardinality({f}) + Cardinality({g})
        BY <3>3, FS_Singleton, Disjoint
      <3>5. Cardinality(Preceding(S, p) \ Preceding(S, g)) = 2
        BY <3>3, <3>4, FS_Singleton
      <3> QED BY <1>2, <2>2, <2>4, <2>6, <3>3, <3>5, FS_Singleton DEF TwoBehind
    <2> QED BY <2>5, <2>6
  <1> QED BY <1>1, <1>2

\* What a step comes to from a place, in records.
Gone(S, p, n, r) == IF n > 0 THEN Cardinality(After(S, p) \ After(S, r)) ELSE -Cardinality(Preceding(S, p) \ Preceding(S, r))
CameTo(a, c, S, p, n) ==
  /\ CursorOn(a, S) /\ a.stays = c.stays /\ a.open
  /\ a.lar = <<>> => \A r : Gone(S, p, n, r) # n
  /\ a.lar # <<>> => \E r \in S : a.lar = <<r>> /\ Gone(S, p, n, r) = n

LEMMA StepsAre ==
  ASSUME NEW s, NEW c
  PROVE  /\ Steps(c, s, 1) = Advance_1(c, s, TRUE)
         /\ \A n \in {1, 2} :
              Steps(c, s, n) = IF n = 1 \/ Advance_1(c, s, TRUE).lar = <<>> THEN Advance_1(c, s, TRUE)
                               ELSE Advance_1(Advance_1(c, s, TRUE), s, TRUE)
  <1>1. ASSUME NEW n \in {1, 2}
        PROVE  Steps(c, s, n) = IF n = 1 \/ Advance_1(c, s, TRUE).lar = <<>> THEN Advance_1(c, s, TRUE)
                                ELSE Advance_1(Advance_1(c, s, TRUE), s, TRUE)
    <2>1. (n > 0) = TRUE /\ n # 0 /\ n # -1
      OBVIOUS
    <2> QED BY <2>1 DEF Steps
  <1> QED BY <1>1

LEMMA StepsAhead ==
  ASSUME NEW s, RecordsOf(s) \in SUBSET SetRecs, NEW c \in Cursor, c.open, NEW n \in {1, 2}
  PROVE  CameTo(Steps(c, s, n), c, RecordsOf(s), c.at, n)
  <1> DEFINE S == RecordsOf(s)
             p == c.at
             f == First(After(S, p))
             g == First(After(S, f))
             a1 == Advance_1(c, s, TRUE)
             a2 == Advance_1(a1, s, TRUE)
  <1>1. S \in SUBSET Triples /\ IsFiniteSet(S) /\ p \in Triples
    BY SetsAssumption, FS_Subset DEF Triples, Cursor
  <1>2. Steps(c, s, n) = IF n = 1 \/ a1.lar = <<>> THEN a1 ELSE a2
    BY StepsAre
  <1>3. a1 = IF After(S, p) = {} THEN AtEnd(c) ELSE AtRec(c, f)
    BY <1>1, AdvanceIs
  <1>4. CASE After(S, p) = {}
    <2>1. Steps(c, s, n) = AtEnd(c)
      BY <1>2, <1>3, <1>4, AtEndIs
    <2>2. \A r : Cardinality(After(S, p) \ After(S, r)) = 0
      BY <1>1, <1>4, Ahead DEF TwoAhead
    <2>3. \A r : Gone(S, p, n, r) # n
      BY <2>2 DEF Gone
    <2> QED BY <2>1, <2>3, AtEndIs DEF CameTo, CursorOn
  <1>5. CASE After(S, p) # {}
    <2>1. /\ f \in S /\ f \in Triples /\ Cardinality(After(S, p) \ After(S, f)) = 1
          /\ After(S, f) = {} => \A r : Cardinality(After(S, p) \ After(S, r)) \in {0, 1}
          /\ After(S, f) # {} => g \in S /\ g \in Triples /\ Cardinality(After(S, p) \ After(S, g)) = 2
      <3>1. f = First(After(S, p)) /\ g = First(After(S, f))
        OBVIOUS
      <3> HIDE DEF f, g, p, S
      <3>2. TwoAhead(S, p, f, g)
        BY <1>1, <3>1, Ahead
      <3>3. \A x \in S : x \in Triples
        BY <1>1
      <3> QED BY <1>5, <3>2, <3>3 DEF TwoAhead
    <2> HIDE DEF f, g, a1, a2, p, S
    <2>2. a1 = AtRec(c, f) /\ a1 \in Cursor /\ a1.at = f /\ a1.lar = <<f>> /\ a1.lar # <<>> /\ ~a1.needs /\ a1.stays = c.stays /\ a1.open
      BY <1>3, <1>5, <2>1, AtRecIs
    <2>3. a2 = IF After(S, f) = {} THEN AtEnd(a1) ELSE AtRec(a1, g)
      BY <1>1, <2>1, <2>2, AdvanceIs DEF a2, g, S
    <2>4. CASE n = 1
      <3>1. Gone(S, p, n, f) = n
        BY <2>1, <2>4 DEF Gone
      <3> QED BY <1>2, <2>1, <2>2, <2>4, <3>1 DEF CameTo, CursorOn, p, S
    <2>5. CASE n = 2 /\ After(S, f) = {}
      <3>1. Steps(c, s, n) = AtEnd(a1)
        BY <1>2, <2>2, <2>3, <2>5
      <3>2. \A r : Gone(S, p, n, r) # n
        BY <2>1, <2>5 DEF Gone
      <3> QED BY <2>2, <3>1, <3>2, AtEndIs DEF CameTo, CursorOn, p, S
    <2>6. CASE n = 2 /\ After(S, f) # {}
      <3>1. Steps(c, s, n) = AtRec(a1, g)
        BY <1>2, <2>2, <2>3, <2>6
      <3>2. Gone(S, p, n, g) = n
        BY <2>1, <2>6 DEF Gone
      <3>3. g \in S /\ g \in Triples
        BY <2>1, <2>6
      <3> QED BY <2>2, <3>1, <3>2, <3>3, AtRecIs DEF CameTo, CursorOn, p, S
    <2> QED BY <2>4, <2>5, <2>6 DEF p, S
  <1> QED BY <1>4, <1>5

LEMMA StepsBehind ==
  ASSUME NEW s, RecordsOf(s) \in SUBSET SetRecs, NEW c \in Cursor, c.open, NEW n \in {-1, -2}
  PROVE  CameTo(Steps(c, s, n), c, RecordsOf(s), c.at, n)
  <1> DEFINE S == RecordsOf(s)
             p == c.at
             f == Final(Preceding(S, p))
             g == Final(Preceding(S, f))
             a1 == Advance_1(c, s, FALSE)
             a2 == Advance_1(a1, s, FALSE)
  <1>1. S \in SUBSET Triples /\ IsFiniteSet(S) /\ p \in Triples
    BY SetsAssumption, FS_Subset DEF Triples, Cursor
  <1>2. Steps(c, s, n) = IF n = -1 \/ a1.lar = <<>> THEN a1 ELSE a2
    <2>1. (n > 0) = FALSE /\ n # 0 /\ n # 1
      OBVIOUS
    <2> QED BY <2>1 DEF Steps
  <1>3. a1 = IF Preceding(S, p) = {} THEN AtEnd(c) ELSE AtRec(c, f)
    BY <1>1, AdvanceIs
  <1>4. CASE Preceding(S, p) = {}
    <2>1. Steps(c, s, n) = AtEnd(c)
      BY <1>2, <1>3, <1>4, AtEndIs
    <2>2. \A r : Cardinality(Preceding(S, p) \ Preceding(S, r)) = 0
      BY <1>1, <1>4, Behind DEF TwoBehind
    <2>3. \A r : Gone(S, p, n, r) # n
      BY <2>2 DEF Gone
    <2> QED BY <2>1, <2>3, AtEndIs DEF CameTo, CursorOn
  <1>5. CASE Preceding(S, p) # {}
    <2>1. /\ f \in S /\ f \in Triples /\ Cardinality(Preceding(S, p) \ Preceding(S, f)) = 1
          /\ Preceding(S, f) = {} => \A r : Cardinality(Preceding(S, p) \ Preceding(S, r)) \in {0, 1}
          /\ Preceding(S, f) # {} => g \in S /\ g \in Triples /\ Cardinality(Preceding(S, p) \ Preceding(S, g)) = 2
      <3>1. f = Final(Preceding(S, p)) /\ g = Final(Preceding(S, f))
        OBVIOUS
      <3> HIDE DEF f, g, p, S
      <3>2. TwoBehind(S, p, f, g)
        BY <1>1, <3>1, Behind
      <3>3. \A x \in S : x \in Triples
        BY <1>1
      <3> QED BY <1>5, <3>2, <3>3 DEF TwoBehind
    <2> HIDE DEF f, g, a1, a2, p, S
    <2>2. a1 = AtRec(c, f) /\ a1 \in Cursor /\ a1.at = f /\ a1.lar = <<f>> /\ a1.lar # <<>> /\ ~a1.needs /\ a1.stays = c.stays /\ a1.open
      BY <1>3, <1>5, <2>1, AtRecIs
    <2>3. a2 = IF Preceding(S, f) = {} THEN AtEnd(a1) ELSE AtRec(a1, g)
      BY <1>1, <2>1, <2>2, AdvanceIs DEF a2, g, S
    <2>4. CASE n = -1
      <3>1. Gone(S, p, n, f) = n
        BY <2>1, <2>4 DEF Gone
      <3> QED BY <1>2, <2>1, <2>2, <2>4, <3>1 DEF CameTo, CursorOn, p, S
    <2>5. CASE n = -2 /\ Preceding(S, f) = {}
      <3>1. Steps(c, s, n) = AtEnd(a1)
        BY <1>2, <2>2, <2>3, <2>5
      <3>2. \A r : Gone(S, p, n, r) # n
        BY <2>1, <2>5 DEF Gone
      <3> QED BY <2>2, <3>1, <3>2, AtEndIs DEF CameTo, CursorOn, p, S
    <2>6. CASE n = -2 /\ Preceding(S, f) # {}
      <3>1. Steps(c, s, n) = AtRec(a1, g)
        BY <1>2, <2>2, <2>3, <2>6
      <3>2. Gone(S, p, n, g) = n
        BY <2>1, <2>6 DEF Gone
      <3>3. g \in S /\ g \in Triples
        BY <2>1, <2>6
      <3> QED BY <2>2, <3>1, <3>2, <3>3, AtRecIs DEF CameTo, CursorOn, p, S
    <2> QED BY <2>4, <2>5, <2>6 DEF p, S
  <1> QED BY <1>4, <1>5

\* Where it counts from: the record it is at, or the one that comes instead.
LEMMA MainFromRecord ==
  ASSUME NEW s, RecordsOf(s) \in SUBSET SetRecs, NEW c, CursorOn(c, RecordsOf(s)), c.lar # <<>>,
         NEW n \in {-2, -1, 1, 2}, c.at \in RecordsOf(s)
  PROVE  CameTo(AdvanceMain(c, s, n), c, RecordsOf(s), c.at, n)
  <1> DEFINE r == Recovered(c, s)
  <1>1. c \in Cursor /\ c.at \in Triples /\ c.open
    BY DEF CursorOn, Cursor
  <1>2. r.c \in Cursor /\ r.c.at = c.at /\ r.c.lar # <<>> /\ r.c.stays = c.stays /\ r.c.open /\ ~r.advanced
    <2>1. CASE ~c.needs
      <3>1. r = [c |-> c, advanced |-> FALSE]
        BY <2>1 DEF Recovered
      <3> HIDE DEF r
      <3> QED BY <1>1, <3>1
    <2>2. CASE c.needs
      <3>1. r = [c |-> AtRec(c, c.at), advanced |-> FALSE]
        BY <2>2 DEF Recovered
      <3> HIDE DEF r
      <3> QED BY <1>1, <3>1, AtRecIs
    <2> QED BY <2>1, <2>2
  <1>3. AdvanceMain(c, s, n) = Steps(r.c, s, n)
    BY <1>2 DEF AdvanceMain
  <1> HIDE DEF r
  <1>4. CameTo(Steps(r.c, s, n), r.c, RecordsOf(s), r.c.at, n)
    BY <1>2, StepsAhead, StepsBehind
  <1> QED BY <1>1, <1>2, <1>3, <1>4 DEF CameTo

\* Where its record has gone, and none comes after it, the loop ends.
LEMMA MainFromEnd ==
  ASSUME NEW s, RecordsOf(s) \in SUBSET SetRecs, NEW c, CursorOn(c, RecordsOf(s)), c.lar # <<>>,
         NEW n \in {-2, -1, 1, 2}, c.at \notin RecordsOf(s), After(RecordsOf(s), c.at) = {}
  PROVE  /\ AdvanceMain(c, s, n) \in Cursor /\ AdvanceMain(c, s, n).lar = <<>> /\ AdvanceMain(c, s, n).stays = c.stays
         /\ AdvanceMain(c, s, n).open
  <1>1. c \in Cursor /\ c.at \in Triples /\ c.needs /\ c.open
    BY DEF CursorOn, Cursor
  <1>2. Advance_1(c, s, TRUE) = AtEnd(c)
    BY <1>1, AdvanceIs
  <1>3. Recovered(c, s).c = AtEnd(c)
    BY <1>1, <1>2 DEF Recovered
  <1>4. AdvanceMain(c, s, n) = AtEnd(c)
    BY <1>1, <1>3, AtEndIs DEF AdvanceMain
  <1> QED BY <1>1, <1>4, AtEndIs

LEMMA MainFromGone ==
  ASSUME NEW s, RecordsOf(s) \in SUBSET SetRecs, NEW c, CursorOn(c, RecordsOf(s)), c.lar # <<>>,
         NEW n \in {-2, -1, 1, 2}, c.at \notin RecordsOf(s), After(RecordsOf(s), c.at) # {}
  PROVE  /\ n > 0 => CameTo(AdvanceMain(c, s, n), c, RecordsOf(s), c.at, n)
         /\ n < 0 => CameTo(AdvanceMain(c, s, n), c, RecordsOf(s), First(After(RecordsOf(s), c.at)), n)
  <1> DEFINE S == RecordsOf(s)
             p == c.at
             f == First(After(S, p))
             g == First(After(S, f))
             r == Recovered(c, s)
             a == AtRec(c, f)
  <1>1. c \in Cursor /\ p \in Triples /\ c.needs /\ c.open
    BY DEF CursorOn, Cursor
  <1>2. S \in SUBSET Triples /\ IsFiniteSet(S)
    BY SetsAssumption, FS_Subset DEF Triples
  <1>3. Advance_1(c, s, TRUE) = a
    BY <1>1, AdvanceIs
  <1>4. TwoAhead(S, p, f, g) /\ f \in S /\ f \in Triples
    <2>1. f = First(After(S, p)) /\ g = First(After(S, f))
      OBVIOUS
    <2> HIDE DEF f, g, S, p
    <2>2. TwoAhead(S, p, f, g)
      BY <1>1, <1>2, <2>1, Ahead
    <2>3. f \in S
      BY <1>1, <1>2, <2>1, Beyond DEF S, p
    <2> QED BY <1>2, <2>2, <2>3
  <1>5. a \in Cursor /\ a.at = f /\ a.lar = <<f>> /\ a.lar # <<>> /\ ~a.needs /\ a.stays = c.stays /\ a.open
    <2> HIDE DEF f
    <2> QED BY <1>1, <1>4, AtRecIs
  <1>6. r.c = a /\ r.advanced
    <2>1. r = [c |-> Advance_1(c, s, TRUE), advanced |-> Advance_1(c, s, TRUE).lar # <<>>]
      BY <1>1 DEF Recovered
    <2> HIDE DEF r, a
    <2> QED BY <1>3, <1>5, <2>1
  <1>7. AdvanceMain(c, s, n) = IF n > 0 THEN Steps(a, s, n - 1) ELSE Steps(a, s, n)
    <2> HIDE DEF a
    <2>1. r.c.lar # <<>>
      BY <1>5, <1>6
    <2> QED BY <1>6, <2>1 DEF AdvanceMain
  <1> HIDE DEF a, r
  <1>8. CASE n < 0
    <2>1. CameTo(Steps(a, s, n), a, S, a.at, n)
      BY <1>5, <1>8, StepsBehind
    <2>2. n \in {-1, -2} /\ ~(n > 0)
      BY <1>8
    <2> HIDE DEF f
    <2>3. CameTo(AdvanceMain(c, s, n), c, S, f, n)
      BY <1>1, <1>5, <1>7, <2>1, <2>2 DEF CameTo
    <2> QED BY <2>2, <2>3 DEF f, S, p
  <1> HIDE DEF f, g, S, p
  <1>9. CASE n = 1
    <2>1. AdvanceMain(c, s, n) = a
      BY <1>7, <1>9 DEF Steps
    <2>2. Gone(S, p, n, f) = n
      BY <1>4, <1>9 DEF Gone, TwoAhead, S, p
    <2>3. CameTo(a, c, S, p, n)
      BY <1>1, <1>4, <1>5, <2>2 DEF CameTo, CursorOn
    <2> QED BY <1>9, <2>1, <2>3 DEF S, p
  <1>10. CASE n = 2
    <2>1. AdvanceMain(c, s, n) = Advance_1(a, s, TRUE)
      <3>1. n - 1 = 1
        BY <1>10
      <3>2. Steps(a, s, 1) = Advance_1(a, s, TRUE)
        BY StepsAre
      <3>3. n > 0
        BY <1>10
      <3> QED BY <1>7, <3>1, <3>2, <3>3
    <2>2. AdvanceMain(c, s, n) = IF After(S, f) = {} THEN AtEnd(a) ELSE AtRec(a, g)
      <3>1. Advance_1(a, s, TRUE) = IF After(S, f) = {} THEN AtEnd(a) ELSE AtRec(a, g)
        BY <1>4, <1>5, AdvanceIs DEF S, g
      <3> QED BY <2>1, <3>1
    <2>5. n > 0 /\ ~(n < 0)
      BY <1>10
    <2>3. CASE After(S, f) = {}
      <3>1. \A x : Gone(S, p, n, x) # n
        BY <1>4, <1>10, <2>3 DEF Gone, TwoAhead, S, p
      <3>2. CameTo(AtEnd(a), c, S, p, n)
        BY <1>1, <1>5, <3>1, AtEndIs DEF CameTo, CursorOn
      <3> QED BY <2>2, <2>3, <2>5, <3>2 DEF S, p
    <2>4. CASE After(S, f) # {}
      <3>1. g \in S /\ Gone(S, p, n, g) = n
        BY <1>4, <1>10, <2>4 DEF Gone, TwoAhead, S, p
      <3>2. g \in Triples
        BY <1>2, <3>1
      <3>3. CameTo(AtRec(a, g), c, S, p, n)
        BY <1>1, <1>5, <3>1, <3>2, AtRecIs DEF CameTo, CursorOn
      <3> QED BY <2>2, <2>4, <2>5, <3>3 DEF S, p
    <2> QED BY <2>3, <2>4
  <1> QED BY <1>8, <1>9, <1>10

\* Which of the records at the ends it stays at.
LEMMA EndsAre ==
  ASSUME NEW s, RecordsOf(s) \in SUBSET SetRecs, NEW c \in Cursor, c.open
  PROVE  /\ CursorOn(GotoFirst(c, s), RecordsOf(s)) /\ CursorOn(GotoLast(c, s), RecordsOf(s))
         /\ RecordsOf(s) = {} => GotoFirst(c, s).lar = <<>> /\ GotoLast(c, s).lar = <<>>
         /\ RecordsOf(s) # {} =>
              /\ \E r \in RecordsOf(s) : GotoFirst(c, s).lar = <<r>> /\ Preceding(RecordsOf(s), r) = {}
              /\ \E r \in RecordsOf(s) : GotoLast(c, s).lar = <<r>> /\ After(RecordsOf(s), r) = {}
  <1> DEFINE S == RecordsOf(s)
  <1>1. S \in SUBSET Triples /\ IsFiniteSet(S)
    BY SetsAssumption, FS_Subset DEF Triples
  <1>2. CASE S = {}
    BY <1>2, AtEndIs DEF GotoFirst, GotoLast, CursorOn
  <1>3. CASE S # {}
    <2> DEFINE f == First(S)
               l == Final(S)
    <2>1. GotoFirst(c, s) = AtRec(c, f) /\ GotoLast(c, s) = AtRec(c, l)
      BY <1>3 DEF GotoFirst, GotoLast
    <2> HIDE DEF S
    <2>2. f \in S /\ l \in S /\ (\A x \in S \ {f} : Before(f, x)) /\ \A x \in S \ {l} : Before(x, l)
      BY <1>1, <1>3, FirstIs, FinalIs
    <2> HIDE DEF f, l
    <2>3. f \in Triples /\ l \in Triples
      BY <1>1, <2>2
    <2>4. Preceding(S, f) = {} /\ After(S, l) = {}
      BY <1>1, <2>2, <2>3, BeforeIsOrder DEF Preceding, After
    <2>5. CursorOn(AtRec(c, f), S) /\ CursorOn(AtRec(c, l), S) /\ AtRec(c, f).lar = <<f>> /\ AtRec(c, l).lar = <<l>>
      BY <2>2, <2>3, AtRecIs DEF CursorOn
    <2> QED BY <1>3, <2>1, <2>2, <2>4, <2>5 DEF S
  <1> QED BY <1>2, <1>3

\* The invariant.
SetInv == SetOK /\ CursorOn(curs, members)

LEMMA SetsOK == SetOK => RecordsOf(set) \in SUBSET SetRecs
  BY InRecords DEF SetOK, Good

\* What a cursor is advanced to is the n-th record on, or back, from where it was.
LEMMA WentOnIs == SetInv => WentOn
  <1> SUFFICES ASSUME SetInv, NEW n \in {-2, -1, 1, 2}, AdvanceCursor(n)
               PROVE  LET later == After(members, curs.at)
                          from == IF curs.at \in members THEN {curs.at} ELSE {x \in later : later \ {x} = After(members, x)}
                          Distance(r) == IF n > 0 THEN Cardinality(later \ After(members, r))
                                         ELSE -Cardinality((UNION {Preceding(members, f) : f \in from}) \ Preceding(members, r))
                          there == {r \in members : Distance(r) = n}
                          off == {r \in members : curs.stays /\ (IF n > 0 THEN After(members, r) ELSE Preceding(members, r)) = {}}
                      IN curs'.lar \in IF there # {} THEN {<<r>> : r \in there} ELSE IF off # {} THEN {<<r>> : r \in off} ELSE {<<>>}
    BY DEF WentOn
  <1> DEFINE S == members
             p == curs.at
             later == After(members, curs.at)
             from == IF curs.at \in members THEN {curs.at} ELSE {x \in later : later \ {x} = After(members, x)}
             Distance(r) == IF n > 0 THEN Cardinality(later \ After(members, r))
                            ELSE -Cardinality((UNION {Preceding(members, f) : f \in from}) \ Preceding(members, r))
             there == {r \in members : Distance(r) = n}
             off == {r \in members : curs.stays /\ (IF n > 0 THEN After(members, r) ELSE Preceding(members, r)) = {}}
             a == AdvanceMain(curs, set, n)
  <1> SUFFICES curs'.lar \in IF there # {} THEN {<<r>> : r \in there} ELSE IF off # {} THEN {<<r>> : r \in off} ELSE {<<>>}
    OBVIOUS
  <1>1. /\ S = RecordsOf(set) /\ RecordsOf(set) \in SUBSET SetRecs /\ S \in SUBSET Triples /\ IsFiniteSet(S)
        /\ CursorOn(curs, RecordsOf(set)) /\ curs \in Cursor /\ p \in Triples /\ curs.lar # <<>>
    <2>1. S = RecordsOf(set) /\ RecordsOf(set) \in SUBSET SetRecs /\ CursorOn(curs, RecordsOf(set))
      BY SetsOK DEF SetInv, SetOK
    <2> QED BY <2>1, SetsAssumption, FS_Subset DEF Triples, Cursor, CursorOn, AdvanceCursor
  <1>2. /\ CursorOn(a, S) /\ a.stays = curs.stays /\ a.open
        /\ a.lar = <<>> => there = {}
        /\ a.lar # <<>> => \E r \in there : a.lar = <<r>>
    <2>1. CASE p \in S
      <3>1. CameTo(a, curs, S, p, n)
        BY <1>1, <2>1, MainFromRecord
      <3>2. \A r : Distance(r) = Gone(S, p, n, r)
        <4>1. UNION {Preceding(members, f) : f \in from} = Preceding(S, p)
          BY <2>1
        <4> HIDE DEF from
        <4> QED BY <4>1 DEF Gone
      <3> HIDE DEF Distance, a
      <3> QED BY <3>1, <3>2 DEF CameTo
    <2>2. CASE p \notin S /\ later = {}
      <3>1. a \in Cursor /\ a.lar = <<>> /\ a.stays = curs.stays /\ a.open
        BY <1>1, <2>2, MainFromEnd
      <3>2. \A r : Distance(r) = 0
        <4>1. UNION {Preceding(members, f) : f \in from} \subseteq {} /\ later \subseteq {}
          BY <2>2
        <4> HIDE DEF from, later
        <4>2. \A r : (UNION {Preceding(members, f) : f \in from}) \ Preceding(members, r) = {} /\ later \ After(members, r) = {}
          BY <4>1
        <4> QED BY <4>2, FS_EmptySet
      <3> HIDE DEF Distance, a
      <3> QED BY <3>1, <3>2 DEF CursorOn
    <2>3. CASE p \notin S /\ later # {} /\ n > 0
      <3>1. CameTo(a, curs, S, p, n)
        BY <1>1, <2>3, MainFromGone
      <3>2. \A r : Distance(r) = Gone(S, p, n, r)
        BY <2>3 DEF Gone
      <3> HIDE DEF Distance, a
      <3> QED BY <3>1, <3>2 DEF CameTo
    <2>4. CASE p \notin S /\ later # {} /\ n < 0
      <3> DEFINE b == First(later)
      <3>1. CameTo(a, curs, S, b, n)
        BY <1>1, <2>4, MainFromGone
      <3>2. from = {b}
        <4>1. b \in later /\ \A x \in later \ {b} : Before(b, x)
          BY <1>1, <2>4, Some, FirstIs
        <4>2. later \ {b} = After(members, b)
          BY <1>1, <2>4, Beyond
        <4> HIDE DEF b
        <4>3. ASSUME NEW x \in later, x # b PROVE later \ {x} # After(members, x)
          <5>1. Before(b, x) /\ b \in Triples /\ x \in Triples
            BY <1>1, <4>1, <4>3, Some
          <5>2. b \notin After(members, x)
            BY <5>1, BeforeIsOrder DEF After
          <5> QED BY <4>1, <4>3, <5>2
        <4>4. from = {x \in later : later \ {x} = After(members, x)}
          BY <2>4
        <4> HIDE DEF later, from
        <4> QED BY <4>1, <4>2, <4>3, <4>4
      <3> HIDE DEF b
      <3>3. \A r : Distance(r) = Gone(S, b, n, r)
        <4>1. UNION {Preceding(members, f) : f \in from} = Preceding(S, b)
          BY <3>2
        <4>2. ~(n > 0)
          BY <2>4
        <4> HIDE DEF from
        <4> QED BY <4>1, <4>2 DEF Gone
      <3> HIDE DEF Distance, a
      <3> QED BY <3>1, <3>3 DEF CameTo
    <2>5. n > 0 \/ n < 0
      OBVIOUS
    <2> HIDE DEF a, there, later
    <2> QED BY <2>1, <2>2, <2>3, <2>4, <2>5
  <1>3. curs' = IF a.lar # <<>> \/ ~curs.stays THEN a ELSE IF n >= 0 THEN GotoLast(a, set) ELSE GotoFirst(a, set)
    BY DEF AdvanceCursor, Advance
  <1> HIDE DEF a, Distance, there
  <1>4. CASE a.lar # <<>>
    BY <1>2, <1>3, <1>4
  <1>5. CASE a.lar = <<>> /\ ~curs.stays
    <2>1. off = {} /\ there = {} /\ curs'.lar = <<>>
      BY <1>2, <1>3, <1>5
    <2> QED BY <2>1
  <1>6. CASE a.lar = <<>> /\ curs.stays
    <2>1. a \in Cursor /\ a.open /\ there = {}
      BY <1>2, <1>6 DEF CursorOn
    <2>2. CASE S = {}
      <3>1. off = {} /\ curs'.lar = <<>>
        BY <1>1, <1>3, <1>6, <2>1, <2>2, EndsAre
      <3> QED BY <2>1, <3>1
    <2>3. CASE S # {} /\ n > 0
      <3>1. curs' = GotoLast(a, set)
        BY <1>3, <1>6, <2>3
      <3>2. PICK r \in S : curs'.lar = <<r>> /\ After(S, r) = {}
        BY <1>1, <2>1, <2>3, <3>1, EndsAre
      <3>3. r \in off
        BY <1>6, <2>3, <3>2
      <3> HIDE DEF off
      <3> QED BY <2>1, <3>2, <3>3
    <2>4. CASE S # {} /\ n < 0
      <3>1. curs' = GotoFirst(a, set)
        BY <1>3, <1>6, <2>4
      <3>2. PICK r \in S : curs'.lar = <<r>> /\ Preceding(S, r) = {}
        BY <1>1, <2>1, <2>4, <3>1, EndsAre
      <3>3. r \in off
        BY <1>6, <2>4, <3>2
      <3> HIDE DEF off
      <3> QED BY <2>1, <3>2, <3>3
    <2> QED BY <2>2, <2>3, <2>4
  <1> QED BY <1>4, <1>5, <1>6

LEMMA LarIs ==
  ASSUME NEW c \in Cursor, NEW v
  PROVE  [c EXCEPT !.lar = v] = [open |-> c.open, at |-> c.at, lar |-> v, needs |-> c.needs, stays |-> c.stays]
  BY DEF Cursor

LEMMA OpenIs ==
  ASSUME NEW c \in Cursor, NEW v
  PROVE  [c EXCEPT !.open = v] = [open |-> v, at |-> c.at, lar |-> c.lar, needs |-> c.needs, stays |-> c.stays]
  BY DEF Cursor

LEMMA StaysIs ==
  ASSUME NEW c \in Cursor, NEW v
  PROVE  [c EXCEPT !.stays = v] = [open |-> c.open, at |-> c.at, lar |-> c.lar, needs |-> c.needs, stays |-> v]
  BY DEF Cursor

\* Cursors that are told look for their record again, in whatever the set then is.
LEMMA ToldIs ==
  ASSUME NEW S, CursorOn(curs, S), NEW type, Told(type), NEW T
  PROVE  CursorOn(curs, T)'
  <1>1. CASE ~curs.open
    <2>1. curs' = curs /\ curs.lar = <<>> /\ curs \in Cursor
      BY <1>1 DEF Told, CursorOn
    <2> QED BY <2>1 DEF CursorOn
  <1>2. CASE curs.open
    <2> DEFINE d == [curs EXCEPT !.needs = TRUE]
               lar == IF type = 11 THEN <<>> ELSE curs.lar
    <2>1. curs \in Cursor
      BY DEF CursorOn
    <2>2. d = [open |-> curs.open, at |-> curs.at, lar |-> curs.lar, needs |-> TRUE, stays |-> curs.stays]
      BY <2>1, NeedsIs
    <2>3. curs' = [d EXCEPT !.lar = lar]
      <3>1. curs' = [curs EXCEPT !.needs = TRUE, !.lar = IF type = 11 THEN <<>> ELSE @]
        BY <1>2 DEF Told
      <3>2. d.lar = curs.lar
        BY <2>2
      <3> QED BY <3>1, <3>2
    <2>4. d \in Cursor /\ d.needs /\ lar \in {<<>>, curs.lar}
      BY <2>1, <2>2 DEF Cursor
    <2> HIDE DEF d, lar
    <2>5. [d EXCEPT !.lar = lar] = [open |-> d.open, at |-> d.at, lar |-> lar, needs |-> d.needs, stays |-> d.stays]
      BY <2>4, LarIs
    <2>6. lar \in {<<>>} \cup {<<r>> : r \in Triples}
      BY <2>1, <2>4 DEF Cursor
    <2>7. curs' \in Cursor
      BY <2>3, <2>4, <2>5, <2>6 DEF Cursor
    <2>8. curs'.open /\ curs'.needs /\ curs'.at = curs.at /\ curs'.lar \in {<<>>, curs.lar}
      BY <1>2, <2>2, <2>3, <2>4, <2>5
    <2>9. curs'.lar # <<>> => curs'.lar = <<curs.at>>
      BY <2>8 DEF CursorOn
    <2> QED BY <2>7, <2>8, <2>9 DEF CursorOn
  <1> QED BY <1>1, <1>2

LEMMA BecomesIs ==
  ASSUME SetInv, NEW s, NEW recs, NEW type, Becomes(s, recs, type), Good(s), RecordsOf(s) = recs
  PROVE  SetInv'
  <1>1. set' = s /\ members' = recs /\ Told(type)
    BY DEF Becomes
  <1>2. CursorOn(curs, recs)'
    BY <1>1, ToldIs DEF SetInv
  <1>3. SetOK'
    BY <1>1 DEF SetOK, Good, IsSet, RecordsOf
  <1> QED BY <1>1, <1>2, <1>3 DEF SetInv, CursorOn

LEMMA SetInvInit == SetInit => SetInv
  <1> SUFFICES ASSUME SetInit PROVE SetInv
    OBVIOUS
  <1>1. SetOK
    BY EmptySetIs DEF SetInit, SetOK
  <1>2. Closed \in Cursor /\ Closed.lar = <<>>
    BY DEF Closed, Cursor, Triples
  <1> QED BY <1>1, <1>2 DEF SetInit, SetInv, CursorOn

LEMMA SetInvStep == SetInv /\ [SetNext]_setVars => SetInv'
  <1> SUFFICES ASSUME SetInv, [SetNext]_setVars PROVE SetInv'
    OBVIOUS
  <1>1. Good(set) /\ RecordsOf(set) = members /\ members \in SUBSET SetRecs /\ RecordsOf(set) \in SUBSET SetRecs
    BY SetsOK DEF SetInv, SetOK
  <1>2. ASSUME NEW t, Good(t), OrWith(t) PROVE SetInv'
    BY <1>1, <1>2, BitOrIs, BecomesIs DEF OrWith
  <1>3. ASSUME NEW t, Good(t), NEW rhs_not \in BOOLEAN, AndWith(t, rhs_not) PROVE SetInv'
    <2>1. RecordsOf(BitAnd(set, t, rhs_not)) = Masked(members, RecordsOf(t), rhs_not) /\ Good(BitAnd(set, t, rhs_not))
      BY <1>1, <1>3, BitAndIs
    <2>2. Becomes(BitAnd(set, t, rhs_not), Masked(members, RecordsOf(t), rhs_not), 12)
      BY <1>3 DEF AndWith, Masked
    <2> QED BY <2>1, <2>2, BecomesIs
  <1>4. ASSUME NEW t, Good(t), AndSegments(t) PROVE SetInv'
    <2> DEFINE recs == {r \in members : <<r[1], r[2]>> \in {<<x[1], x[2]>> : x \in RecordsOf(t)}}
    <2>1. Good(SegmentAnd(set, t)) /\ RecordsOf(SegmentAnd(set, t)) = recs
      BY <1>1, <1>4, SegmentAndIs
    <2>2. Becomes(SegmentAnd(set, t), recs, 12)
      BY <1>4 DEF AndSegments
    <2> QED BY <2>1, <2>2, BecomesIs
  <1>5. ASSUME NEW r \in SetRecs, Place(r) PROVE SetInv'
    <2>1. Good(Found({r})) /\ RecordsOf(Found({r})) = {r}
      BY FoundIs
    <2> QED BY <1>1, <1>5, <2>1, BitOrIs, BecomesIs DEF Place, PlaceRecord
  <1>6. ASSUME NEW r \in SetRecs, Mask(r) PROVE SetInv'
    BY <1>1, <1>6, MaskRecordIs, BecomesIs DEF Mask
  <1>7. ASSUME NEW m, ClearOne(m) PROVE SetInv'
    BY <1>1, <1>7, ClearMemberIs, BecomesIs DEF ClearOne
  <1>8. ASSUME NEW lo, NEW hi, CopySegments(lo, hi) PROVE SetInv'
    BY <1>1, <1>8, MakeCopyIs, BecomesIs DEF CopySegments
  <1>9. CASE Clear
    BY <1>9, EmptySetIs, BecomesIs DEF Clear
  <1>10. ASSUME UNCHANGED <<set, members>>, CursorOn(curs, members)' PROVE SetInv'
    BY <1>10 DEF SetInv, SetOK, Good, IsSet, RecordsOf
  <1>11. ASSUME NEW c, CursorOn(c, members), curs' = c, UNCHANGED <<set, members>> PROVE SetInv'
    BY <1>10, <1>11 DEF CursorOn
  <1>12. ASSUME NEW stays \in BOOLEAN, OpenCursor(stays) PROVE SetInv'
    <2> DEFINE c == [Closed EXCEPT !.open = TRUE, !.stays = stays]
    <2> DEFINE b == [Closed EXCEPT !.open = TRUE]
    <2>x. Closed \in Cursor
      BY DEF Closed, Cursor, Triples
    <2>1. b = [open |-> TRUE, at |-> Closed.at, lar |-> Closed.lar, needs |-> Closed.needs, stays |-> Closed.stays]
      BY <2>x, OpenIs
    <2>b. b \in Cursor /\ b.open
      BY <2>x, <2>1 DEF Cursor
    <2>c. c = [b EXCEPT !.stays = stays]
      OBVIOUS
    <2> HIDE DEF b, c
    <2>d. c = [open |-> b.open, at |-> b.at, lar |-> b.lar, needs |-> b.needs, stays |-> stays]
      BY <2>b, <2>c, StaysIs
    <2>2. c \in Cursor /\ c.open
      BY <2>b, <2>d DEF Cursor
    <2> USE DEF c
    <2>3. curs' = GotoFirst(c, set) /\ UNCHANGED <<set, members>>
      BY <1>12 DEF OpenCursor
    <2> HIDE DEF c
    <2> QED BY <1>1, <1>11, <2>2, <2>3, EndsAre
  <1>13. ASSUME NEW last \in BOOLEAN, GotoEnd(last) PROVE SetInv'
    <2>1. curs \in Cursor /\ curs.open
      BY <1>13 DEF GotoEnd, SetInv, CursorOn
    <2>2. curs' \in {GotoLast(curs, set), GotoFirst(curs, set)} /\ UNCHANGED <<set, members>>
      BY <1>13 DEF GotoEnd
    <2> QED BY <1>1, <1>11, <2>1, <2>2, EndsAre
  <1>14. ASSUME NEW n \in {-2, -1, 1, 2}, AdvanceCursor(n) PROVE SetInv'
    <2> DEFINE S == RecordsOf(set)
               a == AdvanceMain(curs, set, n)
    <2>1. CursorOn(curs, S) /\ curs.lar # <<>> /\ curs' = Advance(curs, set, n) /\ UNCHANGED <<set, members>>
      BY <1>1, <1>14 DEF AdvanceCursor, SetInv
    <2>2. CursorOn(a, S) /\ a.open
      <3>1. CASE curs.at \in S
        BY <1>1, <2>1, <3>1, MainFromRecord DEF CameTo
      <3>2. CASE curs.at \notin S /\ After(S, curs.at) = {}
        BY <1>1, <2>1, <3>2, MainFromEnd DEF CursorOn
      <3>3. CASE curs.at \notin S /\ After(S, curs.at) # {}
        <4>1. \E p : CameTo(a, curs, S, p, n)
          <5>1. n > 0 \/ n < 0
            OBVIOUS
          <5> HIDE DEF a
          <5> QED BY <1>1, <2>1, <3>3, <5>1, MainFromGone DEF a
        <4> QED BY <4>1 DEF CameTo
      <3> QED BY <3>1, <3>2, <3>3
    <2>3. curs' \in {a, GotoLast(a, set), GotoFirst(a, set)}
      BY <2>1 DEF Advance
    <2> HIDE DEF a
    <2>4. a \in Cursor
      BY <2>2 DEF CursorOn
    <2> QED BY <1>1, <1>11, <2>1, <2>2, <2>3, <2>4, EndsAre
  <1>15. CASE CloseCursor
    <2>1. Closed \in Cursor /\ Closed.lar = <<>>
      BY DEF Closed, Cursor, Triples
    <2> QED BY <1>11, <1>15, <2>1 DEF CloseCursor, CursorOn
  <1>16. CASE UNCHANGED setVars
    <2>1. UNCHANGED <<set, members>> /\ curs' = curs
      BY <1>16 DEF setVars
    <2> QED BY <1>11, <2>1 DEF SetInv
  <1>17. \A recs \in SUBSET SetRecs : Good(Found(recs)) /\ Good(Loaded(recs))
    BY FoundIs, LoadedIs
  <1> QED BY <1>2, <1>3, <1>4, <1>5, <1>6, <1>7, <1>8, <1>9, <1>12, <1>13, <1>14, <1>15, <1>16, <1>17 DEF SetNext

\* Sets are kept well formed, with their records, and cursors are on theirs, by every call.
THEOREM SetInvariant == SetSpec => []SetInv
  BY SetInvInit, SetInvStep, PTL DEF SetSpec

\* Through any calls, for any finite set of records, a set has just the records it was combined from,
\* counts and finds them, and has each segment in its smallest form (bmset.cpp, frecset.cpp).
THEOREM SetsAreRecordsHolds == SetSpec => []SetsAreRecords
  <1>1. SetInv => SetsAreRecords
    BY SetIsTrue DEF SetInv
  <1> QED BY <1>1, SetInvariant, PTL

\* Every advance of a cursor comes to the n-th record on or back in the set as it has become
\* (BitMappedRecordSetCursor::Advance, RecoverPositionWithAdvance, PostAdvance).
THEOREM CursorGoesOnHolds == SetSpec => CursorGoesOn
  <1>1. SetInv /\ [SetNext]_setVars => [WentOn]_setVars
    BY WentOnIs
  <1>2. SetSpec => [][SetNext]_setVars
    BY PTL DEF SetSpec
  <1> QED BY <1>1, <1>2, SetInvariant, PTL DEF CursorGoesOn
===============================================================================
