----------------------------- MODULE BatchProofs ------------------------------
(* The batch endpoints implement their promise, and a stored answer is not    *)
(* older than its build, for any texts, requests, workers and number of       *)
(* indexes.  The invariant follows one thought.  An index's floor is the      *)
(* oldest start among the builds that ran when its last build began, so       *)
(* whatever any of them writes from then on is dated from the floor or later. *)
(* Once that build has found the rows of the index gone, all its rows are no  *)
(* older than the floor, and they stay so when the index is published,        *)
(* queued again or built once more.  A call that has found two ready indexes  *)
(* therefore loads nothing older than the higher of their floors, though it   *)
(* reads their rows by a later statement.                                     *)
(* Before it, the window: what the range endpoint pages through, the sorted   *)
(* list of a window cut by limit and offset, is the page of the verses stored *)
(* in that window.  No induction is used there: the place of a verse, the     *)
(* number of those before it, numbers a finite window without gaps.           *)
EXTENDS BatchResolve, FiniteSetTheorems, FunctionTheorems, SequenceTheorems,
        WellFoundedInduction, TLAPS

(* Coordinates and the bounds of a window are triples of integers. *)
Triples == [1 .. 3 -> Int]

LEMMA Parts ==
    ASSUME NEW x \in Coordinates
    PROVE  /\ x[1] \in Nat /\ x[2] \in Nat /\ x[3] \in Nat
           /\ x[2] < MaxBound /\ x[3] < MaxBound
           /\ x \in Triples
  BY DEF Coordinates, MaxBound, Triples

LEMMA Whole ==
    ASSUME NEW a1 \in Nat, NEW a2 \in Nat, NEW a3 \in Nat,
           a2 < MaxBound, a3 < MaxBound
    PROVE  <<a1, a2, a3>> \in Coordinates
  BY DEF Coordinates, MaxBound

LEMMA SameTriple ==
    ASSUME NEW x \in Triples, NEW y \in Triples
    PROVE  x = y <=> x[1] = y[1] /\ x[2] = y[2] /\ x[3] = y[3]
<1>1. 1 .. 3 = {1, 2, 3}
  OBVIOUS
<1> QED
  BY <1>1 DEF Triples

(* Sooner, the order of the promise, is a strict total order of coordinates, *)
(* and the comparison of the program is its reflexive closure.               *)
LEMMA Order ==
    ASSUME NEW x \in Coordinates, NEW y \in Coordinates
    PROVE  /\ ~ Promise!Sooner(x, x)
           /\ x = y \/ Promise!Sooner(x, y) \/ Promise!Sooner(y, x)
           /\ ~ (Promise!Sooner(x, y) /\ Promise!Sooner(y, x))
           /\ \A z \in Coordinates :
                Promise!Sooner(x, y) /\ Promise!Sooner(y, z) => Promise!Sooner(x, z)
<1>1. ASSUME NEW z \in Coordinates
      PROVE  z[1] \in Int /\ z[2] \in Int /\ z[3] \in Int
  BY Parts DEF Triples
<1>2. x = y <=> x[1] = y[1] /\ x[2] = y[2] /\ x[3] = y[3]
  BY Parts, SameTriple
<1>3. ASSUME NEW z \in Coordinates
      PROVE  Promise!Sooner(x, y) /\ Promise!Sooner(y, z) => Promise!Sooner(x, z)
  <2>1. /\ x[1] \in Int /\ x[2] \in Int /\ x[3] \in Int
        /\ y[1] \in Int /\ y[2] \in Int /\ y[3] \in Int
        /\ z[1] \in Int /\ z[2] \in Int /\ z[3] \in Int
    BY <1>1
  <2> QED
    BY <2>1 DEF Promise!Sooner
<1>4. x[1] \in Int /\ x[2] \in Int /\ x[3] \in Int /\ y[1] \in Int /\ y[2] \in Int /\ y[3] \in Int
  BY <1>1
<1>5. /\ ~ Promise!Sooner(x, x)
      /\ x = y \/ Promise!Sooner(x, y) \/ Promise!Sooner(y, x)
      /\ ~ (Promise!Sooner(x, y) /\ Promise!Sooner(y, x))
  BY <1>2, <1>4 DEF Promise!Sooner
<1> QED
  BY <1>3, <1>5

LEMMA Comparison ==
    ASSUME NEW x \in Triples, NEW y \in Triples
    PROVE  LessEq(x, y) <=> \/ x[1] < y[1]
                            \/ x[1] = y[1] /\ x[2] < y[2]
                            \/ x[1] = y[1] /\ x[2] = y[2] /\ x[3] <= y[3]
<1> DEFINE Less(i) == x[i] < y[i] /\ \A j \in 1 .. (i - 1) : x[j] = y[j]
<1>1. Less(1) <=> x[1] < y[1]
  OBVIOUS
<1>2. Less(2) <=> x[1] = y[1] /\ x[2] < y[2]
  OBVIOUS
<1>3. Less(3) <=> x[1] = y[1] /\ x[2] = y[2] /\ x[3] < y[3]
  <2>1. 1 .. (3 - 1) = {1, 2}
    OBVIOUS
  <2> QED
    BY <2>1
<1>4. LessEq(x, y) <=> x = y \/ Less(1) \/ Less(2) \/ Less(3)
  <2>1. 1 .. 3 = {1, 2, 3}
    OBVIOUS
  <2>2. LessEq(x, y) <=> x = y \/ \E i \in 1 .. 3 : Less(i)
    BY DEF LessEq
  <2> QED
    BY <2>1, <2>2
<1>5. \A i \in 1 .. 3 : x[i] \in Int /\ y[i] \in Int
  BY DEF Triples
<1> HIDE DEF Less
<1> QED
  BY <1>1, <1>2, <1>3, <1>4, <1>5, SameTriple

LEMMA LessEqIsSooner ==
    ASSUME NEW x \in Coordinates, NEW y \in Coordinates
    PROVE  LessEq(x, y) <=> x = y \/ Promise!Sooner(x, y)
<1>1. LessEq(x, y) <=> \/ x[1] < y[1]
                       \/ x[1] = y[1] /\ x[2] < y[2]
                       \/ x[1] = y[1] /\ x[2] = y[2] /\ x[3] <= y[3]
  BY Parts, Comparison
<1>2. x = y <=> x[1] = y[1] /\ x[2] = y[2] /\ x[3] = y[3]
  BY Parts, SameTriple
<1>3. \A i \in 1 .. 3 : x[i] \in Int /\ y[i] \in Int
  BY Parts DEF Triples
<1> QED
  BY <1>1, <1>2, <1>3 DEF Promise!Sooner

-----------------------------------------------------------------------------
(* The verses of one row, those of a milestone one by one. *)
RowVerses(x, hi) == {<<x[1], x[2], w>> : w \in x[3] .. hi}

LEMMA RowIsFinite ==
    ASSUME NEW x \in Coordinates, NEW hi \in Nat, hi < MaxBound
    PROVE  RowVerses(x, hi) \subseteq Coordinates /\ IsFiniteSet(RowVerses(x, hi))
<1>1. /\ x[1] \in Nat /\ x[2] \in Nat /\ x[3] \in Nat
      /\ x[2] < MaxBound /\ x[3] < MaxBound
  BY Parts
<1> DEFINE D == x[3] .. hi
           f == [w \in D |-> <<x[1], x[2], w>>]
           T == {<<x[1], x[2], w>> : w \in D}
<1>2. IsFiniteSet(D)
  BY SMTT(40), <1>1, FS_Interval
<1>3. f \in Surjection(D, T)
  BY SMT DEF Surjection
<1>4. IsFiniteSet(T)
  <2> HIDE DEF D, f, T
  <2> QED BY <1>2, <1>3, FS_Surjection
<1>5. ASSUME NEW w \in D PROVE <<x[1], x[2], w>> \in Coordinates
  <2>1. w \in Nat /\ w < MaxBound
    BY <1>1 DEF MaxBound
  <2> QED
    BY <1>1, <2>1, Whole
<1> QED
  BY <1>4, <1>5, Zenon DEF RowVerses

(* The verses of a version are finitely many coordinates. *)
LEMMA StoredIsFinite ==
    ASSUME NEW v \in Versions
    PROVE  StoredVerses(v) \subseteq Coordinates /\ IsFiniteSet(StoredVerses(v))
<1> DEFINE rows == Texts[v]
           VersesIn(row) == RowVerses(row.at, row.hi)
<1>1. ASSUME NEW row \in rows
      PROVE  VersesIn(row) \subseteq Coordinates /\ IsFiniteSet(VersesIn(row))
  <2> DEFINE x == row.at
             h == row.hi
  <2>1. x \in Coordinates /\ h \in 0 .. (MaxBound - 1)
    BY TextsAssumption
  <2> HIDE DEF x, h
  <2>2. h \in Nat /\ h < MaxBound
    BY <2>1 DEF MaxBound
  <2>3. RowVerses(x, h) \subseteq Coordinates /\ IsFiniteSet(RowVerses(x, h))
    BY <2>1, <2>2, RowIsFinite
  <2> QED
    BY <2>3 DEF x, h
<1> DEFINE All == {VersesIn(row) : row \in rows}
           g == [row \in rows |-> VersesIn(row)]
<1>2. g \in Surjection(rows, All)
  BY DEF Surjection
<1>3. IsFiniteSet(rows)
  BY TextsAssumption
<1>4. IsFiniteSet(All)
  <2> HIDE DEF g, All
  <2> QED BY <1>2, <1>3, FS_Surjection
<1>5. StoredVerses(v) = UNION All
  BY DEF StoredVerses, RowVerses
<1>6. \A T \in All : IsFiniteSet(T) /\ T \subseteq Coordinates
  BY <1>1
<1>7. IsFiniteSet(UNION All)
  <2> HIDE DEF All
  <2> QED BY <1>4, <1>6, FS_UNION
<1> QED
  BY <1>5, <1>6, <1>7

-----------------------------------------------------------------------------
(* The place of a verse in a set: how many are sooner. *)
Before(S, x) == {y \in S : Promise!Sooner(y, x)}
Place(S, x) == Cardinality(Before(S, x))

LEMMA PlaceGrows ==
    ASSUME NEW S \in SUBSET Coordinates, IsFiniteSet(S), NEW x \in S, NEW y \in S,
           Promise!Sooner(x, y)
    PROVE  /\ Place(S, x) \in Nat /\ Place(S, y) \in Nat
           /\ Place(S, x) < Place(S, y) /\ Place(S, y) < Cardinality(S)
<1>1. Before(S, y) \in SUBSET S /\ y \notin Before(S, y)
  BY Order DEF Before
<1>2. /\ IsFiniteSet(Before(S, y)) /\ Place(S, y) <= Cardinality(S)
      /\ Place(S, y) # Cardinality(S)
  BY <1>1, FS_Subset DEF Place
<1>3. Before(S, x) \in SUBSET Before(S, y)
  BY Order DEF Before
<1>4. x \in Before(S, y) /\ x \notin Before(S, x)
  BY Order DEF Before
<1>5. /\ IsFiniteSet(Before(S, x)) /\ Place(S, x) <= Place(S, y)
      /\ Place(S, x) # Place(S, y)
  BY <1>2, <1>3, <1>4, FS_Subset DEF Place
<1>6. /\ Place(S, x) \in Nat /\ Place(S, y) \in Nat /\ Cardinality(S) \in Nat
  BY <1>2, <1>5, FS_CardinalityType DEF Place
<1> QED
  BY <1>2, <1>5, <1>6

(* The places number the verses of a finite set from 0, without a gap. *)
LEMMA PlacesNumber ==
    ASSUME NEW S \in SUBSET Coordinates, IsFiniteSet(S)
    PROVE  /\ Cardinality(S) \in Nat
           /\ \A x \in S : Place(S, x) \in 0 .. (Cardinality(S) - 1)
           /\ \A k \in 1 .. Cardinality(S) : \E x \in S : Place(S, x) = k - 1
<1> DEFINE n == Cardinality(S)
           g == [x \in S |-> Place(S, x) + 1]
<1>1. n \in Nat
  BY FS_CardinalityType
<1>2. ASSUME NEW x \in S PROVE Place(S, x) \in 0 .. (n - 1)
  <2>1. Before(S, x) \in SUBSET S /\ x \notin Before(S, x)
    BY Order DEF Before
  <2>2. IsFiniteSet(Before(S, x)) /\ Place(S, x) <= n /\ Place(S, x) # n
    BY <2>1, FS_Subset DEF Place
  <2>3. Place(S, x) \in Nat
    BY <2>2, FS_CardinalityType DEF Place
  <2> HIDE DEF n
  <2> QED
    BY <1>1, <2>2, <2>3
<1>3. ASSUME NEW x \in S, NEW y \in S, Place(S, x) = Place(S, y) PROVE x = y
  <2>1. x = y \/ Promise!Sooner(x, y) \/ Promise!Sooner(y, x)
    BY Order
  <2> QED
    BY <1>3, <2>1, PlaceGrows
<1>4. g \in Injection(S, 1 .. n)
  <2>1. g \in [S -> 1 .. n]
    <3> HIDE DEF n
    <3> QED BY <1>1, <1>2
  <2>2. ASSUME NEW x \in S, NEW y \in S, g[x] = g[y] PROVE x = y
    <3>1. Place(S, x) + 1 = Place(S, y) + 1
      BY <2>2
    <3>2. Place(S, x) \in Int /\ Place(S, y) \in Int
      BY <1>1, <1>2
    <3>3. Place(S, x) = Place(S, y)
      BY <3>1, <3>2
    <3> QED BY <3>3, <1>3
  <2> HIDE DEF g, n
  <2> QED
    BY <2>1, <2>2, Fun_IsInj
<1>5. IsFiniteSet(1 .. n) /\ Cardinality(1 .. n) = n
  <2> HIDE DEF n
  <2> QED BY <1>1, FS_Interval
<1>6. g \in Surjection(S, 1 .. n)
  <2> HIDE DEF g
  <2> QED BY <1>4, <1>5, FS_Injection
<1>7. ASSUME NEW k \in 1 .. n PROVE \E x \in S : Place(S, x) = k - 1
  <2>1. PICK x \in S : g[x] = k
    BY <1>6 DEF Surjection
  <2>2. Place(S, x) + 1 = k /\ Place(S, x) \in Int /\ k \in Int
    BY <1>1, <1>2, <2>1
  <2> QED
    BY <2>2
<1> QED
  BY <1>1, <1>2, <1>7

-----------------------------------------------------------------------------
(* The list in order: each element at the index after its place. *)
IsAscending(s, S) ==
    /\ s \in [1 .. Cardinality(S) -> S]
    /\ \A i, j \in 1 .. Cardinality(S) : i < j => Promise!Sooner(s[i], s[j])

LEMMA AscendingSorts ==
    ASSUME NEW S \in SUBSET Coordinates, IsFiniteSet(S)
    PROVE  IsAscending(Ascending(S), S)
<1> DEFINE n == Cardinality(S)
           h == [k \in 1 .. n |-> CHOOSE x \in S : Place(S, x) = k - 1]
           Sorted(s) == \A i, j \in DOMAIN s :
                            i < j => LessEq(s[i], s[j]) /\ s[i] # s[j]
<1>1. n \in Nat
  BY PlacesNumber
<1>2. ASSUME NEW k \in 1 .. n PROVE h[k] \in S /\ Place(S, h[k]) = k - 1
  <2>1. \E x \in S : Place(S, x) = k - 1
    BY PlacesNumber
  <2> HIDE DEF n
  <2> QED
    BY <2>1
<1>3. h \in [1 .. n -> S]
  BY <1>2
<1>4. ASSUME NEW i \in 1 .. n, NEW j \in 1 .. n, i < j
      PROVE  LessEq(h[i], h[j]) /\ h[i] # h[j]
  <2>1. /\ h[i] \in S /\ Place(S, h[i]) = i - 1
        /\ h[j] \in S /\ Place(S, h[j]) = j - 1
    BY <1>2
  <2>2. i - 1 < j - 1 /\ ~ (j - 1 < i - 1) /\ i - 1 # j - 1
    <3> HIDE DEF n, h
    <3> QED BY <1>1, <1>4
  <2> HIDE DEF n, h
  <2>3. h[i] # h[j]
    BY <2>1, <2>2
  <2>4. ~ Promise!Sooner(h[j], h[i])
    BY <2>1, <2>2, PlaceGrows
  <2> QED
    BY <2>1, <2>3, <2>4, Order, LessEqIsSooner
<1>5. h \in [1 .. n -> S] /\ Sorted(h)
  <2>1. DOMAIN h = 1 .. n
    BY <1>3
  <2> QED
    BY <1>3, <1>4, <2>1
<1>6. Ascending(S) \in [1 .. n -> S] /\ Sorted(Ascending(S))
  <2>1. Ascending(S) = CHOOSE s \in [1 .. n -> S] : Sorted(s)
    BY DEF Ascending
  <2> HIDE DEF h, n, Sorted
  <2> QED
    BY <1>5, <2>1
<1>7. ASSUME NEW i \in 1 .. n, NEW j \in 1 .. n, i < j
      PROVE  Promise!Sooner(Ascending(S)[i], Ascending(S)[j])
  <2>1. DOMAIN Ascending(S) = 1 .. n
    BY <1>6
  <2>2. /\ Ascending(S)[i] \in S /\ Ascending(S)[j] \in S
        /\ LessEq(Ascending(S)[i], Ascending(S)[j]) /\ Ascending(S)[i] # Ascending(S)[j]
    BY <1>6, <1>7, <2>1
  <2> QED
    BY <2>2, LessEqIsSooner
<1> QED
  BY <1>6, <1>7 DEF IsAscending

LEMMA PlaceOfElement ==
    ASSUME NEW S \in SUBSET Coordinates, IsFiniteSet(S), NEW s, IsAscending(s, S),
           NEW k \in 1 .. Cardinality(S)
    PROVE  s[k] \in S /\ Place(S, s[k]) = k - 1
<1> DEFINE n == Cardinality(S)
           B == Before(S, s[k])
           t == [j \in 1 .. (k - 1) |-> s[j]]
<1>1. n \in Nat
  BY PlacesNumber
<1>2. s \in [1 .. n -> S]
  BY DEF IsAscending
<1>3. ASSUME NEW i \in 1 .. n, NEW j \in 1 .. n, i < j
      PROVE  Promise!Sooner(s[i], s[j]) /\ s[i] # s[j]
  <2>1. s[i] \in Coordinates /\ s[j] \in Coordinates
    BY <1>2
  <2>2. Promise!Sooner(s[i], s[j])
    BY <1>3 DEF IsAscending
  <2> QED
    BY <2>1, <2>2, Order
<1>4. s \in Injection(1 .. n, S)
  <2>1. ASSUME NEW i \in 1 .. n, NEW j \in 1 .. n, s[i] = s[j] PROVE i = j
    <3>1. ~ (i < j) /\ ~ (j < i)
      BY <1>3, <2>1
    <3> HIDE DEF n
    <3> QED BY <1>1, <3>1
  <2> HIDE DEF n
  <2> QED
    BY <1>2, <2>1, Fun_IsInj
<1>5. s \in Surjection(1 .. n, S)
  <2>1. Cardinality(1 .. n) = n
    <3> HIDE DEF n
    <3> QED BY <1>1, FS_Interval
  <2> QED
    BY <1>4, <2>1, FS_Injection
<1>6. ASSUME NEW j \in 1 .. (k - 1) PROVE j \in 1 .. n /\ j < k
  <2>1. k \in 1 .. n
    OBVIOUS
  <2> HIDE DEF n
  <2> QED
    BY <1>1, <2>1
<1>7. t \in [1 .. (k - 1) -> B]
  <2>1. ASSUME NEW j \in 1 .. (k - 1) PROVE s[j] \in B
    BY <1>2, <1>3, <1>6 DEF Before
  <2> QED
    BY <2>1
<1>8. ASSUME NEW i \in 1 .. (k - 1), NEW j \in 1 .. (k - 1), t[i] = t[j] PROVE i = j
  <2>1. s[i] = s[j] /\ i \in 1 .. n /\ j \in 1 .. n
    BY <1>6, <1>8
  <2> QED
    BY <2>1, <1>4 DEF Injection, IsInjective
<1>9. ASSUME NEW y \in B PROVE \E j \in 1 .. (k - 1) : t[j] = y
  <2>1. PICK j \in 1 .. n : s[j] = y
    BY <1>5 DEF Surjection, Before
  <2>2. Promise!Sooner(s[j], s[k]) /\ s[j] \in Coordinates /\ s[k] \in Coordinates
    BY <1>2, <2>1 DEF Before
  <2>3. j # k /\ ~ (k < j)
    BY <1>3, <2>2, Order
  <2>4. j \in 1 .. (k - 1)
    <3> HIDE DEF n
    <3> QED BY <1>1, <2>3
  <2> QED
    BY <2>1, <2>4
<1>10. t \in Bijection(1 .. (k - 1), B)
  <2> HIDE DEF t, B
  <2>1. t \in Injection(1 .. (k - 1), B)
    BY <1>7, <1>8, Fun_IsInj
  <2>2. t \in Surjection(1 .. (k - 1), B)
    BY <1>7, <1>9, Fun_IsSurj
  <2> QED
    BY <2>1, <2>2 DEF Bijection
<1>11. IsFiniteSet(1 .. (k - 1)) /\ Cardinality(1 .. (k - 1)) = k - 1
  <2>1. k \in Int /\ k >= 1
    <3> HIDE DEF n
    <3> QED BY <1>1
  <2> QED
    BY <2>1, FS_Interval
<1>12. Cardinality(B) = k - 1
  <2>1. ExistsBijection(1 .. (k - 1), B)
    <3> HIDE DEF t, B
    <3> QED BY <1>10 DEF ExistsBijection
  <2> HIDE DEF B
  <2> QED
    BY <1>11, <2>1, FS_Bijection
<1> QED
  BY <1>2, <1>12 DEF Place

-----------------------------------------------------------------------------
(* The bounds of a window: the open parts below and above every number. *)
LEMMA BoundsAreTriples ==
    ASSUME NEW bound \in Bounds
    PROVE  _lower_bound(bound) \in Triples /\ _upper_bound(bound) \in Triples
<1>1. /\ bound.book \in Int
      /\ bound.chapter # None => bound.chapter \in Int
      /\ bound.verse # None => bound.verse \in Int
  BY SMTT(40) DEF Bounds, MaxBound
<1> QED
  BY <1>1 DEF _lower_bound, _upper_bound, verse_key, Triples, MaxBound

LEMMA BoundParts ==
    ASSUME NEW bound \in Bounds
    PROVE  /\ bound.book \in Nat
           /\ bound.chapter # None =>
                bound.chapter \in Nat /\ bound.chapter < MaxBound
           /\ bound.verse # None => bound.verse \in Nat /\ bound.verse < MaxBound
  BY SMTT(40) DEF Bounds, MaxBound

LEMMA LowerBound ==
    ASSUME NEW bound \in Bounds, NEW x \in Coordinates
    PROVE  LessEq(_lower_bound(bound), x) <=> Promise!NotBefore(x, bound)
<1> DEFINE lo == _lower_bound(bound)
<1>1. LessEq(lo, x) <=> \/ lo[1] < x[1]
                        \/ lo[1] = x[1] /\ lo[2] < x[2]
                        \/ lo[1] = x[1] /\ lo[2] = x[2] /\ lo[3] <= x[3]
  BY BoundsAreTriples, Parts, Comparison
<1>2. /\ lo[1] = bound.book
      /\ lo[2] = IF bound.chapter = None THEN -1 ELSE bound.chapter
      /\ lo[3] = IF bound.verse = None THEN -1 ELSE bound.verse
  BY DEF _lower_bound, verse_key
<1>3. x[1] \in Nat /\ x[2] \in Nat /\ x[3] \in Nat
  BY Parts
<1> HIDE DEF lo
<1> QED
  BY <1>1, <1>2, <1>3, BoundParts DEF Promise!NotBefore, lo

LEMMA UpperBound ==
    ASSUME NEW bound \in Bounds, NEW x \in Coordinates
    PROVE  LessEq(x, _upper_bound(bound)) <=> Promise!NotAfter(x, bound)
<1> DEFINE hi == _upper_bound(bound)
<1>1. LessEq(x, hi) <=> \/ x[1] < hi[1]
                        \/ x[1] = hi[1] /\ x[2] < hi[2]
                        \/ x[1] = hi[1] /\ x[2] = hi[2] /\ x[3] <= hi[3]
  BY BoundsAreTriples, Parts, Comparison
<1>2. /\ hi[1] = bound.book
      /\ hi[2] = IF bound.chapter = None THEN MaxBound ELSE bound.chapter
      /\ hi[3] = IF bound.verse = None THEN MaxBound ELSE bound.verse
  BY DEF _upper_bound, verse_key
<1>3. /\ x[1] \in Nat /\ x[2] \in Nat /\ x[3] \in Nat
      /\ x[2] < MaxBound /\ x[3] < MaxBound
  BY Parts
<1>4. MaxBound \in Nat
  BY DEF MaxBound
<1> HIDE DEF hi
<1> QED
  BY <1>1, <1>2, <1>3, <1>4, BoundParts DEF Promise!NotAfter, hi

LEMMA BackwardsAgree ==
    ASSUME NEW req, req.from \in Bounds, req.to \in Bounds
    PROVE  ReversedWindow(req.from, req.to) <=> Promise!Backwards(req)
<1> DEFINE from == req.from
           to == req.to
           lo == _lower_bound(from)
           hi == _upper_bound(to)
<1>1. LessEq(lo, hi) <=> \/ lo[1] < hi[1]
                         \/ lo[1] = hi[1] /\ lo[2] < hi[2]
                         \/ lo[1] = hi[1] /\ lo[2] = hi[2] /\ lo[3] <= hi[3]
  BY BoundsAreTriples, Comparison
<1>2. /\ lo[1] = from.book
      /\ lo[2] = IF from.chapter = None THEN -1 ELSE from.chapter
      /\ lo[3] = IF from.verse = None THEN -1 ELSE from.verse
      /\ hi[1] = to.book
      /\ hi[2] = IF to.chapter = None THEN MaxBound ELSE to.chapter
      /\ hi[3] = IF to.verse = None THEN MaxBound ELSE to.verse
  BY DEF _lower_bound, _upper_bound, verse_key
<1>3. /\ from.book \in Nat
      /\ from.chapter # None => from.chapter \in Nat /\ from.chapter < MaxBound
      /\ from.verse # None => from.verse \in Nat /\ from.verse < MaxBound
      /\ to.book \in Nat
      /\ to.chapter # None => to.chapter \in Nat /\ to.chapter < MaxBound
      /\ to.verse # None => to.verse \in Nat /\ to.verse < MaxBound
  BY BoundParts
<1>4. MaxBound \in Nat
  BY DEF MaxBound
<1>5. ReversedWindow(from, to) <=> to.book < from.book \/ ~ LessEq(lo, hi)
  BY DEF ReversedWindow
<1>6. Promise!Backwards(req) <=>
        \/ to.book < from.book
        \/ /\ to.book = from.book
           /\ from.chapter # None /\ to.chapter # None
           /\ \/ to.chapter < from.chapter
              \/ /\ to.chapter = from.chapter
                 /\ from.verse # None /\ to.verse # None
                 /\ to.verse < from.verse
  BY Zenon DEF Promise!Backwards
<1> HIDE DEF from, to, lo, hi
<1> QED
  BY <1>1, <1>2, <1>3, <1>4, <1>5, <1>6 DEF from, to

-----------------------------------------------------------------------------
(* The verses that the program collects for a window are those in it. *)
LEMMA WindowsAgree ==
    ASSUME NEW req, req.from \in Bounds, req.to \in Bounds, NEW v \in Versions
    PROVE  LET window == range_window(req.from, req.to)
               fetched == {row \in Texts[v] : row.at[1] \in window.books}
               covered == UNION {{verse_key(row.at[1], row.at[2], w) :
                                   w \in row.at[3] .. row.hi} : row \in fetched}
           IN  {x \in covered : LessEq(window.lower, x) /\ LessEq(x, window.upper)}
                  = Promise!InWindow(req, v)
<1> DEFINE window == range_window(req.from, req.to)
           fetched == {row \in Texts[v] : row.at[1] \in window.books}
           VersesIn(row) == RowVerses(row.at, row.hi)
           covered == UNION {VersesIn(row) : row \in fetched}
<1>1. /\ window.books = req.from.book .. req.to.book
      /\ window.lower = _lower_bound(req.from)
      /\ window.upper = _upper_bound(req.to)
  BY DEF range_window
<1>2. StoredVerses(v) = UNION {VersesIn(row) : row \in Texts[v]}
  BY DEF StoredVerses, RowVerses
<1>3. ASSUME NEW row \in Texts[v], NEW x \in VersesIn(row) PROVE x[1] = row.at[1]
  BY DEF RowVerses
<1>4. covered = {x \in StoredVerses(v) : x[1] \in window.books}
  <2> HIDE DEF window, VersesIn
  <2> QED BY <1>2, <1>3
<1>5. Promise!InWindow(req, v) =
        {x \in StoredVerses(v) : /\ Promise!NotBefore(x, req.from)
                                 /\ Promise!NotAfter(x, req.to)}
  BY DEF Promise!InWindow, Promise!StoredVerses, StoredVerses
<1>6. ASSUME NEW x \in StoredVerses(v)
      PROVE  /\ LessEq(window.lower, x) <=> Promise!NotBefore(x, req.from)
             /\ LessEq(x, window.upper) <=> Promise!NotAfter(x, req.to)
  BY <1>1, StoredIsFinite, LowerBound, UpperBound
<1>7. ASSUME NEW x \in StoredVerses(v), Promise!NotBefore(x, req.from),
             Promise!NotAfter(x, req.to)
      PROVE  x[1] \in window.books
  <2>1. x[1] \in Nat /\ req.from.book \in Nat /\ req.to.book \in Nat
    BY StoredIsFinite, Parts, BoundParts
  <2>2. req.from.book <= x[1] /\ x[1] <= req.to.book
    BY <1>7, <2>1 DEF Promise!NotBefore, Promise!NotAfter
  <2>3. x[1] \in req.from.book .. req.to.book
    BY <2>1, <2>2
  <2> QED
    BY <1>1, <2>3
<1>8. {x \in covered : LessEq(window.lower, x) /\ LessEq(x, window.upper)}
        = Promise!InWindow(req, v)
  <2> HIDE DEF window, covered
  <2> QED BY <1>4, <1>5, <1>6, <1>7
<1> QED
  BY <1>8 DEF RowVerses, verse_key

(* The list of a window and the piece of it that limit and offset cut out, *)
(* and what makes that piece a page.                                       *)
ListOf(s, n) == [i \in 1 .. n |-> Verse(s[i])]
CutOf(list, o, l, n) == SubSeq(list, o + 1, Min({o + l, n}))
PageOf(W, o, l) == {x \in W : Place(W, x) \in o .. (o + l - 1)}
IsCut(slice, W, o, l) ==
    /\ Len(slice) = Cardinality(PageOf(W, o, l)) /\ Len(slice) \in Nat
    /\ \A i \in 1 .. Len(slice) : \E x \in W : slice[i] = Verse(x)
    /\ slice = [i \in 1 .. Len(slice) |-> slice[i]]
    /\ \A x \in PageOf(W, o, l) : slice[Place(W, x) - o + 1] = Verse(x)

LEMMA PageIsSlice ==
    ASSUME NEW W \in SUBSET Coordinates, IsFiniteSet(W), NEW s, IsAscending(s, W),
           NEW o \in Nat, NEW l \in Nat
    PROVE  LET n == Cardinality(W)
           IN  Len(ListOf(s, n)) = n /\ IsCut(CutOf(ListOf(s, n), o, l, n), W, o, l)
<1> DEFINE n == Cardinality(W)
           all == [i \in 1 .. n |-> Verse(s[i])]
           e == Min({o + l, n})
           k == IF o + 1 <= e THEN e - o ELSE 0
           slice == SubSeq(all, o + 1, e)
           page == {x \in W : Place(W, x) \in o .. (o + l - 1)}
           u == [j \in 1 .. k |-> s[o + j]]
<1>1. n \in Nat
  BY PlacesNumber
<1>2. e \in Nat /\ e <= n /\ e <= o + l /\ (e = n \/ e = o + l)
  <2> HIDE DEF n
  <2>1. o + l \in Nat
    OBVIOUS
  <2>2. \E x \in {o + l, n} : \A y \in {o + l, n} : x <= y
    BY <1>1, <2>1
  <2>3. e \in {o + l, n} /\ \A y \in {o + l, n} : e <= y
    BY <2>2 DEF Min
  <2> HIDE DEF e
  <2> QED
    BY <1>1, <2>1, <2>3
<1>3. k \in Nat
  <2> HIDE DEF e
  <2> QED BY <1>2
<1>4. Len(all) = n
  <2> HIDE DEF n
  <2> QED BY <1>1
<1>5. slice = [i \in 1 .. k |-> Verse(s[o + i])] /\ Len(slice) = k
  <2>1. slice = [i \in 1 .. (e - o) |-> all[i + o]]
    <3> HIDE DEF all, e
    <3>1. slice = [i \in 1 .. (1 + e - (o + 1)) |-> all[i + (o + 1) - 1]]
      BY <1>2
    <3>2. 1 + e - (o + 1) = e - o /\ \A i \in Int : i + (o + 1) - 1 = i + o
      BY <1>2
    <3> QED
      BY <1>2, <3>1, <3>2
  <2>2. 1 .. (e - o) = 1 .. k
    <3> HIDE DEF e
    <3> QED BY <1>2
  <2>3. ASSUME NEW i \in 1 .. k PROVE all[i + o] = Verse(s[o + i])
    <3>1. i + o \in 1 .. n /\ i + o = o + i
      <4> HIDE DEF e, n
      <4> QED BY <1>1, <1>2
    <3> QED
      BY <3>1
  <2> HIDE DEF all, slice, e, k
  <2>4. slice = [i \in 1 .. k |-> Verse(s[o + i])]
    BY <2>1, <2>2, <2>3
  <2> QED
    BY <1>3, <2>4
<1>6. ASSUME NEW j \in 1 .. k
      PROVE  /\ s[o + j] \in page /\ Place(W, s[o + j]) = o + j - 1
  <2>1. o + j \in 1 .. n /\ o + j - 1 \in o .. (o + l - 1)
    <3> HIDE DEF e, n
    <3> QED BY <1>1, <1>2
  <2>2. s[o + j] \in W /\ Place(W, s[o + j]) = o + j - 1
    <3> HIDE DEF k
    <3> QED BY <2>1, PlaceOfElement
  <2> HIDE DEF k
  <2> QED
    BY <2>1, <2>2
<1>7. ASSUME NEW x \in page
      PROVE  /\ Place(W, x) - o + 1 \in 1 .. k
             /\ s[o + (Place(W, x) - o + 1)] = x
  <2> DEFINE p == Place(W, x)
  <2>1. p \in 0 .. (n - 1) /\ p \in o .. (o + l - 1) /\ x \in W
    BY PlacesNumber
  <2> HIDE DEF p, n, e
  <2>2. /\ p \in Int /\ p + 1 \in 1 .. n /\ p - o + 1 \in 1 .. k
        /\ o + (p - o + 1) = p + 1 /\ (p + 1) - 1 = p
    BY <1>1, <1>2, <2>1
  <2>3. s[p + 1] \in W /\ Place(W, s[p + 1]) = p
    BY <2>2, PlaceOfElement DEF n
  <2>4. s[p + 1] = x
    <3>1. ~ (Place(W, x) < Place(W, s[p + 1])) /\ ~ (Place(W, s[p + 1]) < Place(W, x))
      BY <2>2, <2>3 DEF p
    <3> QED
      BY <2>1, <2>3, <3>1, Order, PlaceGrows
  <2> QED
    BY <2>2, <2>4 DEF p
<1>8. u \in Bijection(1 .. k, page)
  <2>1. u \in [1 .. k -> page]
    BY <1>6
  <2>2. ASSUME NEW i \in 1 .. k, NEW j \in 1 .. k, u[i] = u[j] PROVE i = j
    <3>1. o + i - 1 = o + j - 1
      BY <1>6, <2>2
    <3> HIDE DEF k
    <3> QED BY <1>3, <3>1
  <2>3. ASSUME NEW x \in page PROVE \E j \in 1 .. k : u[j] = x
    <3>1. u[Place(W, x) - o + 1] = s[o + (Place(W, x) - o + 1)]
      BY <1>7
    <3> QED
      BY <1>7, <3>1
  <2> HIDE DEF u, k, page
  <2>4. u \in Injection(1 .. k, page)
    BY <2>1, <2>2, Fun_IsInj
  <2>5. u \in Surjection(1 .. k, page)
    BY <2>1, <2>3, Fun_IsSurj
  <2> QED
    BY <2>4, <2>5 DEF Bijection
<1>9. Cardinality(page) = k
  <2> HIDE DEF u, k, page
  <2>1. IsFiniteSet(1 .. k) /\ Cardinality(1 .. k) = k
    BY <1>3, FS_Interval
  <2>2. ExistsBijection(1 .. k, page)
    BY <1>8 DEF ExistsBijection
  <2> QED
    BY <2>1, <2>2, FS_Bijection
<1>10. ASSUME NEW x \in page PROVE slice[Place(W, x) - o + 1] = Verse(x)
  <2> HIDE DEF slice, k, page
  <2> QED BY <1>5, <1>7
<1>11. ASSUME NEW i \in 1 .. k PROVE \E x \in W : slice[i] = Verse(x)
  <2>1. s[o + i] \in W
    BY <1>6
  <2> HIDE DEF slice, k
  <2> QED
    BY <1>5, <2>1
<1> HIDE DEF n, all, e, k, page
<1> QED
  BY <1>3, <1>4, <1>5, <1>9, <1>10, <1>11
  DEF n, all, e, page, ListOf, CutOf, PageOf, IsCut

-----------------------------------------------------------------------------
LEMMA LimitsAgree ==
    ASSUME NEW req
    PROVE  /\ clamp_page(req.limit, req.offset).limit = Promise!Limit(req)
           /\ clamp_page(req.limit, req.offset).offset = Promise!Offset(req)
           /\ LimitOf(req.limit) = Promise!Limit(req)
  BY DEF clamp_page, LimitOf, Promise!Limit, Promise!Offset

LEMMA SizesAgree ==
    ASSUME NEW S
    PROVE  Promise!Cardinality(S) = Cardinality(S)
  BY Zenon DEF Promise!Cardinality, Cardinality

(* A window that is not refused is answered with its page and its size: the *)
(* list that stored_verse_refs sorts, cut as resolve_verse_range cuts it.   *)
THEOREM WindowIsPaged ==
    ASSUME NEW req, req.from \in Bounds, req.to \in Bounds,
           {req.limit, req.offset} \subseteq Int \cup {None},
           LimitOf(req.limit) \in 1 .. MAX_LIMIT, NEW v \in Versions
    PROVE  LET all == stored_verse_refs(Texts[v], range_window(req.from, req.to))
               slice == Slice(all, clamp_page(req.limit, req.offset))
           IN  /\ Promise!IsPage(slice, req, v)
               /\ Len(all) = Cardinality(Promise!InWindow(req, v))
               /\ slice \in Seq(Members) /\ Len(all) \in Nat
<1> DEFINE W == Promise!InWindow(req, v)
           s == Ascending(W)
           o == Promise!Offset(req)
           l == Promise!Limit(req)
           n == Cardinality(W)
           all == stored_verse_refs(Texts[v], range_window(req.from, req.to))
           slice == Slice(all, clamp_page(req.limit, req.offset))
           list == ListOf(s, n)
<1>1. l \in Nat /\ o \in Nat
  <2>1. MAX_LIMIT \in Nat
    BY VersionsAssumption
  <2>2. l \in Nat
    BY <2>1, LimitsAgree
  <2>3. req.offset = None \/ req.offset \in Int
    OBVIOUS
  <2>4. o \in Nat
    BY <2>3 DEF Promise!Offset
  <2> QED
    BY <2>2, <2>4
<1>2. W \subseteq StoredVerses(v)
  BY DEF Promise!InWindow, Promise!StoredVerses, StoredVerses
<1>3. W \in SUBSET Coordinates /\ IsFiniteSet(W)
  BY <1>2, StoredIsFinite, FS_Subset
<1>4. IsAscending(s, W)
  <2> HIDE DEF W
  <2> QED BY <1>3, AscendingSorts
<1>5. all = list
  BY WindowsAgree DEF stored_verse_refs, ListOf
<1>6. Len(all) = n
  <2>1. n \in Nat
    <3> HIDE DEF W
    <3> QED BY <1>3, PlacesNumber
  <2> HIDE DEF all, n
  <2> QED
    BY <1>5, <2>1 DEF ListOf
<1>7. slice = CutOf(list, o, l, n)
  <2> HIDE DEF all, n, list, o, l
  <2> QED BY <1>5, <1>6, LimitsAgree DEF Slice, CutOf, o, l
<1>8. IsCut(slice, W, o, l)
  <2> HIDE DEF W, s, o, l, slice
  <2> QED BY <1>1, <1>3, <1>4, <1>7, PageIsSlice
<1>9. Promise!IsPage(slice, req, v)
  <2>1. ASSUME NEW x PROVE Promise!Verse(x) = Verse(x)
    BY Zenon DEF Promise!Verse, Verse
  <2>2. PageOf(W, o, l) = {x \in W : Cardinality({y \in W : Promise!Sooner(y, x)})
                                        \in o .. (o + l - 1)}
    <3> HIDE DEF W, o, l
    <3> QED BY Zenon DEF PageOf, Place, Before
  <2>3. ASSUME NEW x \in PageOf(W, o, l)
        PROVE  slice[Cardinality({y \in W : Promise!Sooner(y, x)}) - o + 1]
                = Promise!Verse(x)
    <3> HIDE DEF slice, W, o, l
    <3> QED BY <1>8, <2>1 DEF IsCut, Place, Before
  <2>4. Len(slice) = Cardinality(PageOf(W, o, l))
    <3> HIDE DEF slice, W, o, l
    <3> QED BY <1>8 DEF IsCut
  <2> DEFINE page == {x \in W : Cardinality({y \in W : Promise!Sooner(y, x)})
                                        \in o .. (o + l - 1)}
  <2>5. /\ Len(slice) = Cardinality(page)
        /\ \A x \in page : slice[Cardinality({y \in W : Promise!Sooner(y, x)}) - o + 1]
                = Promise!Verse(x)
    <3> HIDE DEF slice, W, o, l
    <3> QED BY <2>2, <2>3, <2>4, Zenon
  <2> HIDE DEF slice
  <2> QED
    BY <2>5, SizesAgree, Zenon DEF Promise!IsPage
<1>10. slice \in Seq(Members)
  <2>1. ASSUME NEW x \in W PROVE Verse(x) \in Members
    <3>1. x \in StoredVerses(v)
      BY <1>2
    <3> HIDE DEF W
    <3>2. x \in UNION {StoredVerses(w) : w \in Versions}
      BY <3>1, Zenon
    <3> QED
      BY <3>2, Zenon DEF Members
  <2> HIDE DEF slice, W, o, l
  <2>2. slice \in [1 .. Len(slice) -> Members]
    BY <1>8, <2>1 DEF IsCut
  <2>3. Len(slice) \in Nat
    BY <1>8 DEF IsCut
  <2> QED
    BY <2>2, <2>3
<1>11. n \in Nat
  <2> HIDE DEF W
  <2> QED BY <1>3, PlacesNumber
<1> QED
  BY <1>6, <1>9, <1>10, <1>11

-----------------------------------------------------------------------------
Stored == {Verse(x) : x \in UNION {StoredVerses(v) : v \in Versions}}
Pairs == [src : Nat, tgt : Nat]
Rows == [src : Nat, tgt : Nat, ref : Stored, first : Nat, last : Nat]
Entries == [of : Members \cup {Verse(r.at) : r \in Members} \cup {None},
            first : Nat, last : Nat]
Steps == {"prepare", "expand", "find", "find target", "load", "resolve"}
Calls == [req : Requests, since : Nat, pc : Steps, first : Nat,
          refs : Seq(Members), total : Nat, pair : Pairs, floor : Nat,
          payloads : SUBSET Rows, entries : Seq(Entries)]
BuildSteps == {"idle", "open", "clear", "pair", "rows", "publish"}
Builds == [step : BuildSteps, side : Sides, id : Nat, other : Nat, first : Nat,
           last : Nat, todo : SUBSET Stored, since : Nat]
Indexes == [id : Nat, status : {"none", "pending", "building", "ready"}, floor : Nat]

TypeInv ==
    /\ catalog \in Versions /\ lastId \in Nat
    /\ index \in [Sides -> Indexes]
    /\ mappings \in SUBSET Rows
    /\ build \in [Workers -> Builds]
    /\ call \in {NoCall} \cup Calls

(* Only a window that was not refused is expanded. *)
ExpandInv ==
    call.pc = "expand" => call.req.endpoint = "range" /\ ~ Refused(call.req)

LEMMA CatalogIsNat == ASSUME TypeInv PROVE catalog \in Nat
  BY VersionsAssumption DEF TypeInv

LEMMA CallKinds ==
    ASSUME TypeInv
    PROVE  /\ call # NoCall <=> call.pc # "idle"
           /\ call # NoCall => call \in Calls
<1>1. call = NoCall \/ call \in Calls
  BY DEF TypeInv
<1>2. call \in Calls => call.pc # "idle"
  BY DEF Calls, Steps
<1>3. NoCall.pc = "idle"
  BY DEF NoCall
<1> QED
  BY <1>1, <1>2, <1>3

(* The smallest of some numbers, the larger of two. *)
LEMMA MinIs ==
    ASSUME NEW T, T \subseteq Nat, T # {}
    PROVE  Min(T) \in T /\ \A y \in T : Min(T) <= y
<1> DEFINE Less == {s \in Nat \X Nat : s[1] < s[2]}
<1>1. IsWellFoundedOn(Less, Nat)
  BY NatLessThanWellFounded, Zenon DEF OpToRel
<1>2. \E x \in T : \A y \in T : ~ (<<y, x>> \in Less)
  <2> HIDE DEF Less
  <2> QED BY <1>1, WFMin, Zenon
<1>3. ASSUME NEW x \in T, NEW y \in T, <<y, x>> \notin Less PROVE x <= y
  <2>1. x \in Nat /\ y \in Nat
    OBVIOUS
  <2> QED BY <1>3, <2>1
<1>4. \E x \in T : \A y \in T : x <= y
  <2> HIDE DEF Less
  <2> QED BY <1>2, <1>3, Zenon
<1> QED
  BY <1>4 DEF Min

LEMMA MaxIs ==
    ASSUME NEW a \in Nat, NEW b \in Nat
    PROVE  Max({a, b}) \in Nat /\ (Max({a, b}) = a \/ Max({a, b}) = b)
           /\ a <= Max({a, b}) /\ b <= Max({a, b})
<1>1. \E x \in {a, b} : \A y \in {a, b} : x >= y
  OBVIOUS
<1>2. Max({a, b}) \in {a, b} /\ \A y \in {a, b} : Max({a, b}) >= y
  BY <1>1 DEF Max
<1> QED
  BY <1>2

(* ------------------------- what a step leaves alone ---------------------- *)
LEMMA ReaderKeeps ==
    ASSUME Reader
    PROVE  UNCHANGED <<catalog, index, mappings, build, lastId>>
  BY DEF Reader, Receive, RefuseBatch, Prepare, Expand, FindSource, FindTarget,
         LoadPayloads, ResolveEntry, RespondBatch, Reply, Step, indexVars

LEMMA BuilderKeeps ==
    ASSUME NEW w \in Workers, Builder(w)
    PROVE  UNCHANGED <<catalog, lastId, call, response, served>>
<1>1. ASSUME NEW s \in Sides, Claim(w, s)
      PROVE  UNCHANGED <<catalog, lastId, call, response, served>>
  BY <1>1 DEF Claim, readerVars
<1>2. ASSUME NEW m \in mappings, ClearMapping(w, m)
      PROVE  UNCHANGED <<catalog, lastId, call, response, served>>
  BY <1>2 DEF ClearMapping, readerVars
<1>3. ASSUME NEW ref \in build[w].todo, BuildRow(w, ref)
      PROVE  UNCHANGED <<catalog, lastId, call, response, served>>
  BY <1>3 DEF BuildRow, BuildStep, readerVars
<1>4. ASSUME \/ OpenBuild(w) \/ OpenPair(w) \/ LoadPair(w) \/ CheckFinish(w)
             \/ Publish(w) \/ StopBuild(w)
      PROVE  UNCHANGED <<catalog, lastId, call, response, served>>
  BY <1>4 DEF OpenBuild, OpenPair, LoadPair, CheckFinish, Publish, StopBuild,
              BuildStep, readerVars
<1> QED
  BY <1>1, <1>2, <1>3, <1>4 DEF Builder

LEMMA WriterKeeps ==
    ASSUME Writers
    PROVE  UNCHANGED <<call, response, served>>
<1>1. ASSUME NEW s \in Sides, Edit(s) \/ Requeue(s) \/ CreateIndex(s) \/ DropIndex(s)
      PROVE  UNCHANGED <<call, response, served>>
  BY <1>1 DEF Edit, Requeue, CreateIndex, DropIndex, readerVars
<1>2. ASSUME NEW m \in mappings, ReclaimRow(m)
      PROVE  UNCHANGED <<call, response, served>>
  BY <1>2 DEF ReclaimRow, readerVars
<1>3. ASSUME EditFurther PROVE UNCHANGED <<call, response, served>>
  BY <1>3 DEF EditFurther, readerVars
<1> QED
  BY <1>1, <1>2, <1>3, BuilderKeeps DEF Writers

(* The catalog moves by an edit and by nothing else. *)
LEMMA CatalogMoves ==
    ASSUME [Next]_vars
    PROVE  \/ catalog' = catalog
           \/ Writers /\ catalog' = catalog + 1 /\ catalog' \in Versions
<1>1. ASSUME NEW s \in Sides, Edit(s)
      PROVE  Writers /\ catalog' = catalog + 1 /\ catalog' \in Versions
  BY <1>1 DEF Edit, Writers
<1>2. ASSUME EditFurther
      PROVE  Writers /\ catalog' = catalog + 1 /\ catalog' \in Versions
  BY <1>2 DEF EditFurther, Writers
<1>3. ASSUME NEW s \in Sides, Requeue(s) \/ CreateIndex(s) \/ DropIndex(s)
      PROVE  catalog' = catalog
  BY <1>3 DEF Requeue, CreateIndex, DropIndex
<1>4. ASSUME NEW m \in mappings, ReclaimRow(m) PROVE catalog' = catalog
  BY <1>4 DEF ReclaimRow
<1>5. CASE Writers
  BY <1>1, <1>2, <1>3, <1>4, <1>5, BuilderKeeps DEF Writers
<1>6. CASE Reader \/ UNCHANGED vars
  BY <1>6, ReaderKeeps DEF vars
<1> QED
  BY <1>5, <1>6 DEF Next

LEMMA CatalogGrows ==
    ASSUME TypeInv, [Next]_vars
    PROVE  catalog' \in Versions /\ catalog' \in Nat /\ catalog <= catalog'
<1>1. catalog \in Nat /\ catalog \in Versions
  BY CatalogIsNat DEF TypeInv
<1>2. catalog' \in Versions
  BY <1>1, CatalogMoves
<1>3. catalog' \in Nat
  BY <1>2, VersionsAssumption
<1> QED
  BY <1>1, <1>2, <1>3, CatalogMoves

-----------------------------------------------------------------------------
(* ------------------------------- the types ------------------------------- *)
LEMMA TypeStart == Init => TypeInv
<1> SUFFICES ASSUME Init PROVE TypeInv
  OBVIOUS
<1>1. catalog \in Versions /\ lastId \in Nat /\ mappings \in SUBSET Rows
  BY VersionsAssumption DEF Init
<1>2. index \in [Sides -> Indexes]
  BY DEF Init, Sides, Indexes
<1>3. build \in [Workers -> Builds]
  <2>1. NoBuild \in Builds
    BY DEF NoBuild, Builds, BuildSteps, Sides
  <2> QED
    BY <2>1 DEF Init
<1> QED
  BY <1>1, <1>2, <1>3 DEF Init, TypeInv

(* The least version that a new build and the builds beside it began at. *)
LEMMA SinceIs ==
    ASSUME TypeInv
    PROVE  /\ Min(BuildsSince) \in Nat /\ Min(BuildsSince) <= catalog
           /\ \A w \in Running : Min(BuildsSince) <= build[w].since
<1>1. BuildsSince \subseteq Nat
  <2>1. \A w \in Running : build[w].since \in Nat
    BY DEF Running, TypeInv, Builds
  <2> QED
    BY <2>1, CatalogIsNat DEF BuildsSince
<1>2. catalog \in BuildsSince /\ \A w \in Running : build[w].since \in BuildsSince
  BY DEF BuildsSince
<1> HIDE DEF BuildsSince
<1> QED
  BY <1>1, <1>2, MinIs

LEMMA BuilderTypes ==
    ASSUME TypeInv, NEW w \in Workers, Builder(w)
    PROVE  /\ index' \in [Sides -> Indexes]
           /\ mappings' \in SUBSET Rows
           /\ build' \in [Workers -> Builds]
<1>1. /\ index \in [Sides -> Indexes] /\ mappings \in SUBSET Rows
      /\ build \in [Workers -> Builds] /\ build[w] \in Builds
      /\ catalog \in Nat /\ catalog \in Versions
  BY CatalogIsNat DEF TypeInv
<1>2. NoBuild \in Builds
  BY DEF NoBuild, Builds, BuildSteps, Sides
<1>3. ASSUME NEW s \in Sides, Claim(w, s)
      PROVE  index' \in [Sides -> Indexes] /\ build' \in [Workers -> Builds]
             /\ mappings' = mappings
  <2> DEFINE since == Min(BuildsSince)
  <2>1. since \in Nat /\ index[s].id \in Nat /\ index[s] \in Indexes
    BY <1>1, SinceIs DEF Indexes
  <2>2. /\ build' = [build EXCEPT ![w] = [NoBuild EXCEPT !.step = "open", !.side = s,
                        !.id = index[s].id, !.first = catalog, !.since = since]]
        /\ index' = [index EXCEPT ![s].status = "building", ![s].floor = since]
        /\ mappings' = mappings
    BY <1>3 DEF Claim
  <2> HIDE DEF since
  <2>3. [NoBuild EXCEPT !.step = "open", !.side = s, !.id = index[s].id,
                        !.first = catalog, !.since = since] \in Builds
    BY <1>1, <1>2, <2>1 DEF Builds, BuildSteps
  <2>4. index' \in [Sides -> Indexes]
    BY <1>1, <2>1, <2>2 DEF Indexes
  <2> QED
    BY <1>1, <2>2, <2>3, <2>4
<1>4. ASSUME NEW to \in Builds, BuildStep(w, to)
      PROVE  index' \in [Sides -> Indexes] /\ build' \in [Workers -> Builds]
  BY <1>1, <1>4 DEF BuildStep
<1>5. ASSUME OpenBuild(w) PROVE index' \in [Sides -> Indexes]
                                /\ build' \in [Workers -> Builds] /\ mappings' = mappings
  <2> DEFINE o == IF Ready(Other(build[w].side)) THEN index[Other(build[w].side)].id ELSE 0
             to == [build[w] EXCEPT !.step = "clear", !.other = o]
  <2>1. o \in Nat
    BY <1>1 DEF Other, Sides, Indexes
  <2> HIDE DEF o
  <2>2. to \in Builds
    BY <1>1, <2>1 DEF Builds, BuildSteps
  <2>3. BuildStep(w, to) /\ mappings' = mappings
    BY <1>5 DEF OpenBuild, o
  <2> HIDE DEF to
  <2> QED
    BY <1>4, <2>2, <2>3
<1>6. ASSUME OpenPair(w) \/ CheckFinish(w) \/ StopBuild(w)
      PROVE  index' \in [Sides -> Indexes] /\ build' \in [Workers -> Builds]
             /\ mappings' = mappings
  <2>1. /\ [build[w] EXCEPT !.step = "pair"] \in Builds
        /\ [build[w] EXCEPT !.step = "publish", !.todo = {}] \in Builds
    BY <1>1 DEF Builds, BuildSteps
  <2> QED
    BY <1>2, <1>4, <1>6, <2>1 DEF OpenPair, CheckFinish, StopBuild
<1>7. ASSUME LoadPair(w)
      PROVE  index' \in [Sides -> Indexes] /\ build' \in [Workers -> Builds]
             /\ mappings' = mappings
  <2> DEFINE todo == {Verse(x) : x \in StoredVerses(catalog)}
             to == [build[w] EXCEPT !.step = "rows", !.last = catalog, !.todo = todo]
  <2>1. todo \in SUBSET Stored
    BY <1>1 DEF Stored
  <2> HIDE DEF todo
  <2>2. to \in Builds
    BY <1>1, <2>1 DEF Builds, BuildSteps
  <2>3. BuildStep(w, to) /\ mappings' = mappings
    BY <1>7 DEF LoadPair, todo
  <2> HIDE DEF to
  <2> QED
    BY <1>4, <2>2, <2>3
<1>8. ASSUME Publish(w)
      PROVE  index' \in [Sides -> Indexes] /\ build' \in [Workers -> Builds]
             /\ mappings' = mappings
  <2>1. build[w].side \in Sides /\ index[build[w].side] \in Indexes
    BY <1>1 DEF Builds
  <2>2. index' \in [Sides -> Indexes]
    BY <1>1, <1>8, <2>1 DEF Publish, Indexes
  <2> QED
    BY <1>1, <1>2, <1>8, <2>2 DEF Publish
<1>9. ASSUME NEW m \in mappings, ClearMapping(w, m)
      PROVE  index' = index /\ build' = build /\ mappings' \in SUBSET Rows
  BY <1>1, <1>9 DEF ClearMapping
<1>10. ASSUME NEW ref \in build[w].todo, BuildRow(w, ref)
       PROVE  /\ index' \in [Sides -> Indexes] /\ build' \in [Workers -> Builds]
              /\ mappings' \in SUBSET Rows
  <2> DEFINE p == PairOf(build[w])
             row == [src |-> p.src, tgt |-> p.tgt, ref |-> ref,
                     first |-> build[w].first, last |-> build[w].last]
             others == {m \in mappings : ~ (m.src = p.src /\ m.tgt = p.tgt /\ m.ref = ref)}
             to == [build[w] EXCEPT !.todo = @ \ {ref}]
  <2>1. ref \in Stored /\ p.src \in Nat /\ p.tgt \in Nat
    BY <1>1 DEF Builds, PairOf
  <2>2. to \in Builds
    BY <1>1 DEF Builds
  <2>3. BuildStep(w, to) /\ mappings' = others \cup {row}
    BY <1>10 DEF BuildRow
  <2> HIDE DEF p, to
  <2>4. row \in Rows
    BY <1>1, <2>1 DEF Rows, Builds
  <2>5. others \in SUBSET Rows
    BY <1>1
  <2> HIDE DEF row, others
  <2> QED
    BY <1>4, <2>2, <2>3, <2>4, <2>5
<1> QED
  BY <1>1, <1>3, <1>5, <1>6, <1>7, <1>8, <1>9, <1>10 DEF Builder

LEMMA QueuedType ==
    ASSUME TypeInv, NEW s \in Sides
    PROVE  /\ Queued(s) \in [Sides -> Indexes]
           /\ \A t \in Sides : /\ Queued(s)[t].id = index[t].id
                               /\ Queued(s)[t].floor = index[t].floor
                               /\ t # s => Queued(s)[t] = index[t]
           /\ Queued(s)[s].status = IF Exists(s) THEN "pending" ELSE "none"
           /\ ~ Exists(s) => Queued(s) = index
<1> index \in [Sides -> Indexes]
  BY DEF TypeInv
<1> QED
  BY DEF Queued, Indexes, Exists

LEMMA WriterTypes ==
    ASSUME TypeInv, Writers
    PROVE  TypeInv'
<1>1. call' \in {NoCall} \cup Calls
  BY WriterKeeps DEF TypeInv
<1>2. catalog' \in Versions
  BY CatalogGrows DEF Next
<1>3. index \in [Sides -> Indexes] /\ build \in [Workers -> Builds] /\ lastId \in Nat
      /\ mappings \in SUBSET Rows /\ NoIndex \in Indexes
  BY DEF TypeInv, NoIndex, Indexes
<1>4. ASSUME NEW s \in Sides, Edit(s) \/ Requeue(s)
      PROVE  index' \in [Sides -> Indexes] /\ UNCHANGED <<mappings, build, lastId>>
  <2>1. index' = Queued(s) /\ UNCHANGED <<mappings, build, lastId>>
    BY <1>4 DEF Edit, Requeue
  <2> QED
    BY <2>1, QueuedType
<1>5. ASSUME NEW s \in Sides, CreateIndex(s)
      PROVE  /\ index' \in [Sides -> Indexes] /\ lastId' \in Nat
             /\ UNCHANGED <<mappings, build>>
  BY <1>3, <1>5 DEF CreateIndex, Indexes
<1>6. ASSUME NEW s \in Sides, DropIndex(s)
      PROVE  index' \in [Sides -> Indexes] /\ UNCHANGED <<mappings, build, lastId>>
  BY <1>3, <1>6 DEF DropIndex
<1>7. ASSUME NEW m \in mappings, ReclaimRow(m)
      PROVE  mappings' \in SUBSET Rows /\ UNCHANGED <<index, build, lastId>>
  BY <1>3, <1>7 DEF ReclaimRow
<1>8. ASSUME EditFurther PROVE UNCHANGED <<index, mappings, build, lastId>>
  BY <1>8 DEF EditFurther, indexVars
<1>9. ASSUME NEW w \in Workers, Builder(w)
      PROVE  /\ index' \in [Sides -> Indexes] /\ lastId' = lastId
             /\ mappings' \in SUBSET Rows /\ build' \in [Workers -> Builds]
  BY <1>9, BuilderTypes, BuilderKeeps
<1>10. /\ lastId' \in Nat /\ index' \in [Sides -> Indexes]
       /\ mappings' \in SUBSET Rows /\ build' \in [Workers -> Builds]
  BY <1>3, <1>4, <1>5, <1>6, <1>7, <1>8, <1>9 DEF Writers
<1> QED
  BY <1>1, <1>2, <1>10 DEF TypeInv

(* The requests as the assumptions describe them. *)
LEMMA RequestKinds ==
    ASSUME NEW req \in Requests
    PROVE  \/ req.endpoint = "verses" /\ req.refs \in Seq(Members)
           \/ /\ req.endpoint = "range" /\ req.from \in Bounds /\ req.to \in Bounds
              /\ {req.limit, req.offset} \subseteq Int \cup {None}
  BY RequestsAssumption

(* The steps of a request once it is received. *)
LEMMA StepOfCall ==
    ASSUME TypeInv,
           \/ RefuseBatch \/ Prepare \/ Expand \/ FindSource \/ FindTarget
           \/ LoadPayloads \/ ResolveEntry \/ RespondBatch
    PROVE  call # NoCall /\ call \in Calls
<1>1. call.pc # "idle"
  BY DEF RefuseBatch, Prepare, Expand, FindSource, FindTarget, LoadPayloads,
         ResolveEntry, RespondBatch, At
<1> QED
  BY <1>1, CallKinds

(* What Prepare, Expand, FindSource, ... make of the call, field by field. *)
LEMMA PrepareGives ==
    ASSUME TypeInv, Prepare
    PROVE  /\ call.pc = "prepare" /\ response' = response /\ ~ Refused(call.req)
           /\ call'.pc = IF call.req.endpoint = "verses" THEN "find" ELSE "expand"
           /\ call.req.endpoint = "verses" =>
                call'.refs = call.req.refs /\ call'.total = Len(call.req.refs)
           /\ call.req.endpoint # "verses" =>
                call'.refs = call.refs /\ call'.total = call.total
           /\ call'.req = call.req /\ call'.since = call.since /\ call'.first = catalog
           /\ call'.pair = call.pair /\ call'.floor = call.floor
           /\ call'.payloads = call.payloads /\ call'.entries = call.entries
           /\ call' # NoCall /\ call' \in Calls
<1>1. call \in Calls /\ catalog \in Nat
  BY StepOfCall, CatalogIsNat
<1>2. /\ call.pc = "prepare" /\ response' = response /\ ~ Refused(call.req)
      /\ IF call.req.endpoint = "verses"
         THEN call' = [call EXCEPT !.pc = "find", !.first = catalog,
                          !.refs = call.req.refs, !.total = Len(call.req.refs)]
         ELSE call' = [call EXCEPT !.pc = "expand", !.first = catalog]
  BY DEF Prepare, Step, At
<1>3. call.req \in Requests
  BY <1>1 DEF Calls
<1>4. CASE call.req.endpoint = "verses"
  <2>1. call.req.refs \in Seq(Members) /\ Len(call.req.refs) \in Nat
    BY <1>3, <1>4, RequestKinds
  <2>2. call' \in Calls
    BY <1>1, <1>2, <1>4, <2>1 DEF Calls, Steps
  <2>3. call'.pc = "find" /\ NoCall.pc = "idle"
    BY <1>1, <1>2, <1>4 DEF Calls, NoCall
  <2> QED
    BY <1>1, <1>2, <1>4, <2>2, <2>3 DEF Calls
<1>5. CASE call.req.endpoint # "verses"
  <2>2. call' \in Calls
    BY <1>1, <1>2, <1>5 DEF Calls, Steps
  <2>3. call'.pc = "expand" /\ NoCall.pc = "idle"
    BY <1>1, <1>2, <1>5 DEF Calls, NoCall
  <2> QED
    BY <1>1, <1>2, <1>5, <2>2, <2>3 DEF Calls
<1> QED
  BY <1>4, <1>5

LEMMA ExpandGives ==
    ASSUME TypeInv, ExpandInv, Expand
    PROVE  LET req == call.req
               all == stored_verse_refs(Texts[catalog], range_window(req.from, req.to))
               slice == Slice(all, clamp_page(req.limit, req.offset))
           IN  /\ call.pc = "expand" /\ req \in Requests /\ req.endpoint = "range"
               /\ ~ Refused(req)
               /\ \/ ReversedWindow(req.from, req.to) /\ Reply([status |-> "422"])
                  \/ /\ ~ ReversedWindow(req.from, req.to) /\ response' = response
                     /\ call'.pc = "find" /\ call'.req = req
                     /\ call'.since = call.since /\ call'.first = call.first
                     /\ call'.refs = slice /\ call'.total = Len(all)
                     /\ call'.pair = call.pair /\ call'.floor = call.floor
                     /\ call'.payloads = call.payloads /\ call'.entries = call.entries
                     /\ call' # NoCall /\ call' \in Calls
<1> DEFINE req == call.req
           all == stored_verse_refs(Texts[catalog], range_window(req.from, req.to))
           slice == Slice(all, clamp_page(req.limit, req.offset))
<1>1. call \in Calls /\ call.pc = "expand" /\ catalog \in Versions
  BY StepOfCall DEF Expand, At, TypeInv
<1>2. req \in Requests /\ req.endpoint = "range" /\ ~ Refused(req)
  BY <1>1 DEF Calls, ExpandInv
<1>3. /\ req.from \in Bounds /\ req.to \in Bounds
      /\ {req.limit, req.offset} \subseteq Int \cup {None}
  BY <1>2, RequestKinds
<1>4. LimitOf(req.limit) \in 1 .. MAX_LIMIT
  BY <1>2 DEF Refused
<1>5. slice \in Seq(Members) /\ Len(all) \in Nat
  BY <1>1, <1>3, <1>4, WindowIsPaged
<1>6. CASE ReversedWindow(req.from, req.to)
  BY <1>1, <1>2, <1>6 DEF Expand
<1>7. CASE ~ ReversedWindow(req.from, req.to)
  <2>1. /\ call' = [call EXCEPT !.pc = "find", !.total = Len(all), !.refs = slice]
        /\ response' = response
    BY <1>7 DEF Expand, Step
  <2> HIDE DEF all, slice
  <2>2. call' \in Calls /\ call'.pc = "find" /\ NoCall.pc = "idle"
    BY <1>1, <1>5, <2>1 DEF Calls, Steps, NoCall
  <2>3. /\ call'.req = req /\ call'.since = call.since /\ call'.first = call.first
        /\ call'.refs = slice /\ call'.total = Len(all)
        /\ call'.pair = call.pair /\ call'.floor = call.floor
        /\ call'.payloads = call.payloads /\ call'.entries = call.entries
    BY <1>1, <2>1 DEF Calls
  <2>4. call' # NoCall
    BY <2>2
  <2> HIDE DEF req
  <2> QED
    BY <1>1, <1>2, <1>7, <2>1, <2>2, <2>3, <2>4 DEF all, slice, req
<1> QED
  BY <1>6, <1>7

(* FindSource, FindTarget, LoadPayloads and ResolveEntry leave these alone. *)
SameQuestion ==
    /\ call'.req = call.req /\ call'.since = call.since /\ call'.first = call.first
    /\ call'.refs = call.refs /\ call'.total = call.total
    /\ call' # NoCall /\ call' \in Calls /\ response' = response

LEMMA FindSourceGives ==
    ASSUME TypeInv, FindSource
    PROVE  /\ call.pc = "find" /\ call'.pc = "find target" /\ SameQuestion
           /\ call'.payloads = call.payloads /\ call'.entries = call.entries
           /\ Ready("from") => /\ call'.pair.src = index["from"].id
                               /\ call'.floor = index["from"].floor
           /\ ~ Ready("from") => call'.pair = call.pair /\ call'.floor = call.floor
<1>1. /\ call \in Calls /\ call.pc = "find" /\ index["from"] \in Indexes
      /\ response' = response
  BY StepOfCall DEF FindSource, At, Step, TypeInv, Sides
<1>2. index["from"].id \in Nat /\ index["from"].floor \in Nat /\ call.pair \in Pairs
  BY <1>1 DEF Indexes, Calls
<1>3. CASE Ready("from")
  <2>1. call' = [call EXCEPT !.pc = "find target", !.pair.src = index["from"].id,
                             !.floor = index["from"].floor]
    BY <1>3 DEF FindSource, Step
  <2>2. call' = [call EXCEPT !.pc = "find target", !.floor = index["from"].floor,
                             !.pair = [call.pair EXCEPT !.src = index["from"].id]]
    BY <1>1, <2>1 DEF Calls
  <2>3. [call.pair EXCEPT !.src = index["from"].id] \in Pairs
    BY <1>2 DEF Pairs
  <2>4. call' \in Calls /\ call'.pc = "find target" /\ NoCall.pc = "idle"
    BY <1>1, <1>2, <2>2, <2>3 DEF Calls, Steps, NoCall
  <2>5. call'.pair.src = index["from"].id /\ call'.floor = index["from"].floor
    BY <1>1, <1>2, <2>2 DEF Calls, Pairs
  <2> QED
    BY <1>1, <1>3, <2>2, <2>4, <2>5 DEF Calls, SameQuestion
<1>4. CASE ~ Ready("from")
  <2>1. call' = [call EXCEPT !.pc = "find target"]
    BY <1>4 DEF FindSource, Step
  <2>2. call' \in Calls /\ call'.pc = "find target" /\ NoCall.pc = "idle"
    BY <1>1, <2>1 DEF Calls, Steps, NoCall
  <2> QED
    BY <1>1, <1>4, <2>1, <2>2 DEF Calls, SameQuestion
<1> QED
  BY <1>3, <1>4

LEMMA FindTargetGives ==
    ASSUME TypeInv, FindTarget
    PROVE  /\ call.pc = "find target" /\ SameQuestion
           /\ call'.payloads = call.payloads /\ call'.entries = call.entries
           /\ \/ /\ call'.pc = "load" /\ Ready("to") /\ call.pair.src # 0
                 /\ call'.pair.src = call.pair.src /\ call'.pair.tgt = index["to"].id
                 /\ call.floor <= call'.floor /\ index["to"].floor <= call'.floor
                 /\ call'.floor \in {call.floor, index["to"].floor}
              \/ call'.pc = "resolve" /\ call'.pair = NoPair /\ call'.floor = call.floor
<1>1. /\ call \in Calls /\ call.pc = "find target" /\ index["to"] \in Indexes
      /\ response' = response
  BY StepOfCall DEF FindTarget, At, Step, TypeInv, Sides
<1>2. /\ index["to"].id \in Nat /\ index["to"].floor \in Nat /\ call.pair \in Pairs
      /\ call.floor \in Nat
  BY <1>1 DEF Indexes, Calls
<1> DEFINE floor == Max({call.floor, index["to"].floor})
<1>3. /\ floor \in Nat /\ call.floor <= floor /\ index["to"].floor <= floor
      /\ floor \in {call.floor, index["to"].floor}
  BY <1>2, MaxIs
<1>4. CASE call.pair.src # 0 /\ Ready("to")
  <2>1. call' = [call EXCEPT !.pc = "load", !.pair.tgt = index["to"].id,
                             !.floor = floor]
    BY <1>1, <1>4 DEF FindTarget, Step, Calls
  <2> HIDE DEF floor
  <2>2. call' = [call EXCEPT !.pc = "load", !.floor = floor,
                             !.pair = [call.pair EXCEPT !.tgt = index["to"].id]]
    BY <1>1, <2>1 DEF Calls
  <2>3. [call.pair EXCEPT !.tgt = index["to"].id] \in Pairs
    BY <1>2 DEF Pairs
  <2>4. call' \in Calls /\ call'.pc = "load" /\ NoCall.pc = "idle"
    BY <1>1, <1>2, <1>3, <2>2, <2>3 DEF Calls, Steps, NoCall
  <2>5. /\ call'.pair.src = call.pair.src /\ call'.pair.tgt = index["to"].id
        /\ call'.floor = floor
    BY <1>1, <1>2, <2>2 DEF Calls, Pairs
  <2> QED
    BY <1>1, <1>3, <1>4, <2>2, <2>4, <2>5 DEF Calls, SameQuestion
<1>5. CASE ~ (call.pair.src # 0 /\ Ready("to"))
  <2>1. call' = [call EXCEPT !.pc = "resolve", !.pair = NoPair]
    BY <1>5 DEF FindTarget, Step
  <2>2. NoPair \in Pairs
    BY DEF NoPair, Pairs
  <2>3. call' \in Calls /\ call'.pc = "resolve" /\ NoCall.pc = "idle"
    BY <1>1, <2>1, <2>2 DEF Calls, Steps, NoCall
  <2> QED
    BY <1>1, <1>5, <2>1, <2>3 DEF Calls, SameQuestion
<1> QED
  BY <1>4, <1>5

LEMMA LoadPayloadsGives ==
    ASSUME TypeInv, LoadPayloads
    PROVE  /\ call.pc = "load" /\ call'.pc = "resolve" /\ SameQuestion
           /\ call'.pair = call.pair /\ call'.floor = call.floor
           /\ call'.entries = call.entries
           /\ call'.payloads \subseteq
                {m \in mappings : m.src = call.pair.src /\ m.tgt = call.pair.tgt}
<1> DEFINE loaded == load_payloads(call.pair, call.refs)
           rows == {m \in mappings : m.src = call.pair.src /\ m.tgt = call.pair.tgt}
<1>1. call \in Calls /\ call.pc = "load" /\ mappings \in SUBSET Rows
  BY StepOfCall DEF LoadPayloads, At, TypeInv
<1>2. loaded \subseteq rows /\ loaded \in SUBSET Rows
  BY <1>1 DEF load_payloads
<1>3. call' = [call EXCEPT !.pc = "resolve", !.payloads = loaded] /\ response' = response
  BY DEF LoadPayloads, Step
<1> HIDE DEF loaded, rows
<1>4. call' \in Calls /\ call'.pc = "resolve" /\ NoCall.pc = "idle"
  BY <1>1, <1>2, <1>3 DEF Calls, Steps, NoCall
<1>5. call'.payloads = loaded
  BY <1>1, <1>3 DEF Calls
<1>6. SameQuestion /\ call'.pair = call.pair /\ call'.floor = call.floor
      /\ call'.entries = call.entries
  BY <1>1, <1>3, <1>4 DEF Calls, SameQuestion
<1> QED
  BY <1>1, <1>2, <1>4, <1>5, <1>6 DEF rows

(* The entry of a member, from a loaded row or resolved now. *)
LEMMA ResolvedIs ==
    ASSUME TypeInv, call \in Calls, NEW ref \in Members
    PROVE  \/ Resolved(ref) = Live(ref)
           \/ \E m \in call.payloads :
                /\ m.ref = Verse(ref.at) /\ ref.kind \in {"verse", "padded"}
                /\ Resolved(ref) = Answer(m.ref, m.first, m.last)
<1> DEFINE cached == {m \in call.payloads : m.ref = index_key(ref)}
<1>1. CASE cached = {}
  <2> HIDE DEF cached
  <2> QED BY <1>1 DEF Resolved, cached
<1>2. CASE cached # {}
  <2> DEFINE m == CHOOSE m \in cached : TRUE
  <2>1. m \in cached
    BY <1>2
  <2>2. Resolved(ref) = Answer(m.ref, m.first, m.last)
    BY <1>2 DEF Resolved
  <2>3. m \in call.payloads /\ m.ref = index_key(ref)
    BY <2>1
  <2> HIDE DEF m, cached
  <2>4. m.ref \in Stored
    BY <2>3 DEF Calls, Rows
  <2>5. m.ref # NoKey
    <3>1. PICK x : m.ref = Verse(x)
      BY <2>4 DEF Stored
    <3> QED BY <3>1 DEF Verse, NoKey
  <2>6. ref.kind \in {"verse", "padded"} /\ m.ref = Verse(ref.at)
    BY <2>3, <2>5 DEF index_key
  <2> QED
    BY <2>2, <2>3, <2>6
<1> QED
  BY <1>1, <1>2

LEMMA EntryType ==
    ASSUME TypeInv, call \in Calls, NEW ref \in Members
    PROVE  Resolved(ref) \in Entries
<1>1. catalog \in Nat /\ call.first \in Nat /\ call.payloads \in SUBSET Rows
  BY CatalogIsNat DEF Calls
<1>2. Live(ref) \in Entries
  BY <1>1 DEF Live, Answer, Error, Entries
<1>3. ASSUME NEW m \in call.payloads PROVE Answer(m.ref, m.first, m.last) \in Entries
  <2>1. m.first \in Nat /\ m.last \in Nat /\ m.ref \in Members
    BY <1>1 DEF Rows, Stored, Members
  <2> QED
    BY <2>1 DEF Answer, Entries
<1> QED
  BY <1>2, <1>3, ResolvedIs

LEMMA ResolveEntryGives ==
    ASSUME TypeInv, ResolveEntry
    PROVE  LET k == Len(call.entries) + 1
           IN  /\ call.pc = "resolve" /\ call'.pc = "resolve" /\ SameQuestion
               /\ call'.pair = call.pair /\ call'.floor = call.floor
               /\ call'.payloads = call.payloads
               /\ k \in 1 .. Len(call.refs) /\ call.refs[k] \in Members
               /\ call'.entries = Append(call.entries, Resolved(call.refs[k]))
               /\ Len(call'.entries) = k
               /\ call'.entries[k] = Resolved(call.refs[k])
               /\ \A i \in 1 .. (k - 1) : call'.entries[i] = call.entries[i]
<1> DEFINE k == Len(call.entries) + 1
           e == Resolved(call.refs[k])
<1>1. call \in Calls /\ call.pc = "resolve" /\ response' = response
  BY StepOfCall DEF ResolveEntry, At, Step
<1>2. /\ call.refs \in Seq(Members) /\ call.entries \in Seq(Entries)
      /\ k \in 1 .. Len(call.refs) /\ Len(call.entries) \in Nat
  BY <1>1 DEF Calls, ResolveEntry, Unanswered
<1>3. call.refs[k] \in Members
  BY <1>2
<1>4. e \in Entries
  BY <1>1, <1>3, EntryType
<1>5. call' = [call EXCEPT !.entries = Append(call.entries, e)]
  BY <1>1 DEF ResolveEntry, Step, Calls
<1> HIDE DEF e
<1>6. Append(call.entries, e) \in Seq(Entries)
  BY <1>2, <1>4
<1>7. call' \in Calls /\ NoCall.pc = "idle" /\ call'.pc = "resolve"
      /\ call'.entries = Append(call.entries, e)
  BY <1>1, <1>5, <1>6 DEF Calls, NoCall
<1>8. SameQuestion /\ call'.pair = call.pair /\ call'.floor = call.floor
      /\ call'.payloads = call.payloads
  BY <1>1, <1>5, <1>7 DEF Calls, SameQuestion
<1>9. /\ Len(call'.entries) = k /\ call'.entries[k] = e
      /\ \A i \in 1 .. (k - 1) : call'.entries[i] = call.entries[i]
  BY <1>2, <1>4, <1>7
<1> HIDE DEF k
<1> QED
  BY <1>1, <1>2, <1>3, <1>7, <1>8, <1>9 DEF e, k

LEMMA ReceiveGives ==
    ASSUME TypeInv, NEW req \in Requests, Receive(req)
    PROVE  /\ call = NoCall /\ call' # NoCall /\ call' \in Calls
           /\ call'.pc = "prepare" /\ call'.req = req /\ call'.since = catalog
           /\ call'.first = catalog /\ call'.pair = NoPair /\ call'.floor = 0
           /\ call'.refs = <<>> /\ call'.payloads = {} /\ call'.entries = <<>>
           /\ response' = NoResponse
<1>1. NoPair \in Pairs /\ <<>> \in Seq(Members) /\ <<>> \in Seq(Entries)
  BY DEF NoPair, Pairs
<1>2. call' = NewCall(req) /\ call = NoCall /\ response' = NoResponse
  BY DEF Receive
<1>3. NewCall(req) \in Calls
  BY <1>1, CatalogIsNat DEF NewCall, Calls, Steps
<1>4. call'.pc = "prepare" /\ NoCall.pc = "idle"
  BY <1>2 DEF NewCall, NoCall
<1> QED
  BY <1>2, <1>3, <1>4 DEF NewCall

LEMMA RepliesEnd ==
    ASSUME RefuseBatch \/ RespondBatch
    PROVE  call' = NoCall
  BY DEF RefuseBatch, RespondBatch, Reply

LEMMA ReaderTypes ==
    ASSUME TypeInv, ExpandInv, Reader
    PROVE  TypeInv'
<1>1. UNCHANGED <<catalog, index, mappings, build, lastId>>
  BY ReaderKeeps
<1> SUFFICES call' \in {NoCall} \cup Calls
  BY <1>1 DEF TypeInv
<1>2. CASE Expand
  BY <1>2, ExpandGives DEF Reply
<1>3. CASE FindSource \/ FindTarget \/ LoadPayloads \/ ResolveEntry
  BY <1>3, FindSourceGives, FindTargetGives, LoadPayloadsGives, ResolveEntryGives
     DEF SameQuestion
<1> QED
  BY <1>2, <1>3, ReceiveGives, RepliesEnd, PrepareGives DEF Reader

LEMMA ExpandStart == Init => ExpandInv
  BY DEF Init, NoCall, ExpandInv

LEMMA ExpandStep ==
    ASSUME TypeInv, ExpandInv, [Next]_vars
    PROVE  ExpandInv'
<1>1. CASE UNCHANGED call
  BY <1>1 DEF ExpandInv, Refused, LimitOf
<1>2. ASSUME call'.pc # "expand" PROVE ExpandInv'
  BY <1>2 DEF ExpandInv
<1>3. CASE Prepare
  <2>1. call.req \in Requests /\ ~ Refused(call.req) /\ call'.req = call.req
    BY <1>3, PrepareGives, StepOfCall DEF Calls
  <2>2. call'.pc = "expand" => call.req.endpoint = "range"
    BY <1>3, <2>1, PrepareGives, RequestKinds
  <2> QED
    BY <2>1, <2>2 DEF ExpandInv, Refused, LimitOf
<1>4. CASE Expand
  BY <1>2, <1>4, ExpandGives DEF Reply, NoCall
<1>5. CASE FindSource \/ FindTarget \/ LoadPayloads \/ ResolveEntry
  BY <1>2, <1>5, FindSourceGives, FindTargetGives, LoadPayloadsGives, ResolveEntryGives
<1>6. CASE RefuseBatch \/ RespondBatch
  BY <1>2, <1>6, RepliesEnd DEF NoCall
<1>7. ASSUME NEW req \in Requests, Receive(req) PROVE ExpandInv'
  BY <1>2, <1>7, ReceiveGives
<1>8. CASE Writers \/ UNCHANGED vars
  BY <1>1, <1>8, WriterKeeps DEF vars, readerVars
<1> QED
  BY <1>3, <1>4, <1>5, <1>6, <1>7, <1>8 DEF Next, Reader

LEMMA TypeStep ==
    ASSUME TypeInv, ExpandInv, [Next]_vars
    PROVE  TypeInv'
<1>1. ASSUME UNCHANGED vars PROVE TypeInv'
  BY <1>1 DEF vars, indexVars, readerVars, TypeInv
<1> QED
  BY <1>1, WriterTypes, ReaderTypes DEF Next

-----------------------------------------------------------------------------
(* ----------------------------- dates and floors -------------------------- *)
(* Nothing is dated later than now, and no build's floor later than itself.  *)
TimeInv ==
    /\ \A m \in mappings : m.first <= m.last /\ m.last <= catalog
    /\ \A s \in Sides : index[s].floor <= catalog
    /\ \A w \in Workers :
            /\ build[w].since <= build[w].first /\ build[w].first <= catalog
            /\ build[w].last <= catalog
            /\ build[w].step = "rows" => build[w].first <= build[w].last

(* The rows of an index, when a build of it has cleared them or it is ready, *)
(* are no older than its floor: what is written meanwhile comes from builds  *)
(* that began at that floor or later.                                        *)
Cleared == {"pair", "rows", "publish"}

Since(rows, id, floor) == \A m \in rows : id \in {m.src, m.tgt} => floor <= m.first

FloorInv ==
    /\ \A v \in Running, w \in Running : build[w].since <= build[v].first
    /\ \A v \in Running, s \in Sides : index[s].floor <= build[v].first
    /\ \A w \in Running : index[build[w].side].id = build[w].id
            => index[build[w].side].floor <= build[w].since
    /\ \A w \in Running : build[w].step \in Cleared
            => Since(mappings, build[w].id, build[w].since)
    /\ \A s \in Sides : index[s].status = "ready"
            => Since(mappings, index[s].id, index[s].floor)

LEMMA FloorStart == Init => TimeInv /\ FloorInv
<1> SUFFICES ASSUME Init PROVE TimeInv /\ FloorInv
  OBVIOUS
<1>1. /\ Running = {} /\ mappings = {} /\ catalog = 0
      /\ \A s \in Sides : index[s].floor = 0 /\ index[s].status = "pending"
      /\ \A w \in Workers : build[w] = NoBuild
  BY DEF Init, NoBuild, Running, Sides
<1>2. TimeInv
  BY <1>1 DEF TimeInv, NoBuild
<1> QED
  BY <1>1, <1>2 DEF FloorInv

LEMMA Numbers ==
    ASSUME TypeInv
    PROVE  /\ catalog \in Nat
           /\ \A s \in Sides : index[s].floor \in Nat /\ index[s].id \in Nat
           /\ \A m \in mappings : m.first \in Nat /\ m.last \in Nat
           /\ \A w \in Workers : /\ build[w].since \in Nat /\ build[w].first \in Nat
                                 /\ build[w].last \in Nat /\ build[w].side \in Sides
  BY CatalogIsNat DEF TypeInv, Indexes, Rows, Builds

(* A step of anyone but a build: rows may go, floors stay or return to 0, no *)
(* index becomes ready, and one with another id has floor 0.                 *)
LEMMA FloorByOthers ==
    ASSUME TypeInv, TimeInv, FloorInv, catalog' \in Nat, catalog <= catalog',
           build' = build, mappings' \subseteq mappings,
           \A s \in Sides :
                \/ /\ index'[s].id = index[s].id /\ index'[s].floor = index[s].floor
                   /\ index'[s].status = "ready" => index[s].status = "ready"
                \/ index'[s].floor = 0 /\ index'[s].status # "ready"
    PROVE  TimeInv' /\ FloorInv'
<1>1. Running' = Running /\ Running \subseteq Workers
  BY DEF Running
<1>2. TimeInv'
  <2>1. \A m \in mappings' : m.first <= m.last /\ m.last <= catalog'
    BY Numbers DEF TimeInv
  <2>2. \A s \in Sides : index'[s].floor <= catalog'
    BY Numbers DEF TimeInv
  <2>3. \A w \in Workers : build[w].first <= catalog' /\ build[w].last <= catalog'
    BY Numbers DEF TimeInv
  <2> QED
    BY <2>1, <2>2, <2>3 DEF TimeInv
<1>3. \A v \in Running, s \in Sides : index'[s].floor <= build[v].first
  BY <1>1, Numbers DEF FloorInv
<1>4. \A w \in Running : index'[build[w].side].id = build[w].id
            => index'[build[w].side].floor <= build[w].since
  BY <1>1, Numbers DEF FloorInv
<1>5. \A s \in Sides : index'[s].status = "ready"
            => Since(mappings', index'[s].id, index'[s].floor)
  <2> SUFFICES ASSUME NEW s \in Sides, index'[s].status = "ready"
               PROVE  Since(mappings', index'[s].id, index'[s].floor)
    OBVIOUS
  <2>1. Since(mappings, index[s].id, index[s].floor)
    BY DEF FloorInv
  <2>2. index'[s].id = index[s].id /\ index'[s].floor = index[s].floor
    OBVIOUS
  <2> QED
    BY <2>1, <2>2 DEF Since
<1>6. \A w \in Running : build[w].step \in Cleared
            => Since(mappings', build[w].id, build[w].since)
  BY DEF FloorInv, Since
<1> QED
  BY <1>1, <1>2, <1>3, <1>4, <1>5, <1>6 DEF FloorInv

LEMMA FloorByClaim ==
    ASSUME TypeInv, TimeInv, FloorInv, NEW w \in Workers, NEW s \in Sides, Claim(w, s)
    PROVE  TimeInv' /\ FloorInv'
<1> DEFINE since == Min(BuildsSince)
           new == [NoBuild EXCEPT !.step = "open", !.side = s, !.id = index[s].id,
                        !.first = catalog, !.since = since]
<1>1. /\ since \in Nat /\ since <= catalog
      /\ \A v \in Running : since <= build[v].since
  BY SinceIs
<1>2. /\ w \notin Running /\ index[s].status = "pending"
      /\ build' = [build EXCEPT ![w] = new]
      /\ index' = [index EXCEPT ![s].status = "building", ![s].floor = since]
      /\ catalog' = catalog /\ mappings' = mappings
  BY DEF Claim
<1> HIDE DEF since
<1>3. /\ new.step = "open" /\ new.side = s /\ new.id = index[s].id
      /\ new.first = catalog /\ new.since = since /\ new.last = 0
  BY DEF NoBuild
<1> HIDE DEF new
<1>4. /\ build'[w] = new /\ \A v \in Workers \ {w} : build'[v] = build[v]
      /\ index'[s].id = index[s].id /\ index'[s].floor = since
      /\ index'[s].status = "building"
      /\ \A t \in Sides \ {s} : index'[t] = index[t]
  BY <1>2 DEF TypeInv, Indexes
<1>5. Running' = Running \cup {w}
  BY <1>3, <1>4 DEF Running
<1>7. \A t \in Sides : index'[t].id = index[t].id
  BY <1>4
<1>8. TimeInv'
  <2>1. \A t \in Sides : index'[t].floor <= catalog
    BY <1>1, <1>4 DEF TimeInv
  <2>2. /\ new.since <= new.first /\ new.first <= catalog /\ new.last <= catalog
        /\ new.step # "rows"
    BY <1>1, <1>3, Numbers
  <2>3. \A v \in Workers :
            /\ build'[v].since <= build'[v].first /\ build'[v].first <= catalog
            /\ build'[v].last <= catalog
            /\ build'[v].step = "rows" => build'[v].first <= build'[v].last
    BY <1>4, <2>2 DEF TimeInv
  <2> QED
    BY <1>2, <2>1, <2>3 DEF TimeInv
<1>9. ASSUME NEW v \in Running PROVE /\ v \in Workers /\ v # w /\ build'[v] = build[v]
                                     /\ since <= build[v].first
                                     /\ build[v].since <= catalog
  <2>1. v \in Workers /\ v # w /\ build'[v] = build[v]
    BY <1>2, <1>4 DEF Running
  <2> QED
    BY <1>1, <2>1, Numbers DEF TimeInv
<1>10. \A v \in Running', u \in Running' : build'[u].since <= build'[v].first
  <2>1. \A v \in Running : new.since <= build'[v].first /\ build'[v].since <= new.first
    BY <1>3, <1>9
  <2>2. new.since <= new.first
    BY <1>1, <1>3
  <2>3. \A v \in Running, u \in Running : build'[u].since <= build'[v].first
    BY <1>9 DEF FloorInv
  <2> QED
    BY <1>4, <1>5, <2>1, <2>2, <2>3
<1>11. \A v \in Running', t \in Sides : index'[t].floor <= build'[v].first
  <2>1. \A t \in Sides : index'[t].floor <= new.first
    BY <1>1, <1>3, <1>4 DEF TimeInv
  <2>2. \A v \in Running, t \in Sides : index'[t].floor <= build'[v].first
    BY <1>4, <1>9 DEF FloorInv
  <2> QED
    BY <1>4, <1>5, <2>1, <2>2
<1>12. \A v \in Running' : index'[build'[v].side].id = build'[v].id
            => index'[build'[v].side].floor <= build'[v].since
  <2>1. index'[new.side].floor <= new.since
    BY <1>1, <1>3, <1>4
  <2>2. ASSUME NEW v \in Running, index'[build'[v].side].id = build'[v].id
        PROVE  index'[build'[v].side].floor <= build'[v].since
    <3>1. build[v].side \in Sides /\ build'[v] = build[v]
      BY <1>9, <2>2, Numbers
    <3>2. CASE build[v].side = s
      BY <1>1, <1>4, <3>1, <3>2
    <3>3. CASE build[v].side # s
      BY <1>4, <2>2, <3>1, <3>3 DEF FloorInv
    <3> QED BY <3>2, <3>3
  <2> QED
    BY <1>4, <1>5, <2>1, <2>2
<1>13. \A v \in Running' : build'[v].step \in Cleared
            => Since(mappings, build'[v].id, build'[v].since)
  <2>1. new.step \notin Cleared
    BY <1>3 DEF Cleared
  <2>2. \A v \in Running : build'[v].step \in Cleared
            => Since(mappings, build'[v].id, build'[v].since)
    BY <1>9 DEF FloorInv
  <2> QED
    BY <1>4, <1>5, <2>1, <2>2
<1>14. \A t \in Sides : index'[t].status = "ready"
            => Since(mappings, index'[t].id, index'[t].floor)
  BY <1>4 DEF FloorInv
<1> QED
  BY <1>2, <1>8, <1>10, <1>11, <1>12, <1>13, <1>14 DEF FloorInv

(* A step of a build that keeps its index, its dates and the rows, or ends it: *)
(* its rows are clear if they were, or if there are none.                     *)
LEMMA FloorByBuild ==
    ASSUME TypeInv, TimeInv, FloorInv, NEW w \in Running,
           UNCHANGED <<catalog, index, mappings>>,
           \A v \in Workers \ {w} : build'[v] = build[v],
           \/ build'[w] = NoBuild
           \/ /\ build'[w].side = build[w].side /\ build'[w].id = build[w].id
              /\ build'[w].first = build[w].first /\ build'[w].since = build[w].since
              /\ build'[w].last \in {build[w].last, catalog}
              /\ build'[w].step = "rows" => build'[w].last = catalog
              /\ build'[w].step \in Cleared =>
                    build[w].step \in Cleared \/ Of(build[w].id) = {}
    PROVE  TimeInv' /\ FloorInv'
<1>1. Running' \subseteq Running /\ w \in Workers
  BY DEF Running
<1>3. CASE build'[w] = NoBuild
  <2>1. w \notin Running'
    BY <1>3 DEF Running, NoBuild
  <2>2. \A v \in Running' : v \in Running /\ v \in Workers /\ build'[v] = build[v]
    BY <1>1, <2>1 DEF Running
  <2>3. TimeInv'
    BY <1>3, Numbers DEF TimeInv, NoBuild
  <2> QED
    BY <2>2, <2>3 DEF FloorInv
<1>4. CASE /\ build'[w].side = build[w].side /\ build'[w].id = build[w].id
           /\ build'[w].first = build[w].first /\ build'[w].since = build[w].since
           /\ build'[w].last \in {build[w].last, catalog}
           /\ build'[w].step = "rows" => build'[w].last = catalog
           /\ build'[w].step \in Cleared =>
                    build[w].step \in Cleared \/ Of(build[w].id) = {}
  <2>1. \A v \in Workers : /\ build'[v].side = build[v].side
                           /\ build'[v].id = build[v].id
                           /\ build'[v].first = build[v].first
                           /\ build'[v].since = build[v].since
    BY <1>4
  <2>2. TimeInv'
    BY <1>4, Numbers DEF TimeInv
  <2>5. \A v \in Running' : build'[v].step \in Cleared
            => Since(mappings, build[v].id, build[v].since)
    <3>1. build'[w].step \in Cleared => Since(mappings, build[w].id, build[w].since)
      BY <1>4 DEF FloorInv, Since, Of
    <3>2. \A v \in Running' : v # w => build'[v] = build[v] /\ v \in Running
      BY <1>1 DEF Running
    <3> QED
      BY <3>1, <3>2 DEF FloorInv
  <2>6. \A v \in Running' : v \in Running /\ v \in Workers
    BY <1>1 DEF Running
  <2>7. \A v \in Running', u \in Running' : build'[u].since <= build'[v].first
    BY <2>1, <2>6 DEF FloorInv
  <2>8. \A v \in Running', s \in Sides : index'[s].floor <= build'[v].first
    BY <2>1, <2>6 DEF FloorInv
  <2>9. \A v \in Running' : index'[build'[v].side].id = build'[v].id
            => index'[build'[v].side].floor <= build'[v].since
    BY <2>1, <2>6 DEF FloorInv
  <2>10. \A v \in Running' : build'[v].step \in Cleared
            => Since(mappings, build'[v].id, build'[v].since)
    BY <2>1, <2>5, <2>6
  <2> QED
    BY <2>2, <2>7, <2>8, <2>9, <2>10 DEF FloorInv
<1> QED
  BY <1>3, <1>4

(* A row is dated from the start of its build, which no floor is later than. *)
LEMMA FloorByRow ==
    ASSUME TypeInv, TimeInv, FloorInv, NEW w \in Workers,
           NEW ref \in build[w].todo, BuildRow(w, ref)
    PROVE  TimeInv' /\ FloorInv'
<1> DEFINE p == PairOf(build[w])
           row == [src |-> p.src, tgt |-> p.tgt, ref |-> ref,
                   first |-> build[w].first, last |-> build[w].last]
<1>1. /\ UNCHANGED <<catalog, index>> /\ build[w].step = "rows"
      /\ build' = [build EXCEPT ![w] = [build[w] EXCEPT !.todo = @ \ {ref}]]
      /\ mappings' \subseteq mappings \cup {row}
  BY DEF BuildRow, BuildStep
<1>2. row.first = build[w].first /\ row.last = build[w].last
  OBVIOUS
<1> HIDE DEF p, row
<1>3. w \in Running /\ Running' = Running
      /\ \A v \in Workers : /\ build'[v].side = build[v].side /\ build'[v].id = build[v].id
                            /\ build'[v].first = build[v].first
                            /\ build'[v].since = build[v].since
                            /\ build'[v].last = build[v].last
                            /\ build'[v].step = build[v].step
  BY <1>1 DEF TypeInv, Builds, Running
<1>4. TimeInv'
  <2>1. row.first <= row.last /\ row.last <= catalog
    BY <1>1, <1>2 DEF TimeInv
  <2>2. \A m \in mappings' : m.first <= m.last /\ m.last <= catalog
    BY <1>1, <2>1 DEF TimeInv
  <2> QED
    BY <1>1, <1>3, <2>2 DEF TimeInv
<1>5. \A v \in Running : build[v].since <= row.first
  BY <1>2, <1>3 DEF FloorInv
<1>6. \A s \in Sides : index[s].floor <= row.first
  BY <1>2, <1>3 DEF FloorInv
<1>7. \A v \in Running : build[v].step \in Cleared
            => Since(mappings', build[v].id, build[v].since)
  BY <1>1, <1>5 DEF FloorInv, Since
<1>8. \A s \in Sides : index[s].status = "ready"
            => Since(mappings', index[s].id, index[s].floor)
  BY <1>1, <1>6 DEF FloorInv, Since
<1>9. Running \subseteq Workers
  BY DEF Running
<1>10. \A v \in Running' : build'[v].step \in Cleared
            => Since(mappings', build'[v].id, build'[v].since)
  BY <1>3, <1>7, <1>9
<1> QED
  BY <1>1, <1>3, <1>4, <1>8, <1>9, <1>10 DEF FloorInv

(* The rows of the index have been cleared, whatever was written since. *)
LEMMA FloorByPublish ==
    ASSUME TypeInv, TimeInv, FloorInv, NEW w \in Workers, Publish(w)
    PROVE  TimeInv' /\ FloorInv'
<1> DEFINE s == build[w].side
<1>1. /\ UNCHANGED <<catalog, mappings>> /\ build[w].step = "publish"
      /\ index[s].id = build[w].id /\ s \in Sides
      /\ build' = [build EXCEPT ![w] = NoBuild]
      /\ index' = [index EXCEPT ![s].status = "ready"]
  BY Numbers DEF Publish
<1>2. w \in Running /\ build[w].step \in Cleared
  BY <1>1 DEF Running, Cleared
<1>3. /\ build'[w] = NoBuild /\ \A v \in Workers \ {w} : build'[v] = build[v]
      /\ \A t \in Sides : index'[t].id = index[t].id /\ index'[t].floor = index[t].floor
      /\ \A t \in Sides \ {s} : index'[t] = index[t]
  BY <1>1 DEF TypeInv, Indexes
<1>4. \A v \in Running' : v \in Running /\ v \in Workers /\ build'[v] = build[v]
  BY <1>3 DEF Running, NoBuild
<1>5. TimeInv'
  BY <1>1, <1>3, Numbers DEF TimeInv, NoBuild
<1>8. Since(mappings, index[s].id, index[s].floor)
  <2>1. index[s].floor <= build[w].since
    BY <1>1, <1>2 DEF FloorInv
  <2>2. Since(mappings, build[w].id, build[w].since)
    BY <1>2 DEF FloorInv
  <2>3. build[w].since \in Nat /\ index[s].floor \in Nat
    BY <1>1, Numbers
  <2> HIDE DEF s
  <2> QED
    BY <1>1, <2>1, <2>2, <2>3, Numbers DEF Since
<1>9. \A t \in Sides : index'[t].status = "ready"
            => Since(mappings, index'[t].id, index'[t].floor)
  <2> HIDE DEF s
  <2> QED
    BY <1>3, <1>8 DEF FloorInv
<1>10. \A v \in Running' : index'[build'[v].side].id = build'[v].id
            => index'[build'[v].side].floor <= build'[v].since
  <2>1. \A v \in Running' : build[v].side \in Sides
    BY <1>4, Numbers
  <2> HIDE DEF s
  <2> QED
    BY <1>3, <1>4, <2>1 DEF FloorInv
<1>11. \A v \in Running', t \in Sides : index'[t].floor <= build'[v].first
  <2> HIDE DEF s
  <2> QED BY <1>3, <1>4 DEF FloorInv
<1>12. \A v \in Running', u \in Running' : build'[u].since <= build'[v].first
  BY <1>4 DEF FloorInv
<1>13. \A v \in Running' : build'[v].step \in Cleared
            => Since(mappings, build'[v].id, build'[v].since)
  BY <1>4 DEF FloorInv
<1> QED
  BY <1>1, <1>5, <1>9, <1>10, <1>11, <1>12, <1>13 DEF FloorInv

LEMMA FloorByBuilder ==
    ASSUME TypeInv, TimeInv, FloorInv, NEW w \in Workers, Builder(w)
    PROVE  TimeInv' /\ FloorInv'
<1>1. build[w] \in Builds /\ build \in [Workers -> Builds] /\ catalog \in Nat
  BY CatalogIsNat DEF TypeInv
<1>2. CASE OpenBuild(w)
  <2> DEFINE o == IF Ready(Other(build[w].side)) THEN index[Other(build[w].side)].id ELSE 0
             to == [build[w] EXCEPT !.step = "clear", !.other = o]
  <2>1. /\ build' = [build EXCEPT ![w] = to]
        /\ UNCHANGED <<catalog, index, mappings>> /\ w \in Running
    BY <1>2 DEF OpenBuild, BuildStep, Running
  <2> HIDE DEF o
  <2>2. /\ to.side = build[w].side /\ to.id = build[w].id /\ to.first = build[w].first
        /\ to.since = build[w].since /\ to.last = build[w].last
        /\ to.step = "clear" /\ to.step \notin Cleared
    BY <1>1 DEF Builds, Cleared
  <2> HIDE DEF to
  <2>3. build'[w] = to /\ \A v \in Workers \ {w} : build'[v] = build[v]
    BY <1>1, <2>1
  <2> QED
    BY <2>1, <2>2, <2>3, FloorByBuild
<1>3. CASE OpenPair(w)
  <2> DEFINE to == [build[w] EXCEPT !.step = "pair"]
  <2>1. /\ build' = [build EXCEPT ![w] = to] /\ Of(build[w].id) = {}
        /\ UNCHANGED <<catalog, index, mappings>> /\ w \in Running
    BY <1>3 DEF OpenPair, BuildStep, Running
  <2>2. /\ to.side = build[w].side /\ to.id = build[w].id /\ to.first = build[w].first
        /\ to.since = build[w].since /\ to.last = build[w].last /\ to.step = "pair"
    BY <1>1 DEF Builds
  <2> HIDE DEF to
  <2>3. build'[w] = to /\ \A v \in Workers \ {w} : build'[v] = build[v]
    BY <1>1, <2>1
  <2> QED
    BY <2>1, <2>2, <2>3, FloorByBuild
<1>4. CASE LoadPair(w)
  <2> DEFINE todo == {Verse(x) : x \in StoredVerses(catalog)}
             to == [build[w] EXCEPT !.step = "rows", !.last = catalog, !.todo = todo]
  <2>1. /\ build' = [build EXCEPT ![w] = to] /\ build[w].step = "pair"
        /\ UNCHANGED <<catalog, index, mappings>> /\ w \in Running
    BY <1>4 DEF LoadPair, BuildStep, Running
  <2> HIDE DEF todo
  <2>2. /\ to.side = build[w].side /\ to.id = build[w].id /\ to.first = build[w].first
        /\ to.since = build[w].since /\ to.last = catalog /\ to.step = "rows"
    BY <1>1 DEF Builds
  <2> HIDE DEF to
  <2>3. build'[w] = to /\ \A v \in Workers \ {w} : build'[v] = build[v]
    BY <1>1, <2>1
  <2>4. build[w].step \in Cleared
    BY <2>1 DEF Cleared
  <2> QED
    BY <2>1, <2>2, <2>3, <2>4, FloorByBuild
<1>5. CASE CheckFinish(w)
  <2> DEFINE to == [build[w] EXCEPT !.step = "publish", !.todo = {}]
  <2>1. /\ build' = [build EXCEPT ![w] = to] /\ build[w].step \in {"pair", "rows"}
        /\ UNCHANGED <<catalog, index, mappings>> /\ w \in Running
    BY <1>5 DEF CheckFinish, BuildStep, Running
  <2>2. /\ to.side = build[w].side /\ to.id = build[w].id /\ to.first = build[w].first
        /\ to.since = build[w].since /\ to.last = build[w].last /\ to.step = "publish"
    BY <1>1 DEF Builds
  <2> HIDE DEF to
  <2>3. build'[w] = to /\ \A v \in Workers \ {w} : build'[v] = build[v]
    BY <1>1, <2>1
  <2>4. build[w].step \in Cleared
    BY <2>1 DEF Cleared
  <2> QED
    BY <2>1, <2>2, <2>3, <2>4, FloorByBuild
<1>6. CASE StopBuild(w)
  <2>1. /\ build' = [build EXCEPT ![w] = NoBuild]
        /\ UNCHANGED <<catalog, index, mappings>> /\ w \in Running
    BY <1>6 DEF StopBuild, BuildStep
  <2>2. build'[w] = NoBuild /\ \A v \in Workers \ {w} : build'[v] = build[v]
    BY <1>1, <2>1
  <2> QED
    BY <2>1, <2>2, FloorByBuild
<1>7. ASSUME NEW m \in mappings, ClearMapping(w, m) PROVE TimeInv' /\ FloorInv'
  <2>1. UNCHANGED <<catalog, index, build>> /\ mappings' \subseteq mappings
    BY <1>7 DEF ClearMapping
  <2> QED
    BY <1>1, <2>1, FloorByOthers
<1> QED
  BY <1>2, <1>3, <1>4, <1>5, <1>6, <1>7, FloorByClaim, FloorByRow, FloorByPublish
     DEF Builder

LEMMA FloorStep ==
    ASSUME TypeInv, TimeInv, FloorInv, [Next]_vars
    PROVE  TimeInv' /\ FloorInv'
<1>1. catalog \in Nat /\ catalog' \in Nat /\ catalog <= catalog'
  BY CatalogIsNat, CatalogGrows
<1>2. CASE Reader \/ UNCHANGED vars
  <2>1. UNCHANGED <<catalog, index, mappings, build>>
    BY <1>2, ReaderKeeps DEF vars, indexVars
  <2> QED
    BY <1>1, <2>1, FloorByOthers
<1>3. CASE EditFurther
  <2>1. UNCHANGED <<index, mappings, build>>
    BY <1>3 DEF EditFurther, indexVars
  <2> QED
    BY <1>1, <2>1, FloorByOthers
<1>4. ASSUME NEW s \in Sides, Edit(s) \/ Requeue(s) PROVE TimeInv' /\ FloorInv'
  <2>1. index' = Queued(s) /\ UNCHANGED <<mappings, build>>
    BY <1>4 DEF Edit, Requeue
  <2>2. \A t \in Sides : /\ index'[t].id = index[t].id
                         /\ index'[t].floor = index[t].floor
                         /\ index'[t].status = "ready" => index[t].status = "ready"
    BY <2>1, QueuedType
  <2> QED
    BY <1>1, <2>1, <2>2, FloorByOthers
<1>5. ASSUME NEW s \in Sides, CreateIndex(s) \/ DropIndex(s)
      PROVE  TimeInv' /\ FloorInv'
  <2>1. /\ UNCHANGED <<mappings, build>> /\ index \in [Sides -> Indexes]
        /\ \/ index' = [index EXCEPT ![s] = NoIndex]
           \/ index' = [index EXCEPT ![s] =
                            [id |-> lastId', status |-> "pending", floor |-> 0]]
    BY <1>5 DEF CreateIndex, DropIndex, TypeInv
  <2>2. index'[s].floor = 0 /\ index'[s].status # "ready"
    BY <2>1 DEF NoIndex
  <2>3. \A t \in Sides \ {s} : index'[t] = index[t]
    BY <2>1
  <2>4. \A t \in Sides : \/ /\ index'[t].id = index[t].id
                            /\ index'[t].floor = index[t].floor
                            /\ index'[t].status = "ready" => index[t].status = "ready"
                         \/ index'[t].floor = 0 /\ index'[t].status # "ready"
    BY <2>2, <2>3
  <2> QED
    BY <1>1, <2>1, <2>4, FloorByOthers
<1>6. ASSUME NEW m \in mappings, ReclaimRow(m) PROVE TimeInv' /\ FloorInv'
  <2>1. UNCHANGED <<catalog, index, build>> /\ mappings' \subseteq mappings
    BY <1>6 DEF ReclaimRow
  <2> QED
    BY <1>1, <2>1, FloorByOthers
<1> QED
  BY <1>2, <1>3, <1>4, <1>5, <1>6, FloorByBuilder DEF Next, Writers


-----------------------------------------------------------------------------
(* ----------------------------- what a call reads ------------------------- *)
(* From the moment a call has found an index ready, the rows it will load    *)
(* from it, and those that builds still write into it, are no older than the *)
(* floors it found.                                                          *)
ReadInv ==
    call # NoCall =>
        /\ call.since <= call.first /\ call.first <= catalog
        /\ call.pc \in {"prepare", "expand", "find"} =>
                call.pair = NoPair /\ call.floor = 0
        /\ call.pc \in {"find target", "load"} =>
                /\ call.floor <= catalog
                /\ \A v \in Running : call.floor <= build[v].first
                /\ \A m \in mappings :
                        m.src = call.pair.src /\ (call.pc = "load" => m.tgt = call.pair.tgt)
                            => call.floor <= m.first
        /\ call.pc = "load" => call.pair.src # 0
        /\ call.payloads # {} => call.pc = "resolve" /\ call.pair.src # 0
        /\ \A m \in call.payloads :
                call.floor <= m.first /\ m.first <= m.last /\ m.last <= catalog
        /\ call.pc # "resolve" => call.entries = <<>>

LEMMA ReadStart == Init => ReadInv
  BY DEF Init, ReadInv

(* New rows are dated from the start of a build, builds start now. *)
LEMMA RowsAndBuilds ==
    ASSUME TypeInv, Next
    PROVE  /\ \A m \in mappings' :
                m \in mappings \/ \E v \in Running : m.first = build[v].first
           /\ \A v \in Running' :
                \/ build'[v].first = catalog
                \/ v \in Running /\ build'[v].first = build[v].first
<1>1. build \in [Workers -> Builds]
  BY DEF TypeInv
<1>2. ASSUME NEW w \in Workers, Builder(w)
      PROVE  /\ \A m \in mappings' :
                  m \in mappings \/ \E v \in Running : m.first = build[v].first
             /\ \A v \in Running' : \/ build'[v].first = catalog
                                    \/ v \in Running /\ build'[v].first = build[v].first
  <2>1. ASSUME NEW s \in Sides, Claim(w, s)
        PROVE  /\ mappings' = mappings /\ build'[w].first = catalog
               /\ \A v \in Workers \ {w} : build'[v] = build[v]
    BY <1>1, <2>1 DEF Claim, NoBuild
  <2>2. ASSUME OpenBuild(w) \/ OpenPair(w) \/ LoadPair(w) \/ CheckFinish(w)
        PROVE  /\ mappings' = mappings /\ w \in Running
               /\ build'[w].first = build[w].first
               /\ \A v \in Workers \ {w} : build'[v] = build[v]
    <3>1. build[w].step # "idle" /\ mappings' = mappings
      BY <2>2 DEF OpenBuild, OpenPair, LoadPair, CheckFinish
    <3>2. OpenBuild(w) => /\ build'[w].first = build[w].first
                          /\ \A v \in Workers \ {w} : build'[v] = build[v]
      BY <1>1 DEF OpenBuild, BuildStep, Builds
    <3>3. OpenPair(w) => /\ build'[w].first = build[w].first
                          /\ \A v \in Workers \ {w} : build'[v] = build[v]
      BY <1>1 DEF OpenPair, BuildStep, Builds
    <3>4. LoadPair(w) => /\ build'[w].first = build[w].first
                          /\ \A v \in Workers \ {w} : build'[v] = build[v]
      BY <1>1 DEF LoadPair, BuildStep, Builds
    <3>5. CheckFinish(w) => /\ build'[w].first = build[w].first
                          /\ \A v \in Workers \ {w} : build'[v] = build[v]
      BY <1>1 DEF CheckFinish, BuildStep, Builds
    <3>6. build'[w].first = build[w].first
          /\ \A v \in Workers \ {w} : build'[v] = build[v]
      BY <2>2, <3>2, <3>3, <3>4, <3>5
    <3> QED BY <3>1, <3>6 DEF Running
  <2>3. ASSUME Publish(w) \/ StopBuild(w)
        PROVE  /\ mappings' = mappings /\ w \notin Running'
               /\ \A v \in Workers \ {w} : build'[v] = build[v]
    BY <1>1, <2>3 DEF Publish, StopBuild, BuildStep, Running, NoBuild
  <2>4. ASSUME NEW m \in mappings, ClearMapping(w, m)
        PROVE  mappings' \subseteq mappings /\ build' = build
    BY <2>4 DEF ClearMapping
  <2>5. ASSUME NEW ref \in build[w].todo, BuildRow(w, ref)
        PROVE  /\ \A m \in mappings' : m \in mappings \/ m.first = build[w].first
               /\ w \in Running /\ build'[w].first = build[w].first
               /\ \A v \in Workers \ {w} : build'[v] = build[v]
    BY <1>1, <2>5 DEF BuildRow, BuildStep, Running, Builds
  <2>6. Running \subseteq Workers /\ Running' \subseteq Workers
        /\ \A v \in Workers \ {w} : build'[v] = build[v] =>
                (v \in Running' => v \in Running)
    BY DEF Running
  <2>7. \A v \in Running' : v \in Running => v \in Workers
    BY <2>6
  <2> USE <2>6, <2>7
  <2>8. CASE \E s \in Sides : Claim(w, s)
    <3>1. /\ mappings' = mappings /\ build'[w].first = catalog
          /\ \A v \in Workers \ {w} : build'[v] = build[v]
      BY <2>1, <2>8
    <3> QED BY <3>1
  <2>9. CASE OpenBuild(w) \/ OpenPair(w) \/ LoadPair(w) \/ CheckFinish(w)
    <3>1. /\ mappings' = mappings /\ w \in Running
          /\ build'[w].first = build[w].first
          /\ \A v \in Workers \ {w} : build'[v] = build[v]
      BY <2>2, <2>9
    <3> QED BY <3>1
  <2>10. CASE Publish(w) \/ StopBuild(w)
    <3>1. /\ mappings' = mappings /\ w \notin Running'
          /\ \A v \in Workers \ {w} : build'[v] = build[v]
      BY <2>3, <2>10
    <3> QED BY <3>1
  <2>11. CASE \E m \in mappings : ClearMapping(w, m)
    <3>1. mappings' \subseteq mappings /\ build' = build
      BY <2>4, <2>11
    <3> QED BY <3>1 DEF Running
  <2>12. CASE \E ref \in build[w].todo : BuildRow(w, ref)
    <3>1. /\ \A m \in mappings' : m \in mappings \/ m.first = build[w].first
          /\ w \in Running /\ build'[w].first = build[w].first
          /\ \A v \in Workers \ {w} : build'[v] = build[v]
      BY <2>5, <2>12
    <3> QED BY <3>1
  <2> QED
    BY <1>2, <2>8, <2>9, <2>10, <2>11, <2>12 DEF Builder
<1>3. ASSUME ~ \E w \in Workers : Builder(w)
      PROVE  mappings' \subseteq mappings /\ build' = build
  <2>1. ASSUME NEW s \in Sides, Edit(s) \/ Requeue(s) \/ CreateIndex(s) \/ DropIndex(s)
        PROVE  mappings' = mappings /\ build' = build
    BY <2>1 DEF Edit, Requeue, CreateIndex, DropIndex
  <2>2. ASSUME NEW m \in mappings, ReclaimRow(m)
        PROVE  mappings' \subseteq mappings /\ build' = build
    BY <2>2 DEF ReclaimRow
  <2>3. ASSUME EditFurther PROVE mappings' = mappings /\ build' = build
    BY <2>3 DEF EditFurther, indexVars
  <2> QED
    BY <1>3, <2>1, <2>2, <2>3, ReaderKeeps DEF Next, Writers
<1>4. CASE \E w \in Workers : Builder(w)
  BY <1>2, <1>4
<1>5. CASE ~ \E w \in Workers : Builder(w)
  BY <1>3, <1>5 DEF Running
<1> QED
  BY <1>4, <1>5

LEMMA ReadByWriter ==
    ASSUME TypeInv, TimeInv, FloorInv, ReadInv, Writers
    PROVE  ReadInv'
<1>1. call' = call /\ catalog \in Nat /\ catalog' \in Nat /\ catalog <= catalog'
  BY WriterKeeps, CatalogGrows, CatalogIsNat DEF Next
<1>2. CASE call = NoCall
  BY <1>1, <1>2 DEF ReadInv
<1>3. CASE call # NoCall
  <2>1. call \in Calls /\ call.floor \in Nat /\ call.first \in Nat
    BY <1>3, CallKinds DEF Calls
  <2>2. /\ call.first <= catalog' /\ call.since <= call.first
        /\ call.floor <= catalog => call.floor <= catalog'
    <3>1. call.since <= call.first /\ call.first <= catalog
      BY <1>3 DEF ReadInv
    <3> QED
      BY ONLY <1>1, <2>1, <3>1
  <2>3. \A m \in call.payloads :
            call.floor <= m.first /\ m.first <= m.last /\ m.last <= catalog'
    <3>1. \A m \in call.payloads : m.last \in Nat
      BY <2>1 DEF Calls, Rows
    <3>2. \A m \in call.payloads :
            call.floor <= m.first /\ m.first <= m.last /\ m.last <= catalog
      BY <1>3 DEF ReadInv
    <3> QED
      BY ONLY <1>1, <3>1, <3>2
  <2>4. ASSUME call.pc \in {"find target", "load"}
        PROVE  /\ call.floor <= catalog'
               /\ \A v \in Running' : call.floor <= build'[v].first
               /\ \A m \in mappings' :
                    m.src = call.pair.src /\ (call.pc = "load" => m.tgt = call.pair.tgt)
                        => call.floor <= m.first
    <3>1. /\ call.floor <= catalog
          /\ \A v \in Running : call.floor <= build[v].first
          /\ \A m \in mappings :
                m.src = call.pair.src /\ (call.pc = "load" => m.tgt = call.pair.tgt)
                    => call.floor <= m.first
      BY <1>3, <2>4 DEF ReadInv
    <3> QED
      BY <2>2, <3>1, RowsAndBuilds DEF Next
  <2> QED
    BY <1>1, <1>3, <2>2, <2>3, <2>4 DEF ReadInv
<1> QED
  BY <1>2, <1>3

LEMMA ReadStep ==
    ASSUME TypeInv, ExpandInv, TimeInv, FloorInv, ReadInv, [Next]_vars
    PROVE  ReadInv'
<1>1. CASE UNCHANGED vars
  BY <1>1 DEF vars, indexVars, readerVars, ReadInv, Running
<1>2. CASE call' = NoCall
  BY <1>2 DEF ReadInv
<1>3. ASSUME Reader
      PROVE  /\ catalog' = catalog /\ mappings' = mappings /\ build' = build
             /\ catalog \in Nat /\ Running' = Running
  BY <1>3, ReaderKeeps, CatalogIsNat DEF Running
<1>4. ASSUME NEW req \in Requests, Receive(req) PROVE ReadInv'
  <2>1. /\ call'.pc = "prepare" /\ call'.since = catalog /\ call'.first = catalog
        /\ call'.pair = NoPair /\ call'.floor = 0
        /\ call'.payloads = {} /\ call'.entries = <<>>
    BY <1>4, ReceiveGives
  <2>2. catalog' = catalog /\ catalog \in Nat
    BY <1>3, <1>4 DEF Reader
  <2>3. (call.since <= call.first /\ call.first <= catalog)'
    BY ONLY <2>1, <2>2
  <2> QED
    BY ONLY <2>1, <2>3 DEF ReadInv
<1>5. CASE Prepare
  <2>1. Reader /\ call \in Calls /\ call # NoCall
    BY <1>5, StepOfCall DEF Reader
  <2>2. call.since <= catalog
    <3>1. call.since <= call.first /\ call.first <= catalog
      BY <2>1 DEF ReadInv
    <3>2. call.since \in Nat /\ call.first \in Nat
      BY <2>1 DEF Calls
    <3> QED
      BY <1>3, <2>1, <3>1, <3>2
  <2>3. /\ call'.pc \in {"find", "expand"} /\ call.pc = "prepare"
        /\ call'.since = call.since /\ call'.first = catalog
        /\ call'.pair = call.pair /\ call'.floor = call.floor
        /\ call'.payloads = call.payloads /\ call'.entries = call.entries
    BY <1>5, PrepareGives
  <2>4. /\ call.pair = NoPair /\ call.floor = 0 /\ call.payloads = {}
        /\ call.entries = <<>>
    BY <2>1, <2>3 DEF ReadInv
  <2>5. Reader /\ call'.first <= catalog'
    BY <1>3, <2>1, <2>3
  <2>6. call'.since <= call'.first
    BY <2>2, <2>3
  <2>7. /\ call'.pair = NoPair /\ call'.floor = 0 /\ call'.payloads = {}
        /\ call'.entries = <<>>
    BY <2>3, <2>4
  <2> QED
    BY ONLY <2>3, <2>5, <2>6, <2>7 DEF ReadInv
<1>6. CASE Expand
  <2>1. Reader /\ call # NoCall
    BY <1>6, StepOfCall DEF Reader
  <2>2. call' = NoCall \/
        /\ call'.pc = "find" /\ call'.since = call.since /\ call'.first = call.first
        /\ call'.pair = call.pair /\ call'.floor = call.floor /\ call.pc = "expand"
        /\ call'.payloads = call.payloads /\ call'.entries = call.entries
    BY <1>6, ExpandGives DEF Reply
  <2> QED
    BY <1>2, <1>3, <2>1, <2>2 DEF ReadInv
<1>7. CASE FindSource
  <2>1. Reader /\ call # NoCall /\ call.pc = "find"
    BY <1>7, StepOfCall, FindSourceGives DEF Reader
  <2>2. /\ call'.pc = "find target" /\ call'.since = call.since
        /\ call'.first = call.first /\ call'.payloads = call.payloads
        /\ call'.entries = call.entries
    BY <1>7, FindSourceGives DEF SameQuestion
  <2>3. call.payloads = {} /\ call.floor = 0 /\ call.entries = <<>>
    BY <2>1 DEF ReadInv
  <2>4. /\ call'.floor <= catalog /\ \A v \in Running : call'.floor <= build[v].first
        /\ \A m \in mappings : m.src = call'.pair.src => call'.floor <= m.first
    <3>1. CASE Ready("from")
      <4>1. call'.pair.src = index["from"].id /\ call'.floor = index["from"].floor
        BY <1>7, <3>1, FindSourceGives
      <4>2. "from" \in Sides /\ index["from"].status = "ready"
        BY <3>1 DEF Ready, Sides
      <4> QED
        BY <4>1, <4>2 DEF FloorInv, TimeInv, Since
    <3>2. CASE ~ Ready("from")
      <4>1. call'.floor = 0
        BY <1>7, <2>3, <3>2, FindSourceGives
      <4>2. /\ \A v \in Running : build[v].first \in Nat
            /\ \A m \in mappings : m.first \in Nat
        BY Numbers DEF Running
      <4> QED
        BY <1>3, <2>1, <4>1, <4>2
    <3> QED BY <3>1, <3>2
  <2> QED
    BY <1>3, <2>1, <2>2, <2>3, <2>4 DEF ReadInv
<1>8. CASE FindTarget
  <2>1. Reader /\ call # NoCall /\ call.pc = "find target"
    BY <1>8, StepOfCall, FindTargetGives DEF Reader
  <2>2. /\ call'.since = call.since /\ call'.first = call.first
        /\ call'.payloads = call.payloads /\ call'.entries = call.entries
    BY <1>8, FindTargetGives DEF SameQuestion
  <2>3. call.payloads = {} /\ call.entries = <<>>
    BY <2>1 DEF ReadInv
  <2>4. CASE /\ call'.pc = "load" /\ Ready("to") /\ call.pair.src # 0
             /\ call'.pair.src = call.pair.src /\ call'.pair.tgt = index["to"].id
             /\ call'.floor \in {call.floor, index["to"].floor}
    <3>1. /\ call.floor <= catalog /\ \A v \in Running : call.floor <= build[v].first
          /\ \A m \in mappings : m.src = call.pair.src => call.floor <= m.first
      BY <2>1 DEF ReadInv
    <3>2. "to" \in Sides /\ index["to"].status = "ready"
      BY <2>4 DEF Ready, Sides
    <3>3. /\ index["to"].floor <= catalog
          /\ \A v \in Running : index["to"].floor <= build[v].first
          /\ \A m \in mappings : m.tgt = index["to"].id => index["to"].floor <= m.first
      BY <3>2 DEF FloorInv, TimeInv, Since
    <3>4. /\ call'.floor <= catalog /\ \A v \in Running : call'.floor <= build[v].first
          /\ \A m \in mappings : m.src = call'.pair.src /\ m.tgt = call'.pair.tgt
                => call'.floor <= m.first
      BY <2>4, <3>1, <3>3
    <3> QED
      BY <1>3, <2>1, <2>2, <2>3, <2>4, <3>4 DEF ReadInv
  <2>5. CASE call'.pc = "resolve"
    BY <1>3, <2>1, <2>2, <2>3, <2>5 DEF ReadInv
  <2> QED
    BY <1>8, <2>4, <2>5, FindTargetGives
<1>9. CASE LoadPayloads
  <2>1. Reader /\ call # NoCall /\ call.pc = "load"
    BY <1>9, StepOfCall, LoadPayloadsGives DEF Reader
  <2>2. /\ call'.since = call.since /\ call'.first = call.first
        /\ call'.pair = call.pair /\ call'.floor = call.floor
        /\ call'.entries = call.entries /\ call'.pc = "resolve"
    BY <1>9, LoadPayloadsGives DEF SameQuestion
  <2>3. \A m \in call'.payloads : m \in mappings /\ m.src = call.pair.src
                                  /\ m.tgt = call.pair.tgt
    BY <1>9, LoadPayloadsGives
  <2>4. \A m \in call'.payloads :
            call.floor <= m.first /\ m.first <= m.last /\ m.last <= catalog
    BY <2>1, <2>3 DEF ReadInv, TimeInv
  <2> QED
    BY <1>3, <2>1, <2>2, <2>4 DEF ReadInv
<1>10. CASE ResolveEntry
  <2>1. Reader /\ call # NoCall /\ call.pc = "resolve"
    BY <1>10, StepOfCall, ResolveEntryGives DEF Reader
  <2>2. /\ call'.since = call.since /\ call'.first = call.first
        /\ call'.pair = call.pair /\ call'.floor = call.floor
        /\ call'.payloads = call.payloads /\ call'.pc = "resolve"
    BY <1>10, ResolveEntryGives DEF SameQuestion
  <2> QED
    BY <1>3, <2>1, <2>2 DEF ReadInv
<1>11. CASE RefuseBatch \/ RespondBatch
  BY <1>2, <1>11 DEF RefuseBatch, RespondBatch, Reply
<1>12. CASE Reader
  BY <1>4, <1>5, <1>6, <1>7, <1>8, <1>9, <1>10, <1>11, <1>12 DEF Reader
<1> QED
  BY <1>1, <1>12, ReadByWriter DEF Next

-----------------------------------------------------------------------------
(* --------------------------- the answers so far -------------------------- *)
(* Each entry is one the promise allows, from an index only when a pair was  *)
(* found, and not older than the call or the floor of that pair.             *)
Allowed(e, ref, c, now) ==
    /\ \/ Promise!Acceptable(e, ref, c.since, now)
       \/ c.pair # NoPair /\ Promise!FromIndex(e, ref, now)
    /\ e = Error \/ e.first >= c.since \/ e.first >= c.floor

AnswerInv ==
    call # NoCall =>
        /\ Len(call.entries) <= Len(call.refs)
        /\ \A i \in 1 .. Len(call.entries) :
                Allowed(call.entries[i], call.refs[i], call, catalog)

(* The promise and the program speak of the same answers. *)
LEMMA WordsAgree ==
    ASSUME NEW e, NEW ref, NEW from, NEW to
    PROVE  /\ Promise!IsLive(e, ref, from, to) <=>
                /\ e = Answer(ref, e.first, e.last)
                /\ e.first \in from .. to /\ e.last \in e.first .. to
           /\ Promise!Acceptable(e, ref, from, to) <=>
                IF ref.kind \in {"verse", "range"} THEN Promise!IsLive(e, ref, from, to)
                ELSE e = Error
           /\ Promise!FromIndex(e, ref, to) <=>
                /\ ref.kind \in {"verse", "padded"}
                /\ Promise!IsLive(e, Verse(ref.at), 0, to)
<1>1. Promise!IsLive(e, ref, from, to) <=>
            /\ e = Answer(ref, e.first, e.last)
            /\ e.first \in from .. to /\ e.last \in e.first .. to
  BY DEF Promise!IsLive, Promise!Answer, Answer
<1>2. Promise!Acceptable(e, ref, from, to) <=>
            IF ref.kind \in {"verse", "range"} THEN Promise!IsLive(e, ref, from, to)
            ELSE e = Error
  BY DEF Promise!Acceptable, Promise!Error, Error
<1>3. Promise!Verse(ref.at) = Verse(ref.at)
  BY DEF Promise!Verse, Verse
<1> QED
  BY <1>1, <1>2, <1>3 DEF Promise!FromIndex

LEMMA AnswerStart == Init => AnswerInv
  BY DEF Init, AnswerInv

(* What is allowed now is allowed later. *)
LEMMA AllowedLater ==
    ASSUME NEW e, NEW ref, NEW c, NEW now \in Nat, NEW later \in Nat, now <= later,
           c.since \in Nat, Allowed(e, ref, c, now)
    PROVE  Allowed(e, ref, c, later)
<1>1. ASSUME NEW r, NEW from \in Nat, Promise!IsLive(e, r, from, now)
      PROVE  Promise!IsLive(e, r, from, later)
  <2>1. /\ e = Answer(r, e.first, e.last)
        /\ e.first \in from .. now /\ e.last \in e.first .. now
    BY <1>1, WordsAgree
  <2>2. e.first \in from .. later /\ e.last \in e.first .. later
    BY <2>1
  <2> QED
    BY <2>1, <2>2, WordsAgree
<1>2. Promise!Acceptable(e, ref, c.since, now)
        => Promise!Acceptable(e, ref, c.since, later)
  BY <1>1, WordsAgree
<1>3. Promise!FromIndex(e, ref, now) => Promise!FromIndex(e, ref, later)
  BY <1>1, WordsAgree
<1> QED
  BY <1>2, <1>3 DEF Allowed

LEMMA AllowedSame ==
    ASSUME NEW e, NEW ref, NEW c, NEW d, NEW now, Allowed(e, ref, c, now),
           c.since = d.since, c.pair = d.pair, c.floor = d.floor
    PROVE  Allowed(e, ref, d, now)
  BY DEF Allowed

(* The entry that a member is given, live or from a loaded row. *)
LEMMA EntryAllowed ==
    ASSUME TypeInv, ReadInv, call \in Calls, call # NoCall, NEW ref \in Members
    PROVE  Allowed(Resolved(ref), ref, call, catalog)
<1>1. /\ call.since \in Nat /\ call.first \in Nat /\ catalog \in Nat
      /\ call.since <= call.first /\ call.first <= catalog
  BY CatalogIsNat DEF Calls, ReadInv
<1>2. ASSUME NEW m \in call.payloads, m.ref = Verse(ref.at),
             ref.kind \in {"verse", "padded"}
      PROVE  Allowed(Answer(m.ref, m.first, m.last), ref, call, catalog)
  <2> DEFINE e == Answer(m.ref, m.first, m.last)
  <2>1. m.first \in Nat /\ m.last \in Nat
    BY <1>2 DEF Calls, Rows
  <2>2. call.floor <= m.first /\ m.first <= m.last /\ m.last <= catalog
    BY <1>2 DEF ReadInv
  <2>3. call.pair # NoPair
    <3>1. call.payloads # {}
      BY <1>2
    <3>2. call.pair.src # 0
      BY <3>1 DEF ReadInv
    <3>3. NoPair.src = 0
      BY DEF NoPair
    <3> QED
      BY <3>2, <3>3
  <2>4. e.first = m.first /\ e.last = m.last /\ e.of = m.ref
    BY DEF Answer
  <2>5. e = Answer(Verse(ref.at), e.first, e.last)
    BY <1>2, <2>4
  <2> HIDE DEF e
  <2>6. e.first \in 0 .. catalog /\ e.last \in e.first .. catalog
    BY <1>1, <2>1, <2>2, <2>4
  <2>7. Promise!FromIndex(e, ref, catalog)
    <3>1. Promise!IsLive(e, Verse(ref.at), 0, catalog)
      BY <2>5, <2>6, WordsAgree
    <3> QED
      BY <1>2, <3>1, WordsAgree
  <2>8. call.floor \in Nat /\ e.first >= call.floor
    BY <2>1, <2>2, <2>4 DEF Calls
  <2> QED
    BY <2>3, <2>7, <2>8 DEF Allowed, e
<1>3. Allowed(Live(ref), ref, call, catalog)
  <2>1. CASE ref.kind \in {"verse", "range"}
    <3> DEFINE e == Live(ref)
    <3>1. e = Answer(ref, call.first, catalog)
      BY <2>1 DEF Live
    <3>2. e.first = call.first /\ e.last = catalog
      BY <3>1 DEF Answer
    <3> HIDE DEF e
    <3>3. /\ e = Answer(ref, e.first, e.last) /\ e.first \in call.since .. catalog
          /\ e.last \in e.first .. catalog /\ e.first >= call.since
      BY <1>1, <3>1, <3>2
    <3>4. Promise!Acceptable(e, ref, call.since, catalog)
      BY <2>1, <3>3, WordsAgree
    <3> QED
      BY <3>3, <3>4 DEF Allowed, e
  <2>2. CASE ref.kind \notin {"verse", "range"}
    <3>1. Live(ref) = Error
      BY <2>2 DEF Live
    <3> QED
      BY <2>2, <3>1, WordsAgree DEF Allowed
  <2> QED BY <2>1, <2>2
<1>4. CASE Resolved(ref) = Live(ref)
  BY <1>3, <1>4
<1>5. CASE \E m \in call.payloads :
                /\ m.ref = Verse(ref.at) /\ ref.kind \in {"verse", "padded"}
                /\ Resolved(ref) = Answer(m.ref, m.first, m.last)
  BY <1>2, <1>5
<1> QED
  BY <1>4, <1>5, ResolvedIs

LEMMA AnswerStep ==
    ASSUME TypeInv, ExpandInv, ReadInv, AnswerInv, [Next]_vars
    PROVE  AnswerInv'
<1>1. CASE Writers \/ UNCHANGED vars
  <2>1. call' = call /\ catalog \in Nat /\ catalog' \in Nat /\ catalog <= catalog'
    BY <1>1, WriterKeeps, CatalogGrows, CatalogIsNat DEF vars, readerVars
  <2>2. CASE call = NoCall
    BY <2>1, <2>2 DEF AnswerInv
  <2>3. CASE call # NoCall
    <3>1. call.since \in Nat
      BY <2>3, CallKinds DEF Calls
    <3>2. Len(call.entries) <= Len(call.refs)
      BY <2>3 DEF AnswerInv
    <3>3. \A i \in 1 .. Len(call.entries) :
                Allowed(call.entries[i], call.refs[i], call, catalog')
      <4> SUFFICES ASSUME NEW i \in 1 .. Len(call.entries)
                   PROVE  Allowed(call.entries[i], call.refs[i], call, catalog')
        OBVIOUS
      <4>1. Allowed(call.entries[i], call.refs[i], call, catalog)
        BY <2>3 DEF AnswerInv
      <4> QED
        BY <2>1, <3>1, <4>1, AllowedLater
    <3> QED
      BY <2>1, <3>2, <3>3 DEF AnswerInv
  <2> QED BY <2>2, <2>3
<1>2. ASSUME call' = NoCall PROVE AnswerInv'
  BY <1>2 DEF AnswerInv
<1>3. ASSUME call' \in Calls, call'.entries = <<>> PROVE AnswerInv'
  <2>1. Len(call'.entries) = 0 /\ Len(call'.refs) \in Nat
    BY <1>3 DEF Calls
  <2> QED
    BY <2>1 DEF AnswerInv
<1>4. ASSUME NEW req \in Requests, Receive(req) PROVE AnswerInv'
  BY <1>3, <1>4, ReceiveGives
<1>5. CASE Prepare
  <2>1. call # NoCall /\ call.pc = "prepare"
    BY <1>5, StepOfCall, PrepareGives
  <2>2. call.entries = <<>>
    BY <2>1 DEF ReadInv
  <2> QED
    BY <1>3, <1>5, <2>2, PrepareGives
<1>6. CASE Expand
  <2>1. call # NoCall
    BY <1>6, StepOfCall
  <2>2. call.pc = "expand"
    BY <1>6 DEF Expand, At
  <2>3. call.entries = <<>>
    BY <2>1, <2>2 DEF ReadInv
  <2>4. call' = NoCall \/ (call' \in Calls /\ call'.entries = call.entries)
    BY <1>6, ExpandGives DEF Reply
  <2> QED
    BY <1>2, <1>3, <2>3, <2>4
<1>7. CASE FindSource \/ FindTarget \/ LoadPayloads
  <2>1. call # NoCall
    BY <1>7, StepOfCall
  <2>2. /\ call.pc # "resolve" /\ call' \in Calls /\ call'.entries = call.entries
    BY <1>7, FindSourceGives, FindTargetGives, LoadPayloadsGives DEF SameQuestion
  <2>3. call.entries = <<>>
    BY <2>1, <2>2 DEF ReadInv
  <2> QED
    BY <1>3, <2>2, <2>3
<1>8. CASE ResolveEntry
  <2> DEFINE k == Len(call.entries) + 1
  <2>1. /\ call # NoCall /\ call \in Calls /\ catalog' = catalog
        /\ Len(call.entries) \in Nat /\ Len(call.refs) \in Nat
    BY <1>8, StepOfCall, ReaderKeeps DEF Reader, Calls
  <2>2. /\ k \in 1 .. Len(call.refs) /\ call.refs[k] \in Members
        /\ Len(call'.entries) = k
        /\ call'.entries[k] = Resolved(call.refs[k])
        /\ \A i \in 1 .. (k - 1) : call'.entries[i] = call.entries[i]
        /\ call'.refs = call.refs /\ call'.since = call.since
        /\ call'.pair = call.pair /\ call'.floor = call.floor
    BY <1>8, ResolveEntryGives DEF SameQuestion
  <2>3. Allowed(call'.entries[k], call'.refs[k], call', catalog')
    <3>1. Allowed(Resolved(call.refs[k]), call.refs[k], call, catalog)
      BY <2>1, <2>2, EntryAllowed
    <3> HIDE DEF k
    <3>2. Allowed(call'.entries[k], call'.refs[k], call, catalog')
      BY <2>1, <2>2, <3>1
    <3> QED
      BY <2>2, <3>2, AllowedSame
  <2>4. ASSUME NEW i \in 1 .. (k - 1)
        PROVE  Allowed(call'.entries[i], call'.refs[i], call', catalog')
    <3>1. i \in 1 .. Len(call.entries)
      BY <2>1
    <3>2. Allowed(call.entries[i], call.refs[i], call, catalog)
      BY <2>1, <3>1 DEF AnswerInv
    <3> HIDE DEF k
    <3>3. Allowed(call'.entries[i], call'.refs[i], call, catalog')
      BY <2>1, <2>2, <3>2
    <3> QED
      BY <2>2, <3>3, AllowedSame
  <2>5. k \in Nat /\ \A i \in 1 .. k : i \in 1 .. (k - 1) \/ i = k
    BY <2>1
  <2> HIDE DEF k
  <2>6. \A i \in 1 .. k : Allowed(call'.entries[i], call'.refs[i], call', catalog')
    BY <2>3, <2>4, <2>5
  <2>7. Len(call'.entries) <= Len(call'.refs)
    BY <2>1, <2>2
  <2> QED
    BY <2>2, <2>6, <2>7 DEF AnswerInv
<1>9. CASE RefuseBatch \/ RespondBatch
  BY <1>2, <1>9, RepliesEnd
<1> QED
  BY <1>1, <1>4, <1>5, <1>6, <1>7, <1>8, <1>9 DEF Next, Reader

-----------------------------------------------------------------------------
(* ----------------------------- what is answered -------------------------- *)
(* From the find step on, the members of the call are its list, or the page *)
(* of its window at a version between the call and now.                     *)
ChosenAt(c, v) ==
    /\ Promise!IsPage(c.refs, c.req, v)
    /\ c.total = Cardinality(Promise!InWindow(c.req, v))

Chosen(c, now) ==
    /\ ~ Promise!Rejected(c.req)
    /\ IF c.req.endpoint = "verses"
       THEN c.refs = c.req.refs /\ c.total = Len(c.req.refs)
       ELSE \E v \in c.since .. now : ChosenAt(c, v)

PageInv ==
    call.pc \in {"find", "find target", "load", "resolve"} => Chosen(call, catalog)

LEMMA PageStart == Init => PageInv
  BY DEF Init, PageInv, NoCall

(* A step that keeps the request, the moment and the members. *)
LEMMA PageStands ==
    ASSUME TypeInv, [Next]_vars, call \in Calls, Chosen(call, catalog),
           call'.req = call.req, call'.since = call.since,
           call'.refs = call.refs, call'.total = call.total
    PROVE  Chosen(call', catalog')
<1>1. /\ catalog \in Nat /\ catalog' \in Nat /\ catalog <= catalog'
      /\ call.since \in Nat
  BY CatalogIsNat, CatalogGrows DEF Calls
<1>2. CASE call.req.endpoint = "verses"
  BY <1>2 DEF Chosen
<1>3. CASE call.req.endpoint # "verses"
  <2>1. PICK v \in call.since .. catalog : ChosenAt(call, v)
    BY <1>3 DEF Chosen
  <2>2. v \in call.since .. catalog' /\ ChosenAt(call', v)
    BY <1>1, <2>1 DEF ChosenAt
  <2> QED
    BY <1>3, <2>2 DEF Chosen
<1> QED
  BY <1>2, <1>3

LEMMA RefusedIsRejected ==
    ASSUME NEW req \in Requests, Refused(req)
    PROVE  Promise!Rejected(req)
  BY LimitsAgree DEF Refused, Promise!Rejected

LEMMA ReversedIsRejected ==
    ASSUME NEW req \in Requests, req.endpoint = "range",
           ReversedWindow(req.from, req.to)
    PROVE  Promise!Rejected(req)
<1>1. req.from \in Bounds /\ req.to \in Bounds
  BY RequestKinds
<1> QED
  BY <1>1, BackwardsAgree DEF Promise!Rejected

LEMMA NotRejected ==
    ASSUME NEW req \in Requests, ~ Refused(req),
           req.endpoint = "range" => ~ ReversedWindow(req.from, req.to)
    PROVE  ~ Promise!Rejected(req)
<1>1. CASE req.endpoint = "verses"
  BY <1>1 DEF Refused, Promise!Rejected
<1>2. CASE req.endpoint # "verses"
  <2>1. req.endpoint = "range" /\ req.from \in Bounds /\ req.to \in Bounds
    BY <1>2, RequestKinds
  <2>2. ~ Promise!Backwards(req)
    BY <2>1, BackwardsAgree
  <2>3. Promise!Limit(req) \in 1 .. MAX_LIMIT
    BY <1>2, LimitsAgree DEF Refused
  <2> QED
    BY <1>2, <2>2, <2>3 DEF Promise!Rejected
<1> QED
  BY <1>1, <1>2

LEMMA PageStep ==
    ASSUME TypeInv, ExpandInv, ReadInv, PageInv, [Next]_vars
    PROVE  PageInv'
<1> DEFINE Chose == {"find", "find target", "load", "resolve"}
<1>1. ASSUME call' = call PROVE PageInv'
  <2>1. CASE call.pc \in Chose
    <3>1. call \in Calls
      BY <2>1, CallKinds
    <3> QED
      BY <1>1, <2>1, <3>1, PageStands DEF PageInv
  <2>2. CASE call.pc \notin Chose
    BY <1>1, <2>2 DEF PageInv
  <2> QED BY <2>1, <2>2
<1>2. ASSUME call'.pc \notin Chose PROVE PageInv'
  BY <1>2 DEF PageInv
<1>3. ASSUME NEW req \in Requests, Receive(req) PROVE PageInv'
  BY <1>2, <1>3, ReceiveGives
<1>4. ASSUME call' = NoCall PROVE PageInv'
  BY <1>2, <1>4 DEF NoCall
<1>5. ASSUME Prepare \/ Expand
      PROVE  /\ call \in Calls /\ call # NoCall /\ call.req \in Requests
             /\ catalog' = catalog /\ catalog \in Nat /\ catalog \in Versions
             /\ call.since \in Nat /\ call.since <= catalog
  <2>1. call \in Calls /\ call # NoCall
    BY <1>5, StepOfCall
  <2>2. catalog' = catalog /\ catalog \in Nat /\ catalog \in Versions
    BY <1>5, ReaderKeeps, CatalogIsNat DEF Reader, TypeInv
  <2>3. call.since \in Nat /\ call.first \in Nat /\ call.req \in Requests
    BY <2>1 DEF Calls
  <2>4. call.since <= call.first /\ call.first <= catalog
    BY <2>1 DEF ReadInv
  <2> QED BY <2>1, <2>2, <2>3, <2>4
<1>6. CASE Prepare
  <2>1. CASE call.req.endpoint = "verses"
    <3>1. /\ call'.req = call.req /\ call'.refs = call.req.refs
          /\ call'.total = Len(call.req.refs)
      BY <1>6, <2>1, PrepareGives
    <3>2. ~ Promise!Rejected(call.req)
      BY <1>5, <1>6, <2>1, NotRejected, PrepareGives
    <3> QED
      BY <2>1, <3>1, <3>2 DEF PageInv, Chosen
  <2>2. CASE call.req.endpoint # "verses"
    BY <1>2, <1>6, <2>2, PrepareGives
  <2> QED BY <2>1, <2>2
<1>7. CASE Expand
  <2> DEFINE req == call.req
             all == stored_verse_refs(Texts[catalog], range_window(req.from, req.to))
             slice == Slice(all, clamp_page(req.limit, req.offset))
  <2>1. /\ req \in Requests /\ req.endpoint = "range" /\ ~ Refused(req)
        /\ LimitOf(req.limit) \in 1 .. MAX_LIMIT
    BY <1>5, <1>7 DEF Expand, At, ExpandInv, Refused
  <2>2. /\ req.from \in Bounds /\ req.to \in Bounds
        /\ {req.limit, req.offset} \subseteq Int \cup {None}
    BY <2>1, RequestKinds
  <2>3. /\ Promise!IsPage(slice, req, catalog)
        /\ Len(all) = Cardinality(Promise!InWindow(req, catalog))
    BY <1>5, <1>7, <2>1, <2>2, WindowIsPaged
  <2>4. CASE ReversedWindow(req.from, req.to)
    <3>1. call' = NoCall
      BY <1>7, <2>4 DEF Expand, Reply
    <3> QED BY <1>4, <3>1
  <2>5. CASE ~ ReversedWindow(req.from, req.to)
    <3>1. /\ call'.req = req /\ call'.since = call.since
          /\ call'.refs = slice /\ call'.total = Len(all)
      BY <1>7, <2>5, ExpandGives
    <3>2. ~ Promise!Rejected(req)
      BY <2>1, <2>5, NotRejected
    <3> HIDE DEF all, slice, req
    <3>3. ChosenAt(call', catalog)
      BY <2>3, <3>1 DEF ChosenAt
    <3>4. catalog \in call.since .. catalog
      BY <1>5, <1>7
    <3> QED
      BY <1>5, <1>7, <2>1, <3>1, <3>2, <3>3, <3>4 DEF PageInv, Chosen
  <2> QED BY <2>4, <2>5
<1>8. CASE FindSource \/ FindTarget \/ LoadPayloads \/ ResolveEntry
  <2>1. SameQuestion /\ call.pc \in Chose
    BY <1>8, FindSourceGives, FindTargetGives, LoadPayloadsGives, ResolveEntryGives
  <2>2. call \in Calls
    BY <1>8, StepOfCall
  <2>3. Chosen(call, catalog)
    BY <2>1 DEF PageInv
  <2> QED
    BY <2>1, <2>2, <2>3, PageStands DEF PageInv, SameQuestion
<1>9. CASE RefuseBatch \/ RespondBatch
  BY <1>4, <1>9, RepliesEnd
<1>10. CASE Writers \/ UNCHANGED vars
  BY <1>1, <1>10, WriterKeeps DEF vars, readerVars
<1> QED
  BY <1>3, <1>6, <1>7, <1>8, <1>9, <1>10 DEF Next, Reader

-----------------------------------------------------------------------------
(* ----------------------------- the invariant ----------------------------- *)
Inv == /\ TypeInv /\ ExpandInv /\ TimeInv /\ FloorInv
       /\ ReadInv /\ AnswerInv /\ PageInv

LEMMA InvStart == Init => Inv
  BY TypeStart, ExpandStart, FloorStart, ReadStart, AnswerStart, PageStart DEF Inv

LEMMA InvStep == Inv /\ [Next]_vars => Inv'
  BY TypeStep, ExpandStep, FloorStep, ReadStep, AnswerStep, PageStep DEF Inv

(* The inductive invariant of the endpoints and the index they read. *)
THEOREM InvHolds == Spec => []Inv
  BY InvStart, InvStep, PTL DEF Spec

(* A stored answer is never older than the last build of either index it     *)
(* comes from, or than a build that ran beside that one: for any number of   *)
(* workers whose builds overlap and are never told of a later request, and   *)
(* for commits between any two statements of a build or of a request.        *)
THEOREM AnsweredSinceItsBuild == Spec => []AnsweredSinceBuild
<1>1. Inv => AnsweredSinceBuild
  <2> SUFFICES ASSUME Inv, call # NoCall, NEW i \in DOMAIN call.entries,
                      call.entries[i] # Error
               PROVE  call.entries[i].first >= Min({call.since, call.floor})
    BY DEF AnsweredSinceBuild
  <2>1. call \in Calls
    BY CallKinds DEF Inv
  <2>2. /\ call.since \in Nat /\ call.floor \in Nat
        /\ call.entries \in Seq(Entries)
    BY <2>1 DEF Calls
  <2>3. i \in 1 .. Len(call.entries) /\ call.entries[i] \in Entries
    BY <2>2
  <2>4. Allowed(call.entries[i], call.refs[i], call, catalog)
    BY <2>3 DEF Inv, AnswerInv
  <2>5. \/ call.entries[i].first >= call.since
        \/ call.entries[i].first >= call.floor
    BY <2>4 DEF Allowed
  <2>6. call.entries[i].first \in Nat
    BY <2>3 DEF Entries
  <2> DEFINE T == {call.since, call.floor}
  <2>7. T \subseteq Nat /\ T # {} /\ call.since \in T /\ call.floor \in T
    BY <2>2
  <2> HIDE DEF T
  <2>8. Min(T) \in Nat /\ Min(T) <= call.since /\ Min(T) <= call.floor
    BY <2>7, MinIs
  <2> QED
    BY <2>2, <2>5, <2>6, <2>8 DEF T
<1> QED
  BY <1>1, InvHolds, PTL

-----------------------------------------------------------------------------
(* ----------------------------- the refinement ---------------------------- *)
Pending == IF call.pc = "idle" THEN [open |-> FALSE]
           ELSE [open |-> TRUE, req |-> call.req, since |-> call.since]

LEMMA PendingWhen ==
    ASSUME TypeInv
    PROVE  /\ call = NoCall => Pending = [open |-> FALSE]
           /\ call # NoCall =>
                Pending = [open |-> TRUE, req |-> call.req, since |-> call.since]
  BY CallKinds DEF Pending, NoCall

LEMMA ImplementsStart == Init => Promise!Init
  BY DEF Init, NoCall, NoResponse, Promise!Init, Promise!NoCall, Promise!NoResponse

(* A step that a client does not see. *)
LEMMA Stutter ==
    ASSUME UNCHANGED <<catalog, response, Pending>>
    PROVE  UNCHANGED Promise!vars
  BY DEF Promise!vars, Pending

LEMMA WriterImplements ==
    ASSUME TypeInv, Writers
    PROVE  [Promise!Next]_Promise!vars
<1>1. UNCHANGED <<call, response>>
  BY WriterKeeps
<1>2. UNCHANGED Pending
  BY <1>1 DEF Pending
<1>3. catalog' = catalog \/ (catalog' = catalog + 1 /\ catalog' \in Versions)
  BY CatalogMoves DEF Next
<1>4. CASE catalog' = catalog
  BY <1>1, <1>2, <1>4, Stutter
<1>5. CASE catalog' = catalog + 1 /\ catalog' \in Versions
  <2>1. Promise!Change
    BY <1>1, <1>2, <1>5 DEF Promise!Change, Pending, Promise!Versions, Versions
  <2> QED BY <2>1 DEF Promise!Next
<1> QED
  BY <1>3, <1>4, <1>5

(* A reply of 422 to a call that the promise rejects. *)
LEMMA RejectImplements ==
    ASSUME TypeInv, call # NoCall, Promise!Rejected(call.req),
           Reply([status |-> "422"])
    PROVE  Promise!Reject
<1>1. Pending = [open |-> TRUE, req |-> call.req, since |-> call.since]
  BY PendingWhen
<1>2. Pending' = [open |-> FALSE] /\ response' = [status |-> "422"] /\ catalog' = catalog
  BY DEF Reply, Pending, NoCall
<1> QED
  BY <1>1, <1>2 DEF Promise!Reject, Promise!NoCall, Pending

LEMMA RespondImplements ==
    ASSUME Inv, RespondBatch
    PROVE  Promise!Respond
<1>1. /\ call.pc = "resolve" /\ ~ (Len(call.entries) < Len(call.refs))
      /\ response' = [status |-> "ok", refs |-> call.refs, total |-> call.total,
                      entries |-> call.entries,
                      index_used |-> call.pair # NoPair]
      /\ call' = NoCall /\ catalog' = catalog
  BY DEF RespondBatch, Reply, At, Unanswered
<1>2. call \in Calls /\ call # NoCall
  BY <1>1, CallKinds DEF Inv
<1>3. call.refs \in Seq(Members) /\ call.entries \in Seq(Entries)
  BY <1>2 DEF Calls
<1>4. /\ Len(call.entries) <= Len(call.refs)
      /\ \A i \in 1 .. Len(call.entries) :
            \/ Promise!Acceptable(call.entries[i], call.refs[i], call.since, catalog)
            \/ /\ call.pair # NoPair
               /\ Promise!FromIndex(call.entries[i], call.refs[i], catalog)
  BY <1>2 DEF Inv, AnswerInv, Allowed
<1>5. DOMAIN call.entries = DOMAIN call.refs /\ DOMAIN call.refs = 1 .. Len(call.entries)
  BY <1>1, <1>3, <1>4
<1>6. Chosen(call, catalog)
  BY <1>1 DEF Inv, PageInv
<1>7. /\ response'.status = "ok" /\ response'.refs = call.refs
      /\ response'.total = call.total /\ response'.entries = call.entries
      /\ response'.index_used = (call.pair # NoPair)
  BY <1>1
<1>8. IF call.req.endpoint = "verses"
      THEN call.refs = call.req.refs /\ call.total = Len(call.req.refs)
      ELSE \E v \in call.since .. catalog :
                /\ Promise!IsPage(call.refs, call.req, v)
                /\ call.total = Promise!Cardinality(Promise!InWindow(call.req, v))
  BY <1>6, SizesAgree DEF Chosen, ChosenAt
<1>9. Promise!IsAnswer(response', call.req, call.since, catalog)
  BY <1>4, <1>5, <1>6, <1>7, <1>8 DEF Promise!IsAnswer, Chosen
<1>10. Pending = [open |-> TRUE, req |-> call.req, since |-> call.since]
  BY <1>2, PendingWhen DEF Inv
<1>11. Pending' = [open |-> FALSE]
  BY <1>1 DEF Pending, NoCall
<1> QED
  BY <1>1, <1>9, <1>10, <1>11 DEF Promise!Respond, Promise!NoCall, Pending

LEMMA ReaderImplements ==
    ASSUME Inv, Reader
    PROVE  [Promise!Next]_Promise!vars
<1>1. catalog' = catalog
  BY ReaderKeeps
<1>2. ASSUME NEW req \in Requests, Receive(req) PROVE Promise!Call
  <2>1. /\ call = NoCall /\ response' = NoResponse
        /\ call'.pc = "prepare" /\ call'.req = req /\ call'.since = catalog
    BY <1>2, ReceiveGives DEF Inv
  <2>2. Pending = [open |-> FALSE]
    BY <2>1, PendingWhen DEF Inv
  <2>3. Pending' = [open |-> TRUE, req |-> req, since |-> catalog]
    BY <2>1 DEF Pending
  <2> QED
    BY <1>1, <2>1, <2>2, <2>3
       DEF Promise!Call, Promise!NoCall, Promise!NoResponse, NoResponse, Pending
<1>3. ASSUME call # NoCall, call' \in Calls, call'.req = call.req,
             call'.since = call.since, response' = response
      PROVE  UNCHANGED Promise!vars
  <2>1. call.pc # "idle" /\ call'.pc # "idle"
    BY <1>3, CallKinds DEF Inv, Calls, Steps
  <2>2. UNCHANGED Pending
    BY <1>3, <2>1 DEF Pending
  <2> QED
    BY <1>1, <1>3, <2>2, Stutter
<1>4. CASE RefuseBatch
  <2>1. call.req \in Requests /\ call # NoCall
    BY <1>4, StepOfCall DEF Inv, Calls
  <2>2. Refused(call.req) /\ Reply([status |-> "422"])
    BY <1>4 DEF RefuseBatch
  <2>3. Promise!Reject
    BY <2>1, <2>2, RefusedIsRejected, RejectImplements DEF Inv
  <2> QED BY <2>3 DEF Promise!Next
<1>5. CASE Prepare
  BY <1>3, <1>5, PrepareGives, StepOfCall DEF Inv
<1>6. CASE Expand
  <2> DEFINE req == call.req
  <2>1. call # NoCall /\ req \in Requests /\ req.endpoint = "range"
    BY <1>6, StepOfCall, ExpandGives DEF Inv
  <2>2. CASE ReversedWindow(req.from, req.to) /\ Reply([status |-> "422"])
    <3>1. Promise!Reject
      BY <2>1, <2>2, ReversedIsRejected, RejectImplements DEF Inv
    <3> QED BY <3>1 DEF Promise!Next
  <2>3. CASE /\ call' \in Calls /\ call'.req = call.req /\ call'.since = call.since
             /\ response' = response
    BY <1>3, <2>1, <2>3
  <2> QED BY <1>6, <2>2, <2>3, ExpandGives DEF Inv
<1>7. CASE FindSource \/ FindTarget \/ LoadPayloads \/ ResolveEntry
  <2>1. SameQuestion /\ call # NoCall
    BY <1>7, FindSourceGives, FindTargetGives, LoadPayloadsGives, ResolveEntryGives,
       StepOfCall DEF Inv
  <2> QED
    BY <1>3, <2>1 DEF SameQuestion
<1>8. CASE RespondBatch
  BY <1>8, RespondImplements DEF Promise!Next
<1>9. CASE \E req \in Requests : Receive(req)
  BY <1>2, <1>9 DEF Promise!Next
<1> QED
  BY <1>4, <1>5, <1>6, <1>7, <1>8, <1>9 DEF Reader

LEMMA StepImplements ==
    Inv /\ Inv' /\ [Next]_vars => [Promise!Next]_Promise!vars
<1> SUFFICES ASSUME Inv, Inv', [Next]_vars PROVE [Promise!Next]_Promise!vars
  OBVIOUS
<1>1. CASE UNCHANGED vars
  BY <1>1, Stutter DEF vars, readerVars, Pending
<1>2. CASE Next
  BY <1>2, WriterImplements, ReaderImplements DEF Next, Inv
<1> QED
  BY <1>1, <1>2

(* The batch endpoints keep their promise, whatever the texts, the requests  *)
(* and the limits, however many indexes are created and rebuilt and however  *)
(* the writers' commits fall between the statements of a request.            *)
THEOREM BatchKeepsPromise == Spec => ImplementsPromise
<1>1. Init => Promise!Init
  BY ImplementsStart
<1>2. Inv /\ Inv' /\ [Next]_vars => [Promise!Next]_Promise!vars
  BY StepImplements
<1>3. Spec => []Inv
  BY InvHolds
<1> QED
  BY <1>1, <1>2, <1>3, PTL DEF Spec, ImplementsPromise, Promise!Spec

-----------------------------------------------------------------------------
(* --------------------------- the shape of the state ---------------------- *)
LiveIndexes == [id : 1 .. lastId, floor : Nat,
                status : {"pending", "building", "ready"}]

(* An id is given once, to one index; the build of an index knows its id. *)
IdInv ==
    /\ lastId \in 2 .. MaxIds /\ served \in 0 .. MaxRequests
    /\ \A s \in Sides : index[s] = NoIndex \/ index[s] \in LiveIndexes
    /\ index["from"].id = index["to"].id => index["from"] = NoIndex

BuiltInv == \A w \in Running : build[w].id \in 1 .. lastId

LEMMA IdStart == Init => IdInv /\ BuiltInv
<1> SUFFICES ASSUME Init PROVE IdInv /\ BuiltInv
  OBVIOUS
<1>1. lastId \in 2 .. MaxIds /\ served \in 0 .. MaxRequests /\ lastId = 2
  BY MaxAssumption DEF Init
<1>2. \A s \in Sides : index[s] \in LiveIndexes
  BY <1>1 DEF Init, LiveIndexes, Sides
<1>3. index["from"].id # index["to"].id
  BY DEF Init, Sides
<1>4. Running = {}
  BY DEF Init, Running, NoBuild
<1> QED
  BY <1>1, <1>2, <1>3, <1>4 DEF IdInv, BuiltInv

LEMMA LiveIndexIs ==
    ASSUME TypeInv, IdInv
    PROVE  /\ NoIndex.id = 0 /\ NoIndex.status = "none"
           /\ \A x \in LiveIndexes : x.id \in 1 .. lastId /\ x # NoIndex
                                     /\ x.status # "none"
           /\ \A s \in Sides : Exists(s) <=> index[s] \in LiveIndexes
<1>1. NoIndex.id = 0 /\ NoIndex.status = "none"
  BY DEF NoIndex
<1>2. \A x \in LiveIndexes : x.id \in 1 .. lastId /\ x.status # "none"
  BY DEF LiveIndexes
<1>3. \A x \in LiveIndexes : x # NoIndex
  BY <1>1, <1>2
<1> QED
  BY <1>1, <1>2, <1>3 DEF IdInv, Exists

(* One side is changed and keeps its id, or the row goes. *)
LEMMA IdOfSide ==
    ASSUME TypeInv, IdInv, NEW s \in Sides, lastId' = lastId, served' = served,
           \A t \in Sides \ {s} : index'[t] = index[t],
           \/ index'[s] = NoIndex
           \/ index'[s] = index[s]
           \/ /\ index[s] \in LiveIndexes
              /\ index'[s] \in LiveIndexes /\ index'[s].id = index[s].id
    PROVE  IdInv'
<1>1. \A t \in Sides : index'[t] = NoIndex \/ index'[t] \in LiveIndexes
  BY DEF IdInv
<1>2. LiveIndexes' = LiveIndexes
  BY DEF LiveIndexes
<1>3. NoIndex.id = 0 /\ \A x \in LiveIndexes : x.id \in 1 .. lastId
  BY LiveIndexIs
<1>4. index'["from"].id = index'["to"].id => index'["from"] = NoIndex
  <2> SUFFICES ASSUME index'["from"].id = index'["to"].id, index'["from"] # NoIndex
               PROVE  FALSE
    OBVIOUS
  <2>1. index'["from"] \in LiveIndexes
    BY <1>1 DEF Sides
  <2>2. index'["from"].id \in 1 .. lastId
    BY <1>3, <2>1
  <2>3. index'["to"] # NoIndex
    BY <1>3, <2>2
  <2>4. \A t \in Sides : index'[t] # NoIndex => index'[t].id = index[t].id
    OBVIOUS
  <2>5. index'["from"].id = index["from"].id /\ index'["to"].id = index["to"].id
    BY <2>3, <2>4 DEF Sides
  <2>6. index["from"] # NoIndex
    BY <1>3, <2>2, <2>5
  <2> QED BY <2>5, <2>6 DEF IdInv
<1> QED
  BY <1>1, <1>2, <1>4 DEF IdInv

(* A build has the id of the index it claimed, until it ends. *)
LEMMA BuiltStep ==
    ASSUME TypeInv, IdInv, BuiltInv, [Next]_vars
    PROVE  BuiltInv'
<1>1. build \in [Workers -> Builds] /\ lastId \in Nat /\ Running \subseteq Workers
  BY DEF TypeInv, Running
<1>2. ASSUME build' = build, lastId' \in {lastId, lastId + 1} PROVE BuiltInv'
  BY <1>1, <1>2 DEF BuiltInv, Running
<1>3. ASSUME NEW w \in Workers, lastId' = lastId,
             \A v \in Workers \ {w} : build'[v] = build[v],
             w \in Running' => build'[w].id \in 1 .. lastId
      PROVE  BuiltInv'
  BY <1>3 DEF BuiltInv, Running
<1>4. ASSUME NEW w \in Workers, Builder(w) PROVE BuiltInv'
  <2>1. lastId' = lastId
    BY <1>4, BuilderKeeps
  <2>2. ASSUME NEW s \in Sides, Claim(w, s) PROVE BuiltInv'
    <3> DEFINE new == [NoBuild EXCEPT !.step = "open", !.side = s, !.id = index[s].id,
                            !.first = catalog, !.since = Min(BuildsSince)]
    <3>1. build' = [build EXCEPT ![w] = new] /\ index[s].status = "pending"
      BY <2>2 DEF Claim
    <3>2. new.id = index[s].id
      BY DEF NoBuild
    <3> HIDE DEF new
    <3>3. index[s].id \in 1 .. lastId
      BY <3>1, LiveIndexIs DEF Exists
    <3>4. build'[w].id \in 1 .. lastId /\ \A v \in Workers \ {w} : build'[v] = build[v]
      BY <1>1, <3>1, <3>2, <3>3
    <3> QED BY <1>3, <2>1, <3>4
  <2>3. CASE \/ OpenBuild(w) \/ OpenPair(w) \/ LoadPair(w) \/ CheckFinish(w)
             \/ \E ref \in build[w].todo : BuildRow(w, ref)
    <3>1. w \in Running
      BY <2>3 DEF OpenBuild, OpenPair, LoadPair, CheckFinish, BuildRow, Running
    <3>2. /\ build'[w].id = build[w].id
          /\ \A v \in Workers \ {w} : build'[v] = build[v]
      <4>1. ASSUME NEW ref \in build[w].todo, BuildRow(w, ref)
            PROVE  /\ build'[w].id = build[w].id
                   /\ \A v \in Workers \ {w} : build'[v] = build[v]
        BY <1>1, <4>1 DEF BuildRow, BuildStep, Builds
      <4>2. ASSUME OpenBuild(w) \/ OpenPair(w) \/ CheckFinish(w)
            PROVE  /\ build'[w].id = build[w].id
                   /\ \A v \in Workers \ {w} : build'[v] = build[v]
        <5>1. CASE OpenBuild(w)
          BY <1>1, <5>1 DEF OpenBuild, BuildStep, Builds
        <5>2. CASE OpenPair(w)
          BY <1>1, <5>2 DEF OpenPair, BuildStep, Builds
        <5>3. CASE CheckFinish(w)
          BY <1>1, <5>3 DEF CheckFinish, BuildStep, Builds
        <5> QED BY <4>2, <5>1, <5>2, <5>3
      <4>3. ASSUME LoadPair(w)
            PROVE  /\ build'[w].id = build[w].id
                   /\ \A v \in Workers \ {w} : build'[v] = build[v]
        BY <1>1, <4>3 DEF LoadPair, BuildStep, Builds
      <4> QED
        BY <2>3, <4>1, <4>2, <4>3
    <3> QED BY <1>3, <2>1, <3>1, <3>2 DEF BuiltInv
  <2>4. CASE Publish(w) \/ StopBuild(w)
    <3>1. w \notin Running' /\ \A v \in Workers \ {w} : build'[v] = build[v]
      BY <1>1, <2>4 DEF Publish, StopBuild, BuildStep, Running, NoBuild
    <3> QED BY <1>3, <2>1, <3>1
  <2>5. ASSUME NEW m \in mappings, ClearMapping(w, m) PROVE BuiltInv'
    <3>1. build' = build
      BY <2>5 DEF ClearMapping
    <3> QED BY <1>2, <2>1, <3>1
  <2> QED
    BY <1>4, <2>2, <2>3, <2>4, <2>5 DEF Builder
<1>5. ASSUME NEW s \in Sides, Edit(s) \/ Requeue(s) \/ CreateIndex(s) \/ DropIndex(s)
      PROVE  BuiltInv'
  BY <1>2, <1>5 DEF Edit, Requeue, CreateIndex, DropIndex
<1>6. ASSUME NEW m \in mappings, ReclaimRow(m) PROVE BuiltInv'
  BY <1>2, <1>6 DEF ReclaimRow
<1>7. CASE EditFurther \/ Reader \/ UNCHANGED vars
  <2>1. build' = build /\ lastId' = lastId
    BY <1>7, ReaderKeeps DEF EditFurther, vars, indexVars
  <2> QED BY <1>2, <2>1
<1> QED
  BY <1>4, <1>5, <1>6, <1>7 DEF Next, Writers

LEMMA IdStep ==
    ASSUME TypeInv, IdInv, BuiltInv, [Next]_vars
    PROVE  IdInv'
<1>1. /\ index \in [Sides -> Indexes] /\ build \in [Workers -> Builds]
      /\ lastId \in 2 .. MaxIds /\ MaxIds \in Nat
  BY MaxAssumption DEF TypeInv, IdInv
<1>2. ASSUME UNCHANGED <<index, lastId, served>> PROVE IdInv'
  BY <1>2 DEF IdInv, LiveIndexes
<1>3. ASSUME NEW s \in Sides, Edit(s) \/ Requeue(s) PROVE IdInv'
  <2>1. index' = Queued(s) /\ UNCHANGED <<lastId, served>>
    BY <1>3 DEF Edit, Requeue, readerVars
  <2>2. \A t \in Sides \ {s} : index'[t] = index[t]
    BY <2>1, QueuedType
  <2>3. CASE Exists(s)
    <3>1. index' = [index EXCEPT ![s].status = "pending"]
      BY <2>1, <2>3 DEF Queued
    <3>2. index[s] \in LiveIndexes
      BY <2>3, LiveIndexIs
    <3>3. index'[s] \in LiveIndexes /\ index'[s].id = index[s].id
      BY <1>1, <3>1, <3>2 DEF LiveIndexes
    <3> QED BY <2>1, <2>2, <3>2, <3>3, IdOfSide
  <2>4. CASE ~ Exists(s)
    <3>1. index' = index
      BY <2>1, <2>4, QueuedType
    <3> QED BY <1>2, <2>1, <3>1
  <2> QED BY <2>3, <2>4
<1>4. ASSUME NEW s \in Sides, CreateIndex(s) PROVE IdInv'
  <2>1. /\ lastId' = lastId + 1 /\ lastId < MaxIds /\ served' = served
        /\ index' = [index EXCEPT ![s] =
                        [id |-> lastId', status |-> "pending", floor |-> 0]]
    BY <1>4 DEF CreateIndex, readerVars
  <2>2. index'[s] \in LiveIndexes' /\ index'[s].id = lastId + 1
    BY <1>1, <2>1 DEF LiveIndexes
  <2>3. ASSUME NEW t \in Sides \ {s}
        PROVE  /\ index'[t] = index[t] /\ index[t].id # lastId + 1
               /\ index[t] = NoIndex \/ index[t] \in LiveIndexes'
    <3>1. index'[t] = index[t]
      BY <1>1, <2>1, <2>3
    <3>2. CASE index[t] = NoIndex
      BY <1>1, <3>1, <3>2 DEF NoIndex
    <3>3. CASE index[t] # NoIndex
      <4>1. index[t] \in LiveIndexes
        BY <2>3, <3>3 DEF IdInv
      <4> QED BY <1>1, <2>1, <3>1, <4>1 DEF LiveIndexes
    <3> QED BY <3>2, <3>3
  <2>4. lastId' \in 2 .. MaxIds
    BY <1>1, <2>1
  <2>5. \A t \in Sides : index'[t] = NoIndex \/ index'[t] \in LiveIndexes'
    BY <2>2, <2>3
  <2>6. index'["from"].id # index'["to"].id
    BY <2>2, <2>3 DEF Sides
  <2>7. served' \in 0 .. MaxRequests
    BY <2>1 DEF IdInv
  <2> QED
    BY <2>4, <2>5, <2>6, <2>7 DEF IdInv
<1>5. ASSUME NEW s \in Sides, DropIndex(s) PROVE IdInv'
  <2>1. UNCHANGED <<lastId, served>> /\ index' = [index EXCEPT ![s] = NoIndex]
    BY <1>5 DEF DropIndex, readerVars
  <2> QED BY <1>1, <2>1, IdOfSide
<1>6. ASSUME NEW w \in Workers, NEW s \in Sides, Claim(w, s) PROVE IdInv'
  <2> DEFINE since == Min(BuildsSince)
  <2>1. /\ UNCHANGED <<lastId, served>> /\ index[s].status = "pending"
        /\ index' = [index EXCEPT ![s].status = "building", ![s].floor = since]
    BY <1>6 DEF Claim, readerVars
  <2>2. since \in Nat
    BY SinceIs
  <2> HIDE DEF since
  <2>3. index[s] \in LiveIndexes
    BY <2>1, LiveIndexIs DEF Exists
  <2>4. index'[s] \in LiveIndexes /\ index'[s].id = index[s].id
    BY <1>1, <2>1, <2>2, <2>3 DEF LiveIndexes
  <2>5. \A t \in Sides \ {s} : index'[t] = index[t]
    BY <1>1, <2>1
  <2> QED BY <2>1, <2>3, <2>4, <2>5, IdOfSide
<1>7. ASSUME NEW w \in Workers, Publish(w) PROVE IdInv'
  <2> DEFINE s == build[w].side
  <2>1. /\ UNCHANGED <<lastId, served>> /\ s \in Sides /\ build[w].step = "publish"
        /\ index' = [index EXCEPT ![s].status = "ready"]
        /\ index[s].id = build[w].id
    BY <1>1, <1>7 DEF Publish, readerVars, Builds
  <2> HIDE DEF s
  <2>2. CASE index[s] \in LiveIndexes
    <3>1. index'[s] \in LiveIndexes /\ index'[s].id = index[s].id
      BY <1>1, <2>1, <2>2 DEF LiveIndexes
    <3> QED BY <1>1, <2>1, <2>2, <3>1, IdOfSide
  <2>3. index[s] # NoIndex
    <3>1. w \in Running
      BY <2>1 DEF Running
    <3>2. index[s].id \in 1 .. lastId
      BY <2>1, <3>1 DEF BuiltInv
    <3> QED BY <1>1, <3>2, LiveIndexIs
  <2> QED BY <2>1, <2>2, <2>3 DEF IdInv
<1>8. ASSUME NEW m \in mappings, ReclaimRow(m) PROVE IdInv'
  BY <1>2, <1>8 DEF ReclaimRow, readerVars
<1>9. ASSUME NEW w \in Workers, Builder(w), ~ Publish(w),
             ~ \E s \in Sides : Claim(w, s)
      PROVE  IdInv'
  <2>1. index' = index
    BY <1>9 DEF Builder, OpenBuild, OpenPair, LoadPair, CheckFinish, StopBuild,
                ClearMapping, BuildRow, BuildStep
  <2> QED
    BY <1>2, <1>9, <2>1, BuilderKeeps
<1>10. CASE EditFurther \/ UNCHANGED vars
  BY <1>2, <1>10 DEF EditFurther, readerVars, vars, indexVars
<1>11. ASSUME NEW req \in Requests, Receive(req) PROVE IdInv'
  <2>1. served' = served + 1 /\ served < MaxRequests /\ UNCHANGED <<index, lastId>>
    BY <1>11 DEF Receive, indexVars
  <2>2. served' \in 0 .. MaxRequests
    BY <2>1, MaxAssumption DEF IdInv
  <2> QED
    BY <2>1, <2>2 DEF IdInv, LiveIndexes
<1>12. CASE RefuseBatch \/ Prepare \/ Expand \/ FindSource \/ FindTarget
               \/ LoadPayloads \/ ResolveEntry \/ RespondBatch
  BY <1>2, <1>12 DEF RefuseBatch, Prepare, Expand, FindSource, FindTarget,
                     LoadPayloads, ResolveEntry, RespondBatch, Reply, Step, indexVars
<1>13. CASE Writers
  BY <1>3, <1>4, <1>5, <1>6, <1>7, <1>8, <1>9, <1>10, <1>13 DEF Writers
<1>14. CASE Reader
  BY <1>11, <1>12, <1>14 DEF Reader
<1> QED
  BY <1>10, <1>13, <1>14 DEF Next

LEMMA TypeOKFollows == Inv /\ IdInv => TypeOK
<1> SUFFICES ASSUME Inv, IdInv PROVE TypeOK
  OBVIOUS
<1>1. TypeInv /\ TimeInv /\ catalog \in Nat /\ catalog \in Versions
  BY CatalogIsNat DEF Inv, TypeInv
<1>2. \A m \in mappings : /\ m.first \in 0 .. m.last /\ m.last \in 0 .. catalog
                          /\ m.ref.kind = "verse"
  <2>1. \A m \in mappings : m.first \in Nat /\ m.last \in Nat /\ m.ref \in Stored
    BY <1>1 DEF TypeInv, Rows
  <2>2. \A r \in Stored : r.kind = "verse"
    BY DEF Stored, Verse
  <2>3. \A m \in mappings : m.first <= m.last /\ m.last <= catalog
    BY <1>1 DEF TimeInv
  <2> QED
    BY <1>1, <2>1, <2>2, <2>3
<1>3. \A w \in Workers :
            /\ build[w].side \in Sides /\ build[w].since \in 0 .. build[w].first
            /\ build[w].step \in {"idle", "open", "clear", "pair", "rows", "publish"}
  BY <1>1 DEF TypeInv, TimeInv, Builds, BuildSteps
<1>4. \A s \in Sides :
            \/ index[s] = NoIndex
            \/ index[s] \in [id : 1 .. lastId, floor : 0 .. catalog,
                             status : {"pending", "building", "ready"}]
  <2>1. ASSUME NEW s \in Sides, index[s] \in LiveIndexes
        PROVE  index[s] \in [id : 1 .. lastId, floor : 0 .. catalog,
                             status : {"pending", "building", "ready"}]
    <3>1. index[s].floor <= catalog /\ index[s].floor \in Nat
      BY <1>1, <2>1 DEF TimeInv, LiveIndexes
    <3> QED
      BY <1>1, <2>1, <3>1 DEF LiveIndexes
  <2> QED
    BY <2>1 DEF IdInv
<1>5. ASSUME call # NoCall
      PROVE  /\ call.req \in Requests /\ call.since \in 0 .. catalog
             /\ call.pc \in {"prepare", "expand", "find", "find target", "load",
                            "resolve"}
             /\ Len(call.entries) <= Len(call.refs)
  <2>1. call \in Calls
    BY <1>1, <1>5, CallKinds
  <2>2. call.since \in Nat /\ call.first \in Nat
    BY <2>1 DEF Calls
  <2>3. call.since <= call.first /\ call.first <= catalog
    BY <1>5 DEF Inv, ReadInv
  <2>4. call.since \in 0 .. catalog
    BY <1>1, <2>2, <2>3
  <2>5. Len(call.entries) <= Len(call.refs)
    BY <1>5 DEF Inv, AnswerInv
  <2> QED
    BY <2>1, <2>4, <2>5 DEF Calls, Steps
<1> QED
  BY <1>1, <1>2, <1>3, <1>4, <1>5 DEF TypeOK, IdInv

(* The state keeps its shape: no id names two indexes, no row is of a        *)
(* version to come, no request has more entries than members.               *)
THEOREM TypeCorrect == Spec => []TypeOK
<1>1. Init => IdInv /\ BuiltInv
  BY IdStart
<1>2. Inv /\ IdInv /\ BuiltInv /\ [Next]_vars => IdInv' /\ BuiltInv'
  BY IdStep, BuiltStep DEF Inv
<1>3. Spec => []Inv
  BY InvHolds
<1>4. Inv /\ IdInv => TypeOK
  BY TypeOKFollows
<1> QED
  BY <1>1, <1>2, <1>3, <1>4, PTL DEF Spec
====
