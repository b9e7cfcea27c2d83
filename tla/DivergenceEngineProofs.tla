------------------------ MODULE DivergenceEngineProofs ------------------------
(* The properties of a divergence report, for any two sides and any root: no  *)
(* verse is left out (NoVerseIsLeftOut), the inversions are the fewest there  *)
(* could be (InversionsStayFewest), the events tell every relation that       *)
(* differs once (DivergencesAreReported), the runs every relation once        *)
(* (RunsAreDecoded), a side differs from itself in nothing                    *)
(* (SelfComparisonStaysSilent).  The invariant EngineInv says of every stage   *)
(* what it leaves the next one; the work is in what a stage computes: groups  *)
(* are parts of the relations (GroupsAre), folding a book takes what it       *)
(* counts and no more (BookTakesOver), a row is a stretch of verses on every  *)
(* axis (RowsCover).                                                          *)
EXTENDS DivergenceEngine, DivergenceRelationProofs, SequenceTheorems

-----------------------------------------------------------------------------
(* NoVerseLost, of any relations that are those of the schemes. *)
LEMMA NoVerseIsLost ==
    ASSUME SchemeOK(A), SchemeOK(B), relations = compose_schemes(A, B, org)
    PROVE  NoVerseLost
<1> DEFINE LA == UNION {r.A : r \in relations}
           LB == UNION {r.B : r \in relations}
<1>1. /\ \A x \in verses(A) : \/ \E s \in relations : x \in s.A
                              \/ Replaced(relations, A, B, org, x, "A")
      /\ \A x \in verses(B) : \/ \E s \in relations : x \in s.B
                              \/ Replaced(relations, B, A, org, x, "B")
  BY ComposedLosesNone
<1>2. ASSUME NEW x \in verses(A) \ LA PROVE LeftOver(A, B, LB, x)
  <2>1. Replaced(relations, A, B, org, x, "A")
    BY <1>1, <1>2
  <2>2. PICK s \in relations :
          /\ {} \notin {s.A, s.B} /\ s.O \cap OrgOf(A, org, x) # {}
          /\ \A y \in verses(B) : OrgOf(B, org, y) \cap s.O # {} =>
                  y[1] # x[1] /\ \E t \in relations : y \in t.B
    BY <2>1 DEF Replaced
  <2>3. \A y \in verses(B) : OrgOf(B, org, y) \cap s.O # {} => y[1] # x[1] /\ y \in LB
    BY <2>2
  <2> HIDE DEF LB
  <2> QED
    BY <2>2, <2>3 DEF LeftOver
<1>3. ASSUME NEW x \in verses(B) \ LB PROVE LeftOver(B, A, LA, x)
  <2>1. Replaced(relations, B, A, org, x, "B")
    BY <1>1, <1>3
  <2>2. PICK s \in relations :
          /\ {} \notin {s.A, s.B} /\ s.O \cap OrgOf(B, org, x) # {}
          /\ \A y \in verses(A) : OrgOf(A, org, y) \cap s.O # {} =>
                  y[1] # x[1] /\ \E t \in relations : y \in t.A
    BY <2>1 DEF Replaced
  <2>3. \A y \in verses(A) : OrgOf(A, org, y) \cap s.O # {} => y[1] # x[1] /\ y \in LA
    BY <2>2
  <2> HIDE DEF LA
  <2> QED
    BY <2>2, <2>3 DEF LeftOver
<1> QED
  BY <1>2, <1>3 DEF NoVerseLost, Listed

-----------------------------------------------------------------------------
(* --- The backbone of a book --- *)

(* A relation off the backbone is off that of its own book. *)
LEMMA OffItsBook ==
    ASSUME NEW first, Bedded(first), Present(first), NEW k \in {FirstA(r)[1] : r \in Paired(first)}
    PROVE  Off(first) \cap BookOf(first, k) = Inverted(OfBook(first, k))
<1> DEFINE In(j) == Inverted(OfBook(first, j))
<1>1. ASSUME NEW j PROVE In(j) \subseteq BookOf(first, j)
  <2> DEFINE S == BookOf(first, j)
             seq == OfBook(first, j)
  <2>1. S \subseteq Paired(first) /\ seq = ByFirstA(S)
    BY DEF BookOf, OfBook
  <2> HIDE DEF S, seq
  <2>2. Lists(seq, S, Sooner(S, KeyA(S)), Cardinality(S))
    BY <2>1, ByFirstALists
  <2>3. DOMAIN seq = 1 .. Cardinality(S) /\ \A i \in DOMAIN seq : seq[i] \in S
    BY <2>2 DEF Lists
  <2>4. Inverted(seq) \subseteq S
    BY <2>3 DEF Inverted
  <2> QED
    BY <2>4 DEF S, seq
<1>2. Off(first) = UNION {In(j) : j \in {FirstA(r)[1] : r \in Paired(first)}}
  BY DEF Off
<1> HIDE DEF In
<1>3. ASSUME NEW r \in Off(first), r \in BookOf(first, k) PROVE r \in In(k)
  <2>1. PICK j : r \in In(j)
    BY <1>2
  <2>2. j = k
    BY <1>1, <1>3, <2>1 DEF BookOf
  <2> QED
    BY <2>1, <2>2
<1>4. In(k) \subseteq Off(first)
  BY <1>2
<1> QED
  BY <1>1, <1>3, <1>4 DEF In

(* The relations of a book in order, and the places that stay. *)
Backbone(seq, S, n, keep) ==
    /\ n \in Nat /\ n = Cardinality(S) /\ keep \subseteq 1 .. n
    /\ seq \in [1 .. n -> S]
    /\ \A x \in S : \E i \in 1 .. n : seq[i] = x
    /\ \A i, j \in 1 .. n : seq[i] = seq[j] => i = j
    /\ \A i, j \in 1 .. n : i < j =>
            \/ Before(FirstA(seq[i]), FirstA(seq[j]))
            \/ /\ FirstA(seq[i]) = FirstA(seq[j])
               /\ Before(FirstOf(seq[i].Bp), FirstOf(seq[j].Bp))
    /\ \A i, j \in keep : i < j => ~ Before(FirstOf(seq[j].Bp), FirstOf(seq[i].Bp))
    /\ \A I \in SUBSET (1 .. n) :
            (\A i, j \in I : i < j => ~ Before(FirstOf(seq[j].Bp), FirstOf(seq[i].Bp)))
                => Cardinality(I) <= Cardinality(keep)
    /\ Inverted(seq) = {seq[i] : i \in (1 .. n) \ keep}

(* The backbone of a book is a longest sequence of its relations that is in   *)
(* order on both sides.                                                       *)
LEMMA BackboneIs ==
    ASSUME NEW rs, Bedded(rs), Present(rs), NEW k
    PROVE  \E keep : Backbone(OfBook(rs, k), BookOf(rs, k), Cardinality(BookOf(rs, k)), keep)
<1> DEFINE S == BookOf(rs, k)
           seq == OfBook(rs, k)
           n == Cardinality(S)
           vals == [i \in DOMAIN seq |-> FirstOf(seq[i].Bp)]
           keep == _lis_keep(vals)
<1>1. S \subseteq Paired(rs) /\ seq = ByFirstA(S)
  BY DEF BookOf, OfBook
<1> HIDE DEF S, seq
<1>2. Lists(seq, S, Sooner(S, KeyA(S)), n)
  BY <1>1, ByFirstALists
<1>3. /\ n \in Nat /\ seq \in [1 .. n -> S] /\ Len(seq) = n
      /\ \A x \in S : \E i \in 1 .. n : seq[i] = x
      /\ \A i, j \in 1 .. n : i < j => <<seq[i], seq[j]>> \in Sooner(S, KeyA(S))
      /\ \A i, j \in 1 .. n : seq[i] = seq[j] => i = j
  BY <1>2 DEF Lists
<1> HIDE DEF n
<1>4. DOMAIN seq = 1 .. n
  BY <1>3
<1>5. \A i \in 1 .. n : seq[i] \in Paired(rs) /\ FirstOf(seq[i].Bp) \in Verse
  <2> TAKE i \in 1 .. n
  <2>1. seq[i] \in Paired(rs)
    BY <1>1, <1>3
  <2> QED
    BY <2>1, PresentHave
<1>6. vals \in [1 .. n -> Verse] /\ \A i \in 1 .. n : vals[i] = FirstOf(seq[i].Bp)
  BY <1>4, <1>5
<1>7. vals \in Seq(Verse) /\ Len(vals) = n
  <2> HIDE DEF vals
  <2> QED
    BY <1>3, <1>6, NumberedIsSeq
<1> HIDE DEF vals
<1>8. /\ keep \subseteq 1 .. n /\ Rising(keep, vals)
      /\ \A I \in SUBSET (1 .. n) : Rising(I, vals) => Cardinality(I) <= Cardinality(keep)
  BY <1>3, <1>6, <1>7, KeepIsLongest
<1>9. Inverted(seq) = {seq[i] : i \in (1 .. n) \ keep}
  BY <1>4 DEF Inverted, vals
<1> HIDE DEF keep
<1>10. \A i, j \in keep : i < j => ~ Before(FirstOf(seq[j].Bp), FirstOf(seq[i].Bp))
  BY <1>6, <1>8 DEF Rising, NotAfter
<1>11. ASSUME NEW I \in SUBSET (1 .. n),
              \A i, j \in I : i < j => ~ Before(FirstOf(seq[j].Bp), FirstOf(seq[i].Bp))
       PROVE  Cardinality(I) <= Cardinality(keep)
  <2>1. Rising(I, vals)
    BY <1>6, <1>11 DEF Rising, NotAfter
  <2> QED
    BY <1>8, <2>1
<1>12. ASSUME NEW i \in 1 .. n, NEW j \in 1 .. n, i < j
       PROVE  \/ Before(FirstA(seq[i]), FirstA(seq[j]))
              \/ /\ FirstA(seq[i]) = FirstA(seq[j])
                 /\ Before(FirstOf(seq[i].Bp), FirstOf(seq[j].Bp))
  <2>1. /\ seq[i] \in S /\ seq[j] \in S /\ seq[i] # seq[j]
        /\ <<seq[i], seq[j]>> \in Sooner(S, KeyA(S))
    BY <1>3, <1>12
  <2> QED
    BY <1>1, <2>1, SoonerByA
<1>13. Backbone(seq, S, n, keep)
  BY <1>3, <1>8, <1>9, <1>10, <1>11, <1>12 DEF Backbone, n
<1> QED
  BY <1>13 DEF seq, S, n
-----------------------------------------------------------------------------
(* The relations of a book, after classify marked those off the backbone. *)
LEMMA MarkedBook ==
    ASSUME NEW first, NEW m, Marks(m, first), NEW R, R = classify(first), NEW k
    PROVE  /\ \A r \in BookOf(first, k) : m[r] \in BookOf(R, k)
           /\ \A q \in BookOf(R, k) : \E r \in BookOf(first, k) : q = m[r]
<1>1. \A r \in first : m[r] \in R /\ Like(m[r], r)
  BY DEF Marks
<1>2. \A q \in R : \E r \in first : q = m[r]
  BY DEF Marks
<1>3. \A r \in first : m[r] \in BookOf(R, k) <=> r \in BookOf(first, k)
  BY <1>1 DEF BookOf, Paired, Like, FirstA
<1>4. \A q \in BookOf(R, k) : q \in R
  BY DEF BookOf, Paired
<1>5. \A r \in BookOf(first, k) : r \in first
  BY DEF BookOf, Paired
<1> QED
  BY <1>2, <1>3, <1>4, <1>5

(* No choice of inversions is smaller, in a book. *)
LEMMA BookIsFewest ==
    ASSUME NEW first, Bedded(first), Present(first),
           \A r \in first : r.type # "ORDER_INVERSION",
           NEW m, Marks(m, first), NEW R, R = classify(first), Bedded(R), Present(R),
           NEW k \in {FirstA(r)[1] : r \in Paired(R)}, NEW of, of = BookOf(R, k),
           NEW kept, kept = {r \in of : r.type # "ORDER_INVERSION"}
    PROVE  /\ Ascending(kept)
           /\ \A rs \in SUBSET of : Ascending(rs) => Cardinality(rs) <= Cardinality(kept)
<1> DEFINE S == BookOf(first, k)
           seq == OfBook(first, k)
           n == Cardinality(S)
<1>1. PICK keep : Backbone(seq, S, n, keep)
  BY BackboneIs
<1>2. k \in {FirstA(r)[1] : r \in Paired(first)}
  <2>1. PICK q \in Paired(R) : FirstA(q)[1] = k
    OBVIOUS
  <2>2. q \in BookOf(R, k)
    BY <2>1 DEF BookOf
  <2>3. PICK r \in BookOf(first, k) : q = m[r]
    BY <2>2, MarkedBook
  <2> QED
    BY <2>3 DEF BookOf
<1>3. Off(first) \cap S = Inverted(seq)
  BY <1>2, OffItsBook
<1>4. /\ \A r \in S : m[r] \in of
      /\ \A q \in of : \E r \in S : q = m[r]
  BY MarkedBook
<1>5. S \subseteq first
  BY DEF BookOf, Paired
<1> HIDE DEF S, seq, n
<1>6. /\ n \in Nat /\ n = Cardinality(S) /\ keep \subseteq 1 .. n
      /\ seq \in [1 .. n -> S]
      /\ \A x \in S : \E i \in 1 .. n : seq[i] = x
      /\ \A i, j \in 1 .. n : seq[i] = seq[j] => i = j
      /\ \A i, j \in keep : i < j => ~ Before(FirstOf(seq[j].Bp), FirstOf(seq[i].Bp))
      /\ \A i, j \in 1 .. n : i < j =>
            \/ Before(FirstA(seq[i]), FirstA(seq[j]))
            \/ /\ FirstA(seq[i]) = FirstA(seq[j])
               /\ Before(FirstOf(seq[i].Bp), FirstOf(seq[j].Bp))
  BY <1>1 DEF Backbone
<1>7. \A I \in SUBSET (1 .. n) :
            (\A i, j \in I : i < j => ~ Before(FirstOf(seq[j].Bp), FirstOf(seq[i].Bp)))
                => Cardinality(I) <= Cardinality(keep)
  BY <1>1 DEF Backbone
<1>8. \A i \in 1 .. n : seq[i] \in Off(first) <=> i \notin keep
  <2>1. Inverted(seq) = {seq[i] : i \in (1 .. n) \ keep}
    BY <1>1 DEF Backbone
  <2> QED
    BY <1>3, <1>6, <2>1
<1> DEFINE g(i) == m[seq[i]]
<1>9. ASSUME NEW i \in 1 .. n
      PROVE  /\ g(i) \in of /\ FirstA(g(i)) = FirstA(seq[i])
             /\ FirstOf(g(i).Bp) = FirstOf(seq[i].Bp)
             /\ g(i).type # "ORDER_INVERSION" <=> i \in keep
  <2>1. seq[i] \in S /\ seq[i] \in first
    BY <1>5, <1>6
  <2>2. /\ Like(m[seq[i]], seq[i])
        /\ seq[i] \notin Off(first) => m[seq[i]] = seq[i]
        /\ seq[i] \in Off(first) => m[seq[i]].type = "ORDER_INVERSION"
    BY <2>1 DEF Marks
  <2>3. seq[i].type # "ORDER_INVERSION"
    BY <2>1
  <2> QED
    BY <1>4, <1>8, <2>1, <2>2, <2>3 DEF Like, FirstA
<1>10. \A i, j \in 1 .. n : g(i) = g(j) => i = j
  <2>1. \A r, s \in first : m[r] = m[s] => r = s
    BY DEF Marks
  <2> QED
    BY <1>5, <1>6, <2>1
<1>11. \A q \in of : \E i \in 1 .. n : q = g(i)
  BY <1>4, <1>6
<1>12. /\ \A i \in 1 .. n : FirstA(g(i)) \in Verse /\ FirstOf(g(i).Bp) \in Verse
       /\ IsFiniteSet(of)
  <2>1. \A i \in 1 .. n : g(i) \in Paired(R)
    BY <1>9 DEF BookOf
  <2>2. IsFiniteSet(R) /\ of \subseteq R
    BY DEF BookOf, Paired, Bedded
  <2> HIDE DEF g
  <2>3. IsFiniteSet(of)
    BY <2>2, FS_Subset
  <2> QED
    BY <2>1, <2>3, PresentHave
<1> HIDE DEF g
<1>13. ASSUME NEW x \in kept, NEW y \in kept, Before(FirstA(x), FirstA(y))
       PROVE  ~ Before(FirstOf(y.Bp), FirstOf(x.Bp))
  <2>1. PICK i \in 1 .. n : x = g(i)
    BY <1>11
  <2>2. PICK j \in 1 .. n : y = g(j)
    BY <1>11
  <2>3. i \in keep /\ j \in keep
    BY <1>9, <2>1, <2>2
  <2>4. ~ (j < i) /\ i # j
    <3>1. Before(FirstA(seq[i]), FirstA(seq[j]))
      BY <1>9, <1>13, <2>1, <2>2
    <3>2. FirstA(seq[i]) \in Verse /\ FirstA(seq[j]) \in Verse
      BY <1>9, <1>12
    <3>3. ~ Before(FirstA(seq[j]), FirstA(seq[i])) /\ FirstA(seq[j]) # FirstA(seq[i])
      BY <3>1, <3>2, VerseOrder
    <3> QED
      BY <1>6, <3>3
  <2>5. i < j
    BY <2>4
  <2>6. ~ Before(FirstOf(seq[j].Bp), FirstOf(seq[i].Bp))
    BY <1>6, <2>3, <2>5
  <2> QED
    BY <1>9, <2>1, <2>2, <2>6
<1>14. ASSUME NEW rs \in SUBSET of, Ascending(rs)
       PROVE  Cardinality(rs) <= Cardinality(kept)
  <2> DEFINE I == {i \in 1 .. n : g(i) \in rs}
             f == [i \in 1 .. n |-> g(i)]
  <2>0. IsFiniteSet(1 .. n)
    <3>1. 1 \in Int /\ n \in Int
      BY <1>6
    <3> QED
      BY <3>1, FS_Interval
  <2>1. ASSUME NEW i \in I, NEW j \in I, i < j
        PROVE  ~ Before(FirstOf(seq[j].Bp), FirstOf(seq[i].Bp))
    <3>1. CASE Before(FirstA(seq[i]), FirstA(seq[j]))
      <4>1. Before(FirstA(g(i)), FirstA(g(j)))
        BY <1>9, <3>1
      <4>2. ~ Before(FirstOf(g(j).Bp), FirstOf(g(i).Bp))
        BY <1>14, <4>1 DEF Ascending
      <4> QED
        BY <1>9, <4>2
    <3>2. CASE Before(FirstOf(seq[i].Bp), FirstOf(seq[j].Bp))
      <4>1. FirstOf(seq[i].Bp) \in Verse /\ FirstOf(seq[j].Bp) \in Verse
        BY <1>9, <1>12
      <4> QED
        BY <3>2, <4>1, VerseOrder
    <3> QED
      BY <1>6, <2>1, <3>1, <3>2
  <2>2. I \in SUBSET (1 .. n) /\ IsFiniteSet(I)
    BY <2>0, FS_Subset
  <2>3. Cardinality(I) <= Cardinality(keep)
    BY <1>7, <2>1, <2>2
  <2>4. \A x \in rs : \E i \in I : x = f[i]
    BY <1>11
  <2>5. \A i \in keep : f[i] \in kept
    BY <1>6, <1>9
  <2>6. \A i, j \in keep : f[i] = f[j] => i = j
    BY <1>6, <1>10
  <2>7. IsFiniteSet(kept)
    BY <1>12, FS_Subset
  <2> HIDE DEF I, f
  <2>8. Cardinality(rs) <= Cardinality(I)
    BY <2>2, <2>4, ImageIsFinite
  <2>9. IsFiniteSet(keep) /\ Cardinality(keep) <= Cardinality(kept)
    BY <2>5, <2>6, <2>7, InjectionCounts
  <2>10. IsFiniteSet(rs)
    BY <1>12, FS_Subset
  <2>11. /\ Cardinality(rs) \in Nat /\ Cardinality(I) \in Nat /\ Cardinality(keep) \in Nat
         /\ Cardinality(kept) \in Nat
    BY <2>2, <2>7, <2>9, <2>10, FS_CardinalityType
  <2> QED
    BY <2>3, <2>8, <2>9, <2>11
<1> QED
  BY <1>13, <1>14 DEF Ascending

(* InversionsAreFewest, of any relations that are those of the schemes. *)
LEMMA InversionsFew ==
    ASSUME SchemeOK(A), SchemeOK(B), relations = compose_schemes(A, B, org)
    PROVE  InversionsAreFewest
<1> DEFINE F == FirstPass(A, B, org)
<1>1. PICK m : Marks(m, F)
  BY ComposedIs
<1>2. Bedded(F) /\ \A q \in F : PassHas(q, A, B) /\ TypeFits(q)
  BY FirstPassIs
<1>3. Related(relations, A, B)
  BY ComposedIs
<1>4. relations = classify(F)
  BY DEF compose_schemes
<1> HIDE DEF F
<1>5. Present(F)
  BY <1>2, PassIsPresent
<1>6. \A r \in F : r.type # "ORDER_INVERSION"
  <2> TAKE r \in F
  <2>1. TypeFits(r)
    BY <1>2
  <2>2. (r.Ap = {} /\ r.Bp = {}) \/ (r.Ap # {} /\ r.Bp # {}) \/ (r.Ap = {}) # (r.Bp = {})
    OBVIOUS
  <2> QED
    BY <2>1, <2>2 DEF TypeFits, PASSTYPES, Same
<1>7. ASSUME NEW k \in {FirstA(r)[1] : r \in Paired(relations)},
             NEW of, of = ToSet(OfBook(relations, k)),
             NEW kept, kept = {r \in of : r.type # "ORDER_INVERSION"}
      PROVE  /\ Ascending(kept)
             /\ \A rs \in SUBSET of : Ascending(rs) => Cardinality(rs) <= Cardinality(kept)
  <2> DEFINE S == BookOf(relations, k)
             seq == OfBook(relations, k)
  <2>1. S \subseteq Paired(relations) /\ seq = ByFirstA(S)
    BY DEF BookOf, OfBook
  <2> HIDE DEF S, seq
  <2>2. Lists(seq, S, Sooner(S, KeyA(S)), Cardinality(S))
    BY <1>3, <2>1, ByFirstALists DEF Related
  <2>3. ToSet(seq) = S
    BY <2>2 DEF Lists, ToSet
  <2>4. of = BookOf(relations, k)
    BY <1>7, <2>3 DEF S, seq
  <2> QED
    BY <1>1, <1>2, <1>3, <1>4, <1>5, <1>6, <1>7, <2>4, BookIsFewest DEF Related
<1> QED
  BY <1>7 DEF InversionsAreFewest

-----------------------------------------------------------------------------
(* --- Groups --- *)

(* The first k of a sequence of different things, as l sets of one kind each. *)
Parted(P, l, seq, k, kind) ==
    /\ l \in Nat
    /\ \A g \in 1 .. l : P[g] # {}
    /\ \A g \in 1 .. l : \A x \in P[g] : \E i \in 1 .. k : seq[i] = x
    /\ \A g \in 1 .. l : \A x, y \in P[g] : kind[x] = kind[y]
    /\ \A i \in 1 .. k : \E g \in 1 .. l : seq[i] \in P[g]
    /\ \A g, h \in 1 .. l : g # h => P[g] \cap P[h] = {}
    /\ k > 0 => l > 0 /\ seq[k] \in P[l]

(* The last set takes one more. *)
LEMMA JoinParts ==
    ASSUME NEW S, NEW n \in Nat, NEW seq \in [1 .. n -> S], NEW kind, NEW k \in 1 .. n,
           \A i, j \in 1 .. n : seq[i] = seq[j] => i = j,
           k > 1, kind[seq[k - 1]] = kind[seq[k]],
           NEW P, NEW l, Parted(P, l, seq, k - 1, kind),
           NEW Q, Q[l] = P[l] \cup {seq[k]}, \A g \in 1 .. l : g # l => Q[g] = P[g]
    PROVE  Parted(Q, l, seq, k, kind)
<1>1. /\ l \in Nat /\ l > 0 /\ l \in 1 .. l /\ seq[k - 1] \in P[l]
      /\ \A g \in 1 .. l : P[g] # {}
      /\ \A g \in 1 .. l : \A x \in P[g] : \E i \in 1 .. k - 1 : seq[i] = x
      /\ \A g \in 1 .. l : \A x, y \in P[g] : kind[x] = kind[y]
      /\ \A i \in 1 .. k - 1 : \E g \in 1 .. l : seq[i] \in P[g]
      /\ \A g, h \in 1 .. l : g # h => P[g] \cap P[h] = {}
  <2>1. k - 1 > 0
    OBVIOUS
  <2>2. l \in Nat /\ l > 0 /\ seq[k - 1] \in P[l]
    BY <2>1 DEF Parted
  <2>3. l \in 1 .. l
    BY <2>2
  <2> QED
    BY <2>2, <2>3 DEF Parted
<1>2. /\ \A i \in 1 .. k - 1 : i \in 1 .. k /\ i \in 1 .. n /\ i # k
      /\ \A i \in 1 .. k : i = k \/ i \in 1 .. k - 1
      /\ k \in 1 .. k
  OBVIOUS
<1>3. \A g \in 1 .. l : \A x \in Q[g] : x \in P[g] \/ (g = l /\ x = seq[k])
  <2> TAKE g \in 1 .. l
  <2>1. CASE g = l
    BY <2>1
  <2>2. CASE g # l
    BY <2>2
  <2> QED
    BY <2>1, <2>2
<1>4. \A g \in 1 .. l : P[g] \subseteq Q[g]
  <2> TAKE g \in 1 .. l
  <2>1. CASE g = l
    BY <2>1
  <2>2. CASE g # l
    BY <2>2
  <2> QED
    BY <2>1, <2>2
<1>5. seq[k] \in Q[l]
  OBVIOUS
<1>6. \A g \in 1 .. l : seq[k] \notin P[g]
  BY <1>1, <1>2
<1>7. \A x \in P[l] : kind[x] = kind[seq[k]]
  BY <1>1
<1>8. \A g \in 1 .. l : Q[g] # {}
  BY <1>1, <1>4
<1>9. \A g \in 1 .. l : \A x \in Q[g] : \E i \in 1 .. k : seq[i] = x
  <2> TAKE g \in 1 .. l
  <2> TAKE x \in Q[g]
  <2>1. CASE x \in P[g]
    <3>1. PICK i \in 1 .. k - 1 : seq[i] = x
      BY <1>1, <2>1
    <3> QED
      BY <1>2, <3>1
  <2>2. CASE x = seq[k]
    BY <1>2, <2>2
  <2> QED
    BY <1>3, <2>1, <2>2
<1>10. \A g \in 1 .. l : \A x, y \in Q[g] : kind[x] = kind[y]
  <2> TAKE g \in 1 .. l
  <2> TAKE x, y \in Q[g]
  <2>1. x \in P[g] \/ (g = l /\ x = seq[k])
    BY <1>3
  <2>2. y \in P[g] \/ (g = l /\ y = seq[k])
    BY <1>3
  <2> QED
    BY <1>1, <1>7, <2>1, <2>2
<1>11. \A i \in 1 .. k : \E g \in 1 .. l : seq[i] \in Q[g]
  BY <1>1, <1>2, <1>4, <1>5
<1>12. ASSUME NEW g \in 1 .. l, NEW h \in 1 .. l, g # h PROVE Q[g] \cap Q[h] = {}
  <2> SUFFICES ASSUME NEW x \in Q[g], x \in Q[h] PROVE FALSE
    OBVIOUS
  <2>1. x \in P[g] \/ (g = l /\ x = seq[k])
    BY <1>3
  <2>2. x \in P[h] \/ (h = l /\ x = seq[k])
    BY <1>3
  <2>3. P[g] \cap P[h] = {}
    BY <1>1, <1>12
  <2> QED
    BY <1>6, <1>12, <2>1, <2>2, <2>3
<1> QED
  BY <1>1, <1>5, <1>8, <1>9, <1>10, <1>11, <1>12 DEF Parted

(* Another set begins. *)
LEMMA BeginPart ==
    ASSUME NEW S, NEW n \in Nat, NEW seq \in [1 .. n -> S], NEW kind, NEW k \in 1 .. n,
           \A i, j \in 1 .. n : seq[i] = seq[j] => i = j,
           NEW P, NEW l, Parted(P, l, seq, k - 1, kind),
           NEW Q, Q[l + 1] = {seq[k]}, \A g \in 1 .. l : Q[g] = P[g]
    PROVE  Parted(Q, l + 1, seq, k, kind)
<1>1. /\ l \in Nat
      /\ \A g \in 1 .. l : P[g] # {}
      /\ \A g \in 1 .. l : \A x \in P[g] : \E i \in 1 .. k - 1 : seq[i] = x
      /\ \A g \in 1 .. l : \A x, y \in P[g] : kind[x] = kind[y]
      /\ \A i \in 1 .. k - 1 : \E g \in 1 .. l : seq[i] \in P[g]
      /\ \A g, h \in 1 .. l : g # h => P[g] \cap P[h] = {}
  BY DEF Parted
<1>2. /\ \A i \in 1 .. k - 1 : i \in 1 .. k /\ i \in 1 .. n /\ i # k
      /\ \A i \in 1 .. k : i = k \/ i \in 1 .. k - 1
      /\ k \in 1 .. k
  OBVIOUS
<1>3. /\ \A g \in 1 .. l + 1 : g = l + 1 \/ (g \in 1 .. l /\ g # l + 1)
      /\ l + 1 \in 1 .. l + 1 /\ \A g \in 1 .. l : g \in 1 .. l + 1
      /\ l + 1 > 0 /\ l + 1 \in Nat
  BY <1>1
<1>4. \A g \in 1 .. l + 1 : \A x \in Q[g] :
        (g \in 1 .. l /\ x \in P[g]) \/ (g = l + 1 /\ x = seq[k])
  BY <1>3
<1>5. \A g \in 1 .. l : seq[k] \notin P[g]
  BY <1>1, <1>2
<1>6. \A g \in 1 .. l + 1 : Q[g] # {}
  BY <1>1, <1>3
<1>7. \A g \in 1 .. l + 1 : \A x \in Q[g] : \E i \in 1 .. k : seq[i] = x
  BY ZenonT(40), <1>1, <1>2, <1>4
<1>8. \A g \in 1 .. l + 1 : \A x, y \in Q[g] : kind[x] = kind[y]
  <2> TAKE g \in 1 .. l + 1
  <2> TAKE x, y \in Q[g]
  <2>1. (g \in 1 .. l /\ x \in P[g]) \/ (g = l + 1 /\ x = seq[k])
    BY <1>4
  <2>2. (g \in 1 .. l /\ y \in P[g]) \/ (g = l + 1 /\ y = seq[k])
    BY <1>4
  <2> QED
    BY <1>1, <1>3, <2>1, <2>2
<1>9. \A i \in 1 .. k : \E g \in 1 .. l + 1 : seq[i] \in Q[g]
  <2> TAKE i \in 1 .. k
  <2>1. CASE i = k
    BY <1>3, <2>1
  <2>2. CASE i \in 1 .. k - 1
    BY <1>1, <1>3, <2>2
  <2> QED
    BY <1>2, <2>1, <2>2
<1>10. ASSUME NEW g \in 1 .. l + 1, NEW h \in 1 .. l + 1, g # h PROVE Q[g] \cap Q[h] = {}
  <2> SUFFICES ASSUME NEW x \in Q[g], x \in Q[h] PROVE FALSE
    OBVIOUS
  <2>1. (g \in 1 .. l /\ x \in P[g]) \/ (g = l + 1 /\ x = seq[k])
    BY <1>4
  <2>2. (h \in 1 .. l /\ x \in P[h]) \/ (h = l + 1 /\ x = seq[k])
    BY <1>4
  <2>3. g \in 1 .. l /\ h \in 1 .. l => P[g] \cap P[h] = {}
    BY <1>1, <1>10
  <2> QED
    BY <1>5, <1>10, <2>1, <2>2, <2>3
<1> QED
  BY <1>3, <1>6, <1>7, <1>8, <1>9, <1>10 DEF Parted
-----------------------------------------------------------------------------
(* The elements of a sequence with one more. *)
LEMMA AppendedSet ==
    ASSUME NEW S, NEW s \in Seq(S), NEW x
    PROVE  ToSet(Append(s, x)) = ToSet(s) \cup {x} /\ ToSet(<<x>>) = {x}
<1>1. /\ Len(Append(s, x)) = Len(s) + 1 /\ Append(s, x)[Len(s) + 1] = x
      /\ \A j \in 1 .. Len(s) : Append(s, x)[j] = s[j]
      /\ DOMAIN Append(s, x) = 1 .. Len(s) + 1 /\ DOMAIN s = 1 .. Len(s) /\ Len(s) \in Nat
  OBVIOUS
<1>2. 1 .. Len(s) + 1 = (1 .. Len(s)) \cup {Len(s) + 1}
  BY <1>1
<1>3. ToSet(Append(s, x)) = ToSet(s) \cup {x}
  BY <1>1, <1>2 DEF ToSet
<1>4. ToSet(<<x>>) = {x}
  BY DEF ToSet
<1> QED
  BY <1>3, <1>4

(* A group takes one more. *)
Lengthen(G, x) == [G EXCEPT ![Len(G)] = Append(@, x)]

LongerBy(H, G, x, S) ==
    /\ H \in Seq(Seq(S)) /\ Len(H) = Len(G)
    /\ ToSet(H[Len(G)]) = ToSet(G[Len(G)]) \cup {x}
    /\ \A g \in 1 .. Len(G) : g # Len(G) => H[g] = G[g]
WithGroup(H, G, x, S) ==
    /\ H \in Seq(Seq(S)) /\ Len(H) = Len(G) + 1
    /\ ToSet(H[Len(G) + 1]) = {x}
    /\ \A g \in 1 .. Len(G) : H[g] = G[g]

(* The last group grows by one relation ... *)
LEMMA LongerIs ==
    ASSUME NEW S, NEW G, G \in Seq(Seq(S)), Len(G) > 0, NEW x \in S
    PROVE  LongerBy(Lengthen(G, x), G, x, S)
<1> DEFINE l == Len(G)
           c == Append(G[l], x)
           H == Lengthen(G, x)
<1>1. l \in Nat /\ l \in 1 .. l /\ G[l] \in Seq(S) /\ DOMAIN G = 1 .. l
  OBVIOUS
<1>2. c \in Seq(S) /\ ToSet(c) = ToSet(G[l]) \cup {x}
  <2> HIDE DEF l
  <2>1. Append(G[l], x) \in Seq(S)
    BY <1>1
  <2> QED BY <1>1, <2>1, AppendedSet
<1>3. H = [G EXCEPT ![l] = c]
  BY <1>1 DEF Lengthen
<1> HIDE DEF c, H
<1>6. \A g \in 1 .. l : G[g] \in Seq(S)
  OBVIOUS
<1> HIDE DEF l
<1>4. H \in Seq(Seq(S)) /\ Len(H) = l /\ H[l] = c /\ \A g \in 1 .. l : g # l => H[g] = G[g]
  <2>1. DOMAIN H = 1 .. l /\ H[l] = c /\ \A g \in 1 .. l : g # l => H[g] = G[g]
    BY <1>1, <1>3
  <2>3. \A g \in 1 .. l : H[g] \in Seq(S)
    BY <1>2, <1>6, <2>1
  <2>4. H \in [1 .. l -> Seq(S)]
    BY <1>3, <1>1, <2>1, <2>3
  <2> QED
    BY <1>1, <2>1, <2>4, NumberedIsSeq
<1>5. ToSet(H[l]) = ToSet(G[l]) \cup {x}
  BY <1>2, <1>4
<1> QED
  BY <1>4, <1>5 DEF H, l, LongerBy

(* ... or a group of one relation follows it. *)
LEMMA AnotherIs ==
    ASSUME NEW S, NEW G, G \in Seq(Seq(S)), NEW x \in S
    PROVE  WithGroup(Append(G, <<x>>), G, x, S)
<1>1. <<x>> \in Seq(S)
  OBVIOUS
<1>2. ToSet(<<x>>) = {x}
  BY DEF ToSet
<1> DEFINE y == <<x>>
<1>3. y \in Seq(S) /\ ToSet(y) = {x}
  BY <1>1, <1>2
<1> HIDE DEF y
<1>4. /\ Append(G, y) \in Seq(Seq(S)) /\ Len(Append(G, y)) = Len(G) + 1
      /\ Append(G, y)[Len(G) + 1] = y
      /\ \A g \in 1 .. Len(G) : Append(G, y)[g] = G[g]
  BY <1>3
<1> DEFINE H == Append(G, y)
<1>5. H \in Seq(Seq(S)) /\ Len(H) = Len(G) + 1 /\ ToSet(H[Len(G) + 1]) = {x}
      /\ \A g \in 1 .. Len(G) : H[g] = G[g]
  BY <1>3, <1>4
<1> HIDE DEF H
<1>6. WithGroup(H, G, x, S)
  BY <1>5 DEF WithGroup
<1> QED
  BY <1>6 DEF H, y

(* The groups of a sequence, as sets. *)
SetsOf(G) == [g \in 1 .. Len(G) |-> ToSet(G[g])]
Grouped(G, S, seq, k, kind) ==
    G \in Seq(Seq(S)) /\ Parted(SetsOf(G), Len(G), seq, k, kind)

(* Groups of a beginning of the sequence stay so when the next relation       *)
(* joins the last of them ...                                                 *)
LEMMA JoinGroups ==
    ASSUME NEW S, NEW n \in Nat, NEW seq \in [1 .. n -> S], NEW kind, NEW k \in 1 .. n,
           \A i, j \in 1 .. n : seq[i] = seq[j] => i = j,
           k > 1, kind[seq[k - 1]] = kind[seq[k]],
           NEW G, Grouped(G, S, seq, k - 1, kind)
    PROVE  Grouped(Lengthen(G, seq[k]), S, seq, k, kind)
<1> DEFINE H == Lengthen(G, seq[k])
           P == SetsOf(G)
           Q == SetsOf(H)
           l == Len(G)
           x == seq[k]
<1>1. G \in Seq(Seq(S)) /\ Parted(P, l, seq, k - 1, kind)
  BY DEF Grouped
<1>2. x \in S /\ l \in Nat
  BY <1>1
<1>3. l > 0
  <2>1. k - 1 > 0
    OBVIOUS
  <2> QED
    BY <1>1, <2>1 DEF Parted
<1>4. LongerBy(H, G, x, S)
  <2> HIDE DEF x
  <2>1. LongerBy(Lengthen(G, x), G, x, S)
    BY <1>1, <1>2, <1>3, LongerIs
  <2> QED
    BY <2>1 DEF x
<1> HIDE DEF H
<1>5. /\ H \in Seq(Seq(S)) /\ Len(H) = l
      /\ ToSet(H[l]) = ToSet(G[l]) \cup {x}
      /\ \A g \in 1 .. l : g # l => H[g] = G[g]
  BY <1>4 DEF LongerBy
<1>6. /\ l \in 1 .. l /\ \A g \in 1 .. l : P[g] = ToSet(G[g])
      /\ \A g \in 1 .. l : Q[g] = ToSet(H[g])
  BY <1>2, <1>3, <1>5 DEF SetsOf
<1> HIDE DEF P, Q, l
<1>7. Q[l] = P[l] \cup {seq[k]}
  BY <1>5, <1>6, Zenon
<1>8. \A g \in 1 .. l : g # l => Q[g] = P[g]
  BY <1>5, <1>6
<1>9. Parted(Q, l, seq, k, kind)
  BY <1>1, <1>7, <1>8, JoinParts
<1> QED
  BY <1>5, <1>9 DEF Grouped, Q, H

(* ... and when it begins a group. *)
LEMMA BeginGroups ==
    ASSUME NEW S, NEW n \in Nat, NEW seq \in [1 .. n -> S], NEW kind, NEW k \in 1 .. n,
           \A i, j \in 1 .. n : seq[i] = seq[j] => i = j,
           NEW G, Grouped(G, S, seq, k - 1, kind)
    PROVE  Grouped(Append(G, <<seq[k]>>), S, seq, k, kind)
<1> DEFINE H == Append(G, <<seq[k]>>)
           P == SetsOf(G)
           Q == SetsOf(H)
           l == Len(G)
           x == seq[k]
<1>1. G \in Seq(Seq(S)) /\ Parted(P, l, seq, k - 1, kind)
  BY DEF Grouped
<1>2. x \in S /\ l \in Nat
  BY <1>1
<1>3. WithGroup(H, G, x, S)
  <2> HIDE DEF x
  <2>1. WithGroup(Append(G, <<x>>), G, x, S)
    BY <1>1, <1>2, AnotherIs
  <2> QED
    BY <2>1 DEF x
<1> HIDE DEF H
<1>4. /\ H \in Seq(Seq(S)) /\ Len(H) = l + 1
      /\ ToSet(H[l + 1]) = {x}
      /\ \A g \in 1 .. l : H[g] = G[g]
  BY <1>3 DEF WithGroup
<1>5. /\ l + 1 \in 1 .. l + 1 /\ \A g \in 1 .. l : P[g] = ToSet(G[g]) /\ g \in 1 .. l + 1
      /\ \A g \in 1 .. l + 1 : Q[g] = ToSet(H[g])
  BY <1>2, <1>4 DEF SetsOf
<1> HIDE DEF P, Q, l
<1>6. Q[l + 1] = {seq[k]} /\ \A g \in 1 .. l : Q[g] = P[g]
  BY <1>4, <1>5
<1>7. Parted(Q, l + 1, seq, k, kind)
  BY <1>1, <1>6, BeginPart
<1> QED
  BY <1>4, <1>7 DEF Grouped, Q, H

(* One step of Groups. *)
TakeOne(seq, joining, G, i) ==
    IF i \in joining THEN Lengthen(G, seq[i]) ELSE Append(G, <<seq[i]>>)

(* Groups with one more relation are sequences of sequences. *)
LEMMA TakeTypes ==
    ASSUME NEW S, NEW G \in Seq(Seq(S)), NEW x \in S
    PROVE  Lengthen(G, x) \in Seq(Seq(S)) /\ Append(G, <<x>>) \in Seq(Seq(S))
<1>1. Append(G, <<x>>) \in Seq(Seq(S))
  BY AnotherIs DEF WithGroup
<1>2. CASE Len(G) > 0
  <2>1. LongerBy(Lengthen(G, x), G, x, S)
    BY <1>2, LongerIs
  <2> QED
    BY <1>1, <2>1 DEF LongerBy
<1>3. CASE ~ (Len(G) > 0)
  <2> DEFINE H == Lengthen(G, x)
  <2>1. Len(G) = 0 /\ DOMAIN G = {}
    BY <1>3
  <2>2. H = [i \in DOMAIN G |-> IF i = Len(G) THEN Append(G[i], x) ELSE G[i]]
    BY <2>1 DEF Lengthen
  <2> HIDE DEF H
  <2>3. H \in [1 .. 0 -> Seq(S)]
    BY <2>1, <2>2
  <2>4. H \in Seq(Seq(S))
    BY <2>3, NumberedIsSeq
  <2> QED
    BY <1>1, <2>4 DEF H
<1> QED
  BY <1>2, <1>3

(* The groups of a sequence hold every place of it once, each group           *)
(* relations of one kind.                                                     *)
LEMMA GroupsAre ==
    ASSUME NEW S, NEW n \in Nat, NEW seq, seq \in [1 .. n -> S], Len(seq) = n, NEW kind,
           \A i, j \in 1 .. n : seq[i] = seq[j] => i = j,
           NEW joining,
           \A i \in joining : i \in 2 .. n /\ kind[seq[i - 1]] = kind[seq[i]]
    PROVE  Grouped(Groups(seq, joining), S, seq, n, kind)
<1> DEFINE T == Seq(Seq(S))
           a == <<>>
           step == [k \in 1 .. n |-> [G \in T |-> TakeOne(seq, joining, G, k)]]
           groups == CHOOSE f : f = [k \in 0 .. n |->
                        IF k = 0 THEN <<>> ELSE TakeOne(seq, joining, f[k - 1], k)]
<1>1. \A G \in T, k \in 1 .. n : TakeOne(seq, joining, G, k) \in T
  <2> TAKE G \in T, k \in 1 .. n
  <2>1. seq[k] \in S
    OBVIOUS
  <2> QED
    BY <2>1, TakeTypes DEF TakeOne
<1>2. step \in Steps(n, T) /\ a \in T
  <2>1. a \in T
    OBVIOUS
  <2> HIDE DEF T, a
  <2>2. \A k \in 1 .. n : [G \in T |-> TakeOne(seq, joining, G, k)] \in [T -> T]
    BY <1>1
  <2> QED
    BY <2>1, <2>2 DEF Steps
<1>3. \A G \in T, k \in 1 .. n : step[k][G] = TakeOne(seq, joining, G, k)
  OBVIOUS
<1>4. PICK f : f \in Recursions(n, T, a, step)
  <2> HIDE DEF T, a, step
  <2>0. n \in Nat
    OBVIOUS
  <2>1. Recursions(n, T, a, step) # {}
    BY ONLY <1>2, <2>0, RecursionDefines
  <2> QED
    BY <2>1
<1>5. /\ f \in [0 .. n -> T] /\ f[0] = a
      /\ \A k \in 1 .. n : f[k] = TakeOne(seq, joining, f[k - 1], k)
  <2>1. f \in [0 .. n -> T] /\ f[0] = a /\ \A k \in 1 .. n : f[k] = step[k][f[k - 1]]
    BY <1>4 DEF Recursions
  <2>2. \A k \in 1 .. n : k - 1 \in 0 .. n
    OBVIOUS
  <2> HIDE DEF step, T
  <2> QED
    BY <1>3, <2>1, <2>2
<1>6. f = [k \in 0 .. n |-> IF k = 0 THEN <<>> ELSE TakeOne(seq, joining, f[k - 1], k)]
  <2> HIDE DEF T
  <2> QED
    BY <1>5
<1>7. groups = [k \in 0 .. n |->
                    IF k = 0 THEN <<>> ELSE TakeOne(seq, joining, groups[k - 1], k)]
  BY <1>6
<1>8. Groups(seq, joining) = groups[n]
  BY DEF Groups, TakeOne, Lengthen
<1> HIDE DEF groups
<1>9. groups[0] = <<>> /\ \A k \in 1 .. n : groups[k] = TakeOne(seq, joining, groups[k - 1], k)
  <2>1. 0 \in 0 .. n /\ \A k \in 1 .. n : k \in 0 .. n /\ k # 0
    OBVIOUS
  <2>2. \A k \in 0 .. n : groups[k] =
            IF k = 0 THEN <<>> ELSE TakeOne(seq, joining, groups[k - 1], k)
    BY <1>7
  <2> QED
    BY <2>1, <2>2
<1> DEFINE good == {k \in 0 .. n : Grouped(groups[k], S, seq, k, kind)}
<1>10. 0 \in good
  <2>1. <<>> \in Seq(Seq(S)) /\ Len(<<>>) = 0 /\ 1 .. 0 = {}
    OBVIOUS
  <2>2. Grouped(<<>>, S, seq, 0, kind)
    BY <2>1 DEF Grouped, Parted
  <2> QED
    BY <1>9, <2>2
<1>11. ASSUME NEW k \in 1 .. n, k - 1 \in good PROVE k \in good
  <2>1. Grouped(groups[k - 1], S, seq, k - 1, kind)
    BY <1>11
  <2>2. CASE k \in joining
    <3>1. k > 1 /\ kind[seq[k - 1]] = kind[seq[k]]
      BY <2>2
    <3>2. Grouped(Lengthen(groups[k - 1], seq[k]), S, seq, k, kind)
      BY <2>1, <3>1, JoinGroups
    <3>3. groups[k] = Lengthen(groups[k - 1], seq[k])
      BY <1>9, <2>2 DEF TakeOne
    <3> QED
      BY <3>2, <3>3
  <2>3. CASE k \notin joining
    <3>1. Grouped(Append(groups[k - 1], <<seq[k]>>), S, seq, k, kind)
      BY <2>1, BeginGroups
    <3> QED
      BY <1>9, <2>3, <3>1 DEF TakeOne
  <2> QED
    BY <2>2, <2>3
<1>12. n \in good
  <2> HIDE DEF good
  <2>1. 0 .. n \subseteq good
    BY <1>10, <1>11, StaysUpTo
  <2> QED
    BY <2>1
<1> QED
  BY <1>8, <1>12

(* The groups of a list: every element is in one of them, of its kind. *)
Bunched(G, S, kind) ==
    /\ G \in Seq(Seq(S)) /\ Len(G) \in Nat /\ DOMAIN G = 1 .. Len(G)
    /\ \A g \in 1 .. Len(G) : ToSet(G[g]) # {} /\ ToSet(G[g]) \subseteq S
                              /\ G[g][1] \in ToSet(G[g])
    /\ \A g \in 1 .. Len(G) : \A x, y \in ToSet(G[g]) : kind[x] = kind[y]
    /\ \A x \in S : \E g \in 1 .. Len(G) : x \in ToSet(G[g])
    /\ \A g, h \in 1 .. Len(G) : g # h => ToSet(G[g]) \cap ToSet(G[h]) = {}

(* The groups of a listed set bunch it: every element is in one group. *)
LEMMA GroupsBunch ==
    ASSUME NEW S, NEW n, NEW R, NEW seq, Lists(seq, S, R, n), NEW kind, NEW joining,
           \A i \in joining : i \in 2 .. n /\ kind[seq[i - 1]] = kind[seq[i]]
    PROVE  Bunched(Groups(seq, joining), S, kind)
<1> DEFINE G == Groups(seq, joining)
           P == SetsOf(G)
           l == Len(G)
<1>1. /\ n \in Nat /\ seq \in [1 .. n -> S] /\ Len(seq) = n
      /\ \A x \in S : \E i \in 1 .. n : seq[i] = x
      /\ \A i, j \in 1 .. n : seq[i] = seq[j] => i = j
  BY DEF Lists
<1>2. Grouped(G, S, seq, n, kind)
  BY <1>1, GroupsAre
<1> HIDE DEF G
<1>3. G \in Seq(Seq(S)) /\ Parted(P, l, seq, n, kind)
  BY <1>2 DEF Grouped
<1>4. l \in Nat /\ DOMAIN G = 1 .. l /\ \A g \in 1 .. l : P[g] = ToSet(G[g])
  BY <1>3 DEF SetsOf
<1>5. \A g \in 1 .. l : ToSet(G[g]) # {} => G[g][1] \in ToSet(G[g])
  <2> TAKE g \in 1 .. l
  <2>1. G[g] \in Seq(S)
    BY <1>3
  <2>2. ToSet(G[g]) = {G[g][i] : i \in 1 .. Len(G[g])} /\ Len(G[g]) \in Nat
    BY <2>1 DEF ToSet
  <2> QED
    BY <2>2
<1> HIDE DEF P, l
<1>6. /\ \A g \in 1 .. l : P[g] # {}
      /\ \A g \in 1 .. l : \A x \in P[g] : \E i \in 1 .. n : seq[i] = x
      /\ \A g \in 1 .. l : \A x, y \in P[g] : kind[x] = kind[y]
      /\ \A i \in 1 .. n : \E g \in 1 .. l : seq[i] \in P[g]
      /\ \A g, h \in 1 .. l : g # h => P[g] \cap P[h] = {}
  BY <1>3 DEF Parted
<1>7. \A g \in 1 .. l : P[g] \subseteq S
  BY <1>1, <1>6
<1>8. \A x \in S : \E g \in 1 .. l : x \in P[g]
  BY <1>1, <1>6
<1>9. \A g \in 1 .. l : ToSet(G[g]) # {} /\ ToSet(G[g]) \subseteq S /\ G[g][1] \in ToSet(G[g])
  BY <1>4, <1>5, <1>6, <1>7
<1>10. \A g \in 1 .. l : \A x, y \in ToSet(G[g]) : kind[x] = kind[y]
  BY <1>4, <1>6
<1>11. \A x \in S : \E g \in 1 .. l : x \in ToSet(G[g])
  BY <1>4, <1>8
<1>12. \A g, h \in 1 .. l : g # h => ToSet(G[g]) \cap ToSet(G[h]) = {}
  BY SMTT(40), <1>4, <1>6
<1>13. G \in Seq(Seq(S))
  BY <1>3
<1>14. Bunched(G, S, kind)
  BY <1>4, <1>9, <1>10, <1>11, <1>12, <1>13 DEF Bunched, l
<1> QED
  BY <1>14 DEF G

-----------------------------------------------------------------------------
(* --- Rows of events --- *)

(* A sequence, of whatever elements. *)
IsRow(E) == Len(E) \in Nat /\ E = [i \in 1 .. Len(E) |-> E[i]]

(* A function on 1 .. n is one. *)
LEMMA RowOf ==
    ASSUME NEW n \in Nat, NEW E, E = [i \in 1 .. n |-> E[i]]
    PROVE  IsRow(E) /\ Len(E) = n /\ DOMAIN E = 1 .. n
<1> DEFINE S == {E[i] : i \in 1 .. n}
<1>1. E \in [1 .. n -> S]
  OBVIOUS
<1>2. Len(E) = n
  BY <1>1, NumberedIsSeq
<1> QED
  BY <1>2 DEF IsRow

(* Two of them, one after the other. *)
LEMMA Concatenated ==
    ASSUME NEW E, IsRow(E), NEW F, IsRow(F)
    PROVE  /\ IsRow(E \o F) /\ Len(E \o F) = Len(E) + Len(F)
           /\ \A i \in 1 .. Len(E) : (E \o F)[i] = E[i]
           /\ \A i \in 1 .. Len(F) : (E \o F)[Len(E) + i] = F[i]
<1> DEFINE m == Len(E)
           n == Len(F)
           S == {E[i] : i \in 1 .. m} \cup {F[i] : i \in 1 .. n}
<1>1. m \in Nat /\ n \in Nat /\ E = [i \in 1 .. m |-> E[i]] /\ F = [i \in 1 .. n |-> F[i]]
  BY DEF IsRow
<1>2. E \in [1 .. m -> S] /\ F \in [1 .. n -> S]
  <2>1. \A i \in 1 .. m : E[i] \in S
    OBVIOUS
  <2>2. \A i \in 1 .. n : F[i] \in S
    OBVIOUS
  <2> HIDE DEF S, m, n
  <2> QED
    BY <1>1, <2>1, <2>2
<1>3. E \in Seq(S) /\ F \in Seq(S)
  <2> HIDE DEF S, m, n
  <2> QED
    BY <1>1, <1>2, NumberedIsSeq
<1>4. /\ E \o F \in Seq(S) /\ Len(E \o F) = Len(E) + Len(F)
      /\ \A i \in 1 .. Len(E) : (E \o F)[i] = E[i]
      /\ \A i \in 1 .. Len(F) : (E \o F)[Len(E) + i] = F[i]
  <2> HIDE DEF S
  <2> QED
    BY <1>3
<1>5. IsRow(E \o F)
  <2> HIDE DEF S
  <2> QED
    BY <1>4, LenProperties DEF IsRow
<1> QED
  BY <1>4, <1>5

(* One more at the end. *)
LEMMA Appended ==
    ASSUME NEW E, IsRow(E), NEW e
    PROVE  /\ IsRow(Append(E, e)) /\ Len(Append(E, e)) = Len(E) + 1
           /\ \A i \in 1 .. Len(E) : Append(E, e)[i] = E[i]
           /\ Append(E, e)[Len(E) + 1] = e
<1> DEFINE m == Len(E)
           S == {E[i] : i \in 1 .. m} \cup {e}
<1>1. m \in Nat /\ E = [i \in 1 .. m |-> E[i]]
  BY DEF IsRow
<1>2. E \in [1 .. m -> S] /\ e \in S
  <2>1. \A i \in 1 .. m : E[i] \in S
    OBVIOUS
  <2>2. e \in S
    OBVIOUS
  <2> HIDE DEF S, m
  <2> QED
    BY <1>1, <2>1, <2>2
<1>3. E \in Seq(S)
  <2> HIDE DEF S, m
  <2> QED
    BY <1>1, <1>2, NumberedIsSeq
<1>4. /\ Append(E, e) \in Seq(S) /\ Len(Append(E, e)) = Len(E) + 1
      /\ \A i \in 1 .. Len(E) : Append(E, e)[i] = E[i]
      /\ Append(E, e)[Len(E) + 1] = e
  <2> HIDE DEF S
  <2> QED
    BY <1>2, <1>3
<1>5. IsRow(Append(E, e))
  <2> HIDE DEF S
  <2> QED
    BY <1>4, LenProperties DEF IsRow
<1> QED
  BY <1>4, <1>5

-----------------------------------------------------------------------------
(* A set of verses that is not empty has a span, in the book of its first. *)
LEMMA SpanIs ==
    ASSUME NEW S
    PROVE  /\ S = {} => span(S) = <<>>
           /\ S # {} => span(S) # <<>> /\ span(S)[1] = FirstOf(S)[1]
BY DEF span, Span

(* Of two numbers one is the greater. *)
LEMMA GreaterIsOne ==
    ASSUME NEW m \in Nat, NEW n \in Nat
    PROVE  Max({m, n}) \in Nat /\ (m # 0 \/ n # 0 => Max({m, n}) # 0)
<1> DEFINE S == {m, n}
<1>1. \E x \in S : \A y \in S : x >= y
  <2>1. CASE m >= n
    BY <2>1
  <2>2. CASE ~ (m >= n)
    BY <2>2
  <2> QED
    BY <2>1, <2>2
<1>2. Max(S) \in S /\ \A y \in S : Max(S) >= y
  BY <1>1 DEF Max
<1> QED
  BY <1>2

(* The verses of one side an event stands for. *)
Side(of, side) == [r \in of |-> r[side]]
StandsFor(as, of, v) ==
    /\ IsFiniteSet(as)
    /\ \A x \in as : \E r \in of : x \in v[r]
    /\ (\E r \in of : v[r] # {}) => as # {}

(* The verses that stand for a group are not empty if one of its relations    *)
(* has verses.                                                                *)
LEMMA PresentStand ==
    ASSUME NEW of, NEW v, NEW p, NEW as, IsFiniteSet(of),
           \A r \in of : IsFiniteSet(v[r]) /\ p[r] \subseteq v[r],
           (\E r \in of : p[r] # {}) => \A x : x \in as <=> \E r \in of : x \in p[r],
           (\A r \in of : p[r] = {}) => \A x : x \in as <=> \E r \in of : x \in v[r]
    PROVE  StandsFor(as, of, v)
<1> DEFINE V == {v[r] : r \in of}
           U == UNION V
<1>1. IsFiniteSet(V)
  <2>1. \A t \in V : \E r \in of : t = v[r]
    OBVIOUS
  <2> HIDE DEF V
  <2> QED
    BY <2>1, ImageIsFinite
<1>2. \A s \in V : IsFiniteSet(s)
  OBVIOUS
<1>3. IsFiniteSet(U)
  <2> HIDE DEF V
  <2> QED
    BY <1>1, <1>2, FS_UNION
<1>4. \A x \in as : \E r \in of : x \in v[r]
  OBVIOUS
<1>5. as \subseteq U
  BY <1>4
<1>6. IsFiniteSet(as)
  <2> HIDE DEF U
  <2> QED
    BY <1>3, <1>5, FS_Subset
<1>7. (\E r \in of : v[r] # {}) => as # {}
  OBVIOUS
<1> QED
  BY <1>4, <1>6, <1>7 DEF StandsFor

(* The event of a group of relations. *)
Drawn(e, of, type) ==
    /\ e.type = type /\ e.of = of /\ e.n \in Nat \ {0} /\ {e.a, e.b} # {<<>>}
    /\ \E as, bs :
        /\ e.a = span(as) /\ e.b = span(bs)
        /\ StandsFor(as, of, Side(of, "A")) /\ StandsFor(bs, of, Side(of, "B"))

(* An event has the span and the number of the verses that stand for its      *)
(* group.                                                                     *)
LEMMA EmitIs ==
    ASSUME NEW R, Bedded(R), Present(R), NEW G, ToSet(G) \subseteq R, ToSet(G) # {}, NEW type
    PROVE  Drawn(emit(type, G), ToSet(G), type)
<1> DEFINE of == ToSet(G)
           Or(x, y) == IF x = {} THEN y ELSE x
           as == Or(UNION {r.Ap : r \in of}, UNION {r.A : r \in of})
           bs == Or(UNION {r.Bp : r \in of}, UNION {r.B : r \in of})
           n == Max({Cardinality(as), Cardinality(bs)})
           e == [type |-> type, a |-> span(as), o |-> span(UNION {r.O : r \in of}),
                 b |-> span(bs), n |-> n, of |-> of]
<1>1. emit(type, G) = e
  BY DEF emit
<1>2. IsFiniteSet(of)
  BY FS_Subset DEF Bedded
<1> HIDE DEF of
<1>3. StandsFor(as, of, Side(of, "A"))
  <2> DEFINE v == Side(of, "A")
             p == Side(of, "Ap")
  <2>1. \A r \in of : v[r] = r.A /\ p[r] = r.Ap
    BY DEF Side
  <2>2. \A r \in of : IsFiniteSet(v[r]) /\ p[r] \subseteq v[r]
    BY <2>1 DEF Bedded, Present, of
  <2>3. /\ (\E r \in of : r.Ap # {}) => as = UNION {r.Ap : r \in of}
        /\ (\A r \in of : r.Ap = {}) => as = UNION {r.A : r \in of}
    OBVIOUS
  <2> HIDE DEF as, v, p
  <2>4. (\E r \in of : p[r] # {}) => \A x : x \in as <=> \E r \in of : x \in p[r]
    <3>1. \A x : x \in UNION {r.Ap : r \in of} <=> \E r \in of : x \in r.Ap
      OBVIOUS
    <3>2. (\E r \in of : p[r] # {}) => \E r \in of : r.Ap # {}
      BY <2>1
    <3>3. (\E r \in of : p[r] # {}) => \A x : x \in as <=> \E r \in of : x \in r.Ap
      BY <2>3, <3>1, <3>2
    <3> QED
      BY <2>1, <3>3
  <2>5. (\A r \in of : p[r] = {}) => \A x : x \in as <=> \E r \in of : x \in v[r]
    <3>1. \A x : x \in UNION {r.A : r \in of} <=> \E r \in of : x \in r.A
      OBVIOUS
    <3>2. (\A r \in of : p[r] = {}) => \A r \in of : r.Ap = {}
      BY <2>1
    <3>3. (\A r \in of : p[r] = {}) => \A x : x \in as <=> \E r \in of : x \in r.A
      BY <2>3, <3>1, <3>2
    <3> QED
      BY <2>1, <3>3
  <2>6. StandsFor(as, of, v)
    BY <1>2, <2>2, <2>4, <2>5, PresentStand
  <2> QED
    BY <2>6 DEF v
<1>4. StandsFor(bs, of, Side(of, "B"))
  <2> DEFINE v == Side(of, "B")
             p == Side(of, "Bp")
  <2>1. \A r \in of : v[r] = r.B /\ p[r] = r.Bp
    BY DEF Side
  <2>2. \A r \in of : IsFiniteSet(v[r]) /\ p[r] \subseteq v[r]
    BY <2>1 DEF Bedded, Present, of
  <2>3. /\ (\E r \in of : r.Bp # {}) => bs = UNION {r.Bp : r \in of}
        /\ (\A r \in of : r.Bp = {}) => bs = UNION {r.B : r \in of}
    OBVIOUS
  <2> HIDE DEF bs, v, p
  <2>4. (\E r \in of : p[r] # {}) => \A x : x \in bs <=> \E r \in of : x \in p[r]
    <3>1. \A x : x \in UNION {r.Bp : r \in of} <=> \E r \in of : x \in r.Bp
      OBVIOUS
    <3>2. (\E r \in of : p[r] # {}) => \E r \in of : r.Bp # {}
      BY <2>1
    <3>3. (\E r \in of : p[r] # {}) => \A x : x \in bs <=> \E r \in of : x \in r.Bp
      BY <2>3, <3>1, <3>2
    <3> QED
      BY <2>1, <3>3
  <2>5. (\A r \in of : p[r] = {}) => \A x : x \in bs <=> \E r \in of : x \in v[r]
    <3>1. \A x : x \in UNION {r.B : r \in of} <=> \E r \in of : x \in r.B
      OBVIOUS
    <3>2. (\A r \in of : p[r] = {}) => \A r \in of : r.Bp = {}
      BY <2>1
    <3>3. (\A r \in of : p[r] = {}) => \A x : x \in bs <=> \E r \in of : x \in r.B
      BY <2>3, <3>1, <3>2
    <3> QED
      BY <2>1, <3>3
  <2>6. StandsFor(bs, of, v)
    BY <1>2, <2>2, <2>4, <2>5, PresentStand
  <2> QED
    BY <2>6 DEF v
<1> HIDE DEF as, bs, Or
<1>5. as # {} \/ bs # {}
  <2>1. PICK r \in of : r.A # {} \/ r.B # {}
    BY DEF of, Bedded
  <2>2. r.A # {} => as # {}
    BY <1>3, <2>1 DEF StandsFor, Side
  <2>3. r.B # {} => bs # {}
    BY <1>4, <2>1 DEF StandsFor, Side
  <2> QED
    BY <2>1, <2>2, <2>3
<1>6. n \in Nat \ {0}
  <2>1. IsFiniteSet(as) /\ IsFiniteSet(bs)
    BY <1>3, <1>4 DEF StandsFor
  <2>2. Cardinality(as) \in Nat /\ Cardinality(bs) \in Nat
    BY <2>1, FS_CardinalityType
  <2>3. Cardinality(as) # 0 \/ Cardinality(bs) # 0
    BY <1>5, <2>1, FS_EmptySet
  <2>4. n \in Nat /\ n # 0
    BY <2>2, <2>3, GreaterIsOne
  <2> QED
    BY <2>4
<1> HIDE DEF n
<1>7. {span(as), span(bs)} # {<<>>}
  BY <1>5, SpanIs
<1>8. Drawn(e, of, type)
  <2>1. /\ e.type = type /\ e.of = of /\ e.n = n /\ e.a = span(as) /\ e.b = span(bs)
    OBVIOUS
  <2> HIDE DEF e
  <2> QED
    BY <1>3, <1>4, <1>6, <1>7, <2>1 DEF Drawn
<1> QED
  BY <1>1, <1>8 DEF of

-----------------------------------------------------------------------------
(* --- What events tell --- *)

(* Among finitely many verses there is a last one. *)
LEMMA LastIsOne ==
    ASSUME NEW S, S \subseteq Verse, IsFiniteSet(S), S # {}
    PROVE  LastOf(S) \in S
<1> DEFINE R == {p \in S \X S : Before(p[1], p[2])}
           n == Cardinality(S)
<1>1. \A x, y \in S : <<x, y>> \in R <=> Before(x, y)
  OBVIOUS
<1>2. Orders(R, S)
  <2> HIDE DEF R
  <2> QED
    BY <1>1, VerseOrder DEF Orders
<1> HIDE DEF R
<1>3. Lists(InOrder(S, R), S, R, n)
  BY <1>2, Listing
<1> DEFINE s == InOrder(S, R)
<1> HIDE DEF s
<1>4. /\ n \in Nat /\ s \in [1 .. n -> S] /\ \A x \in S : \E i \in 1 .. n : s[i] = x
      /\ \A i, j \in 1 .. n : i < j => <<s[i], s[j]>> \in R
  BY <1>3 DEF Lists, s
<1>5. n > 0
  BY <1>4
<1>6. s[n] \in S /\ \A y \in S \ {s[n]} : Before(y, s[n])
  <2>1. n \in 1 .. n /\ s[n] \in S
    BY <1>4, <1>5
  <2>2. ASSUME NEW y \in S \ {s[n]} PROVE Before(y, s[n])
    <3>1. PICK i \in 1 .. n : s[i] = y
      BY <1>4
    <3>2. i < n
      BY <1>4, <2>2, <3>1
    <3> QED
      BY <1>1, <1>4, <2>1, <3>1, <3>2
  <2> QED
    BY <2>1, <2>2
<1> QED
  BY <1>6 DEF LastOf

-----------------------------------------------------------------------------
TypedOf(R) == {r \in R : r.type # Same}
Seat(r) == FirstOf(AnchorVerses(r))[1]

(* Relations of one side only with verses of several books. *)
Several(R) == \E r \in R : r.type = "ONE_SIDED"
                            /\ \E x, y \in r.A \cup r.B : x[1] # y[1]

(* An event of one side only, in a book. *)
Sits(e, k) == \/ e.b = <<>> /\ e.a # <<>> /\ e.a[1] = k
              \/ e.a = <<>> /\ e.b # <<>> /\ e.b[1] = k
EventFits(e, R) ==
    /\ e.type \in TYPE_IDS /\ e.n \in Nat \ {0} /\ {e.a, e.b} # {<<>>}
    /\ e.of \subseteq TypedOf(R)
    /\ e.type = "ONE_SIDED" =>
            \A r \in e.of : r.type = "ONE_SIDED" /\ (Several(R) \/ Sits(e, Seat(r)))
Fits(E, R) == \A i \in 1 .. Len(E) : EventFits(E[i], R)

(* Every relation is in one of the events. *)
Shares(E, S) ==
    /\ IsRow(E) /\ \A i \in 1 .. Len(E) : E[i].of \subseteq S
    /\ \A r \in S : \E i \in 1 .. Len(E) :
            r \in E[i].of /\ \A j \in 1 .. Len(E) : r \in E[j].of => j = i

(* Two rows of events that share out two sets share out both. *)
LEMMA SharesJoin ==
    ASSUME NEW E, NEW S, Shares(E, S), NEW F, NEW T, Shares(F, T), S \cap T = {}
    PROVE  Shares(E \o F, S \cup T)
<1> DEFINE m == Len(E)
           n == Len(F)
           G == E \o F
<1>1. IsRow(E) /\ IsRow(F) /\ m \in Nat /\ n \in Nat
  BY DEF Shares, IsRow
<1>2. /\ IsRow(G) /\ Len(G) = m + n /\ \A i \in 1 .. m : G[i] = E[i]
      /\ \A i \in 1 .. n : G[m + i] = F[i]
  BY <1>1, Concatenated
<1>3. /\ \A i \in 1 .. m : E[i].of \subseteq S
      /\ \A i \in 1 .. n : F[i].of \subseteq T
      /\ \A r \in S : \E i \in 1 .. m :
            r \in E[i].of /\ \A j \in 1 .. m : r \in E[j].of => j = i
      /\ \A r \in T : \E i \in 1 .. n :
            r \in F[i].of /\ \A j \in 1 .. n : r \in F[j].of => j = i
  BY DEF Shares
<1> HIDE DEF m, n, G
<1>4. \A i \in 1 .. m + n : \/ i \in 1 .. m /\ G[i] = E[i]
                            \/ \E k \in 1 .. n : i = m + k /\ G[i] = F[k]
  <2> TAKE i \in 1 .. m + n
  <2>1. CASE i <= m
    BY <1>1, <1>2, <2>1
  <2>2. CASE i > m
    <3>1. i - m \in 1 .. n /\ i = m + (i - m)
      BY <1>1, <2>2
    <3> QED
      BY <1>2, <3>1
  <2> QED
    BY <1>1, <2>1, <2>2
<1>5. \A i \in 1 .. m + n : G[i].of \subseteq S \cup T
  BY <1>3, <1>4
<1>6. ASSUME NEW r \in S
      PROVE  \E i \in 1 .. m + n : r \in G[i].of /\ \A j \in 1 .. m + n : r \in G[j].of => j = i
  <2>1. PICK i \in 1 .. m : r \in E[i].of /\ \A j \in 1 .. m : r \in E[j].of => j = i
    BY <1>3
  <2>2. i \in 1 .. m + n /\ G[i] = E[i]
    BY <1>1, <1>2
  <2>3. ASSUME NEW j \in 1 .. m + n, r \in G[j].of PROVE j = i
    <3>1. CASE \E k \in 1 .. n : j = m + k /\ G[j] = F[k]
      <4>1. r \in T
        BY <1>3, <2>3, <3>1
      <4> QED
        BY <4>1
    <3> QED
      BY <1>4, <2>1, <2>3, <3>1
  <2> QED
    BY <2>1, <2>2, <2>3
<1>7. ASSUME NEW r \in T
      PROVE  \E i \in 1 .. m + n : r \in G[i].of /\ \A j \in 1 .. m + n : r \in G[j].of => j = i
  <2>1. PICK i \in 1 .. n : r \in F[i].of /\ \A j \in 1 .. n : r \in F[j].of => j = i
    BY <1>3
  <2>2. m + i \in 1 .. m + n /\ G[m + i] = F[i]
    BY <1>1, <1>2
  <2>3. ASSUME NEW j \in 1 .. m + n, r \in G[j].of PROVE j = m + i
    <3>1. CASE j \in 1 .. m /\ G[j] = E[j]
      <4>1. r \in S
        BY <1>3, <2>3, <3>1
      <4> QED
        BY <4>1
    <3> QED
      BY <1>4, <2>1, <2>3, <3>1
  <2> QED
    BY <2>1, <2>2, <2>3
<1>8. Shares(G, S \cup T)
  BY <1>2, <1>5, <1>6, <1>7 DEF Shares
<1> QED
  BY <1>8 DEF G

(* Two rows of events that fit make one that does. *)
LEMMA FitsJoin ==
    ASSUME NEW E, IsRow(E), NEW F, IsRow(F), NEW R, Fits(E, R), Fits(F, R)
    PROVE  Fits(E \o F, R)
<1>1. /\ Len(E) \in Nat /\ Len(F) \in Nat /\ Len(E \o F) = Len(E) + Len(F)
      /\ \A i \in 1 .. Len(E) : (E \o F)[i] = E[i]
      /\ \A i \in 1 .. Len(F) : (E \o F)[Len(E) + i] = F[i]
  BY Concatenated DEF IsRow
<1> SUFFICES ASSUME NEW i \in 1 .. Len(E) + Len(F) PROVE EventFits((E \o F)[i], R)
  BY <1>1 DEF Fits
<1>2. CASE i <= Len(E)
  <2>1. i \in 1 .. Len(E)
    BY <1>1, <1>2
  <2> QED
    BY <1>1, <2>1 DEF Fits
<1>3. CASE i > Len(E)
  <2>1. i - Len(E) \in 1 .. Len(F) /\ i = Len(E) + (i - Len(E))
    BY <1>1, <1>3
  <2> QED
    BY <1>1, <2>1 DEF Fits
<1> QED
  BY <1>1, <1>2, <1>3

(* The events of the groups of some relations share them. *)
LEMMA GroupsShare ==
    ASSUME NEW G, NEW S, NEW kind, Bunched(G, S, kind), NEW E,
           E = [g \in DOMAIN G |-> E[g]],
           \A g \in DOMAIN G : E[g].of = ToSet(G[g])
    PROVE  Shares(E, S) /\ DOMAIN E = DOMAIN G /\ DOMAIN E = 1 .. Len(E)
<1>1. Len(G) \in Nat /\ DOMAIN G = 1 .. Len(G)
  BY DEF Bunched
<1>2. IsRow(E) /\ Len(E) = Len(G) /\ DOMAIN E = 1 .. Len(G)
  BY <1>1, RowOf
<1>3. \A g \in 1 .. Len(G) : E[g].of \subseteq S
  BY <1>1 DEF Bunched
<1>4. \A r \in S : \E g \in 1 .. Len(G) :
        r \in E[g].of /\ \A h \in 1 .. Len(G) : r \in E[h].of => h = g
  <2> TAKE r \in S
  <2>1. PICK g \in 1 .. Len(G) : r \in ToSet(G[g])
    BY DEF Bunched
  <2>2. \A h \in 1 .. Len(G) : r \in ToSet(G[h]) => h = g
    BY <2>1 DEF Bunched
  <2> QED
    BY <1>1, <2>1, <2>2
<1> QED
  BY <1>1, <1>2, <1>3, <1>4 DEF Shares

(* The event of a group of relations with verses on both sides. *)
LEMMA PairedFits ==
    ASSUME NEW R, NEW a, NEW b, Related(R, a, b), NEW S, NEW G \in Seq(S),
           ToSet(G) \subseteq Paired(TypedOf(R)), G[1] \in ToSet(G)
    PROVE  EventFits(emit(_flush_group(G), G), R)
<1> DEFINE PT == PASSTYPES \cup {"ORDER_INVERSION"}
           ranked == <<"ORDER_INVERSION", "CROSS_BOOK", "CHAPTER_MOVE", "VERSE0_TITLE">>
           there == {i \in DOMAIN ranked : \E r \in ToSet(G) : r.type = ranked[i]}
           type == _flush_group(G)
<1>1. \A r \in ToSet(G) : r \in TypedOf(R) /\ r.type \in PT
  <2> TAKE r \in ToSet(G)
  <2>1. r \in R /\ r \in TypedOf(R) /\ r.type # Same /\ r.Ap # {} /\ r.Bp # {}
    BY DEF Paired, TypedOf
  <2>2. TypeIs(r)
    BY <2>1 DEF Related
  <2> QED
    BY <2>1, <2>2 DEF TypeIs
<1>2. type \in PT
  <2>1. type = IF there = {} THEN Head(G).type ELSE ranked[Min(there)]
    BY DEF _flush_group
  <2>2. DOMAIN ranked = 1 .. 4 /\ \A i \in 1 .. 4 : ranked[i] \in PT
    BY DEF PASSTYPES
  <2>3. there \subseteq 1 .. 4
    BY <2>2
  <2>4. CASE there = {}
    <3>1. Head(G) = G[1]
      <4>1. Len(G) \in Nat /\ Len(G) # 0
        BY DEF ToSet
      <4> QED
        BY <4>1
    <3> QED
      BY <1>1, <2>1, <2>4, <3>1
  <2>5. CASE there # {}
    <3> HIDE DEF there
    <3>1. there \subseteq Nat
      BY <2>3
    <3>2. Min(there) \in there
      BY <2>5, <3>1, LeastIsOne
    <3> HIDE DEF ranked, PT
    <3> QED
      BY <2>1, <2>2, <2>3, <2>5, <3>2
  <2> QED
    BY <2>4, <2>5
<1>3. type \in TYPE_IDS /\ type # "ONE_SIDED"
  <2> HIDE DEF type
  <2> QED
    BY <1>2 DEF TYPE_IDS, PASSTYPES
<1> HIDE DEF type
<1>4. ToSet(G) \subseteq R /\ ToSet(G) \subseteq TypedOf(R)
  BY <1>1 DEF TypedOf
<1>5. Drawn(emit(type, G), ToSet(G), type)
  BY <1>4, EmitIs DEF Related
<1> DEFINE e == emit(type, G)
<1>6. e.type = type /\ e.of = ToSet(G) /\ e.n \in Nat \ {0} /\ {e.a, e.b} # {<<>>}
  BY <1>5 DEF Drawn
<1> HIDE DEF e
<1>7. EventFits(e, R)
  BY <1>3, <1>4, <1>6 DEF EventFits
<1> QED
  BY <1>7 DEF e, type

-----------------------------------------------------------------------------
(* What the relations of a group of one side have in common. *)
Ours(r, R) == IF r.type = "ONE_SIDED" /\ ~ Several(R) THEN Seat(r) ELSE 0
LoneKind(R) == [r \in R |-> <<r.type, AnchorSide(r), Missing(r), Ours(r, R)>>]

(* The event of a group with one side absent fits the relations. *)
LEMMA LoneFits ==
    ASSUME NEW R, NEW a, NEW b, Related(R, a, b), NEW G,
           ToSet(G) \subseteq TypedOf(R) \ Paired(TypedOf(R)), G[1] \in ToSet(G),
           \A x, y \in ToSet(G) : LoneKind(R)[x] = LoneKind(R)[y]
    PROVE  EventFits(emit(G[1].type, G), R)
<1> DEFINE h == G[1]
           of == ToSet(G)
           type == h.type
           e == emit(type, G)
<1>1. \A r \in of : r \in R /\ r \in TypedOf(R) /\ (r.Ap = {} \/ r.Bp = {}) /\ r.type # Same
  BY DEF Paired, TypedOf
<1>2. h \in of /\ h \in R
  BY <1>1
<1>3. type \in {"EXCLUDED", "ONE_SIDED"}
  <2>1. TypeIs(h)
    BY <1>2 DEF Related
  <2> QED
    BY <1>1, <1>2, <2>1 DEF TypeIs
<1>4. \A r \in of : r.type = type /\ AnchorSide(r) = AnchorSide(h) /\ Ours(r, R) = Ours(h, R)
  <2> TAKE r \in of
  <2>1. LoneKind(R)[r] = LoneKind(R)[h]
    BY <1>2
  <2> QED
    BY <1>1, <1>2, <2>1 DEF LoneKind
<1> HIDE DEF h
<1>5. ToSet(G) \subseteq R /\ ToSet(G) # {} /\ Bedded(R) /\ Present(R)
  BY <1>1, <1>2 DEF Related
<1> HIDE DEF type
<1>6. Drawn(emit(type, G), ToSet(G), type)
  BY <1>5, EmitIs
<1>7. e.type = type /\ e.of = of /\ e.n \in Nat \ {0} /\ {e.a, e.b} # {<<>>}
  BY <1>6 DEF Drawn
<1>8. PICK as, bs : /\ e.a = span(as) /\ e.b = span(bs)
                    /\ StandsFor(as, of, Side(of, "A")) /\ StandsFor(bs, of, Side(of, "B"))
  BY <1>6 DEF Drawn
<1> HIDE DEF e, of
<1>9. ASSUME type = "ONE_SIDED", ~ Several(R), NEW r \in of PROVE Sits(e, Seat(r))
  <2>1. \A s \in of : Seat(s) = Seat(r) /\ AnchorSide(s) = AnchorSide(r)
    <3>1. \A s \in of : Ours(s, R) = Seat(s)
      BY <1>4, <1>9 DEF Ours
    <3> QED
      BY <1>4, <3>1
  <2>2. \A s \in of : /\ s \in R /\ s.type = "ONE_SIDED"
                      /\ \/ s.A = {} /\ s.Bp # {}
                         \/ s.B = {} /\ s.Ap # {}
    <3> TAKE s \in of
    <3>1. TypeIs(s) /\ s.type = "ONE_SIDED"
      BY <1>1, <1>4, <1>9 DEF Related
    <3> QED
      BY <1>1, <3>1 DEF TypeIs
  <2>3. \A s \in of : \A x, y \in s.A \cup s.B : x[1] = y[1]
    BY <1>9, <2>2 DEF Several
  <2>4. \A s \in of : /\ s.Ap \subseteq s.A /\ s.Bp \subseteq s.B
                      /\ s.A \subseteq Verse /\ s.B \subseteq Verse
    BY <1>5, <2>2 DEF Present, Bedded
  <2>5. \A s \in of : Side(of, "A")[s] = s.A /\ Side(of, "B")[s] = s.B
    BY DEF Side
  <2>6. CASE AnchorSide(r) = "A"
    <3>1. \A s \in of : s.A # {} /\ s.B = {} /\ Seat(s) = FirstOf(s.A)[1]
      <4> TAKE s \in of
      <4>1. s.A # {}
        BY <2>1, <2>6 DEF AnchorSide
      <4> QED
        BY <2>2, <4>1 DEF Seat, AnchorVerses
    <3>2. bs = {}
      BY <1>8, <2>5, <3>1 DEF StandsFor
    <3>3. as # {} /\ as \subseteq Verse
      BY ZenonT(40), <1>2, <1>8, <2>4, <2>5, <3>1 DEF StandsFor
    <3>4. FirstOf(as) \in as
      BY <3>3, FirstIsOne
    <3>5. PICK s \in of : FirstOf(as) \in s.A
      BY <1>8, <2>5, <3>4 DEF StandsFor
    <3>6. FirstOf(s.A) \in s.A
      BY <2>4, <3>1, FirstIsOne
    <3>7. FirstOf(as)[1] = Seat(r)
      BY ZenonT(40), <2>1, <2>3, <3>1, <3>5, <3>6
    <3>8. e.b = <<>> /\ e.a # <<>> /\ e.a[1] = FirstOf(as)[1]
      <4>1. span(bs) = <<>>
        BY <3>2, SpanIs
      <4>2. span(as) # <<>> /\ span(as)[1] = FirstOf(as)[1]
        BY <3>3, SpanIs
      <4> QED
        BY <1>8, <4>1, <4>2
    <3> QED
      BY <3>7, <3>8 DEF Sits
  <2>7. CASE AnchorSide(r) # "A"
    <3>1. \A s \in of : s.A = {} /\ s.B # {} /\ Seat(s) = FirstOf(s.B)[1]
      <4> TAKE s \in of
      <4>1. s.A = {}
        BY <2>1, <2>7 DEF AnchorSide
      <4>2. s.B # {}
        BY <2>2, <2>4, <4>1
      <4> QED
        BY <4>1, <4>2 DEF Seat, AnchorVerses
    <3>2. as = {}
      BY <1>8, <2>5, <3>1 DEF StandsFor
    <3>3. bs # {} /\ bs \subseteq Verse
      BY <1>2, <1>8, <2>4, <2>5, <3>1 DEF StandsFor
    <3>4. FirstOf(bs) \in bs
      BY <3>3, FirstIsOne
    <3>5. PICK s \in of : FirstOf(bs) \in s.B
      BY <1>8, <2>5, <3>4 DEF StandsFor
    <3>6. FirstOf(s.B) \in s.B
      BY <2>4, <3>1, FirstIsOne
    <3>7. FirstOf(bs)[1] = Seat(r)
      BY <2>1, <2>3, <3>1, <3>5, <3>6
    <3>8. e.a = <<>> /\ e.b # <<>> /\ e.b[1] = FirstOf(bs)[1]
      BY <1>8, <3>2, <3>3, SpanIs
    <3> QED
      BY <3>7, <3>8 DEF Sits
  <2> QED
    BY <2>6, <2>7
<1>10. type \in TYPE_IDS
  BY <1>3 DEF TYPE_IDS
<1>11. e.of \subseteq TypedOf(R)
  BY <1>1, <1>7
<1>12. EventFits(e, R)
  BY <1>4, <1>7, <1>9, <1>10, <1>11 DEF EventFits
<1> QED
  BY <1>12 DEF e, type, h

(* Relations of one side that follow each other have the same of it all. *)
LEMMA LoneJoinsKind ==
    ASSUME NEW R, NEW a, NEW b, Related(R, a, b), NEW p \in R, NEW r \in R, LoneJoins(p, r)
    PROVE  LoneKind(R)[p] = LoneKind(R)[r]
<1>1. /\ p.type = r.type /\ AnchorSide(p) = AnchorSide(r) /\ Missing(p) = Missing(r)
      /\ LastOf(AnchorVerses(p))[1] = FirstOf(AnchorVerses(r))[1]
  BY DEF LoneJoins, _adjacent
<1>2. ASSUME p.type = "ONE_SIDED", ~ Several(R) PROVE Seat(p) = Seat(r)
  <2> DEFINE S == AnchorVerses(p)
  <2>1. /\ p.A \subseteq Verse /\ p.B \subseteq Verse
        /\ IsFiniteSet(p.A) /\ IsFiniteSet(p.B) /\ (p.A # {} \/ p.B # {})
    BY DEF Related, Bedded
  <2>2. S # {} /\ S \subseteq Verse /\ IsFiniteSet(S) /\ S \subseteq p.A \cup p.B
    BY <2>1 DEF AnchorVerses
  <2>3. \A x, y \in p.A \cup p.B : x[1] = y[1]
    BY <1>2 DEF Several
  <2> HIDE DEF S
  <2>4. FirstOf(S) \in S /\ LastOf(S) \in S
    BY <2>2, FirstIsOne, LastIsOne
  <2>5. FirstOf(S)[1] = LastOf(S)[1]
    BY <2>2, <2>3, <2>4
  <2> QED
    BY <1>1, <2>5 DEF Seat, S
<1>3. Ours(p, R) = Ours(r, R)
  BY <1>1, <1>2 DEF Ours
<1> QED
  BY <1>1, <1>3 DEF LoneKind

(* Rows of the same length that agree at every place are equal. *)
LEMMA SameRows ==
    ASSUME NEW E, IsRow(E), NEW F, IsRow(F), Len(E) = Len(F),
           \A i \in 1 .. Len(E) : E[i] = F[i]
    PROVE  E = F
<1>1. E = [i \in 1 .. Len(E) |-> E[i]] /\ F = [i \in 1 .. Len(E) |-> F[i]]
  BY DEF IsRow
<1> QED
  BY <1>1

(* The groups of one side only. *)
LEMMA LoneGroupsBunch ==
    ASSUME Related(relations, A, B), NEW side
    PROVE  /\ Bunched(LoneGroups(side), Lone(side), LoneKind(relations))
           /\ Lone(side) \subseteq TypedOf(relations) \ Paired(TypedOf(relations))
           /\ \A r \in Lone(side) : AnchorSide(r) = side
<1> DEFINE S == Lone(side)
           key == [r \in S |-> FirstOf(AnchorVerses(r))]
           seq == Ordered(S, key)
           joining == {i \in 2 .. Len(seq) : LoneJoins(seq[i - 1], seq[i])}
           n == Cardinality(S)
           kind == LoneKind(relations)
<1>1. /\ S \subseteq TypedOf(relations) \ Paired(TypedOf(relations)) /\ S \subseteq relations
      /\ \A r \in S : AnchorSide(r) = side
  BY DEF Lone, Typed, TypedOf
<1> HIDE DEF S
<1>2. Bedded(S)
  BY <1>1, SomeAreBedded DEF Related
<1>3. Keyed(S, key)
  <2> SUFFICES ASSUME NEW r \in S
               PROVE (r.A # {} => key[r] \in r.A) /\ (r.A = {} => key[r] \in r.B)
    BY DEF Keyed
  <2>1. r.A \subseteq Verse /\ r.B \subseteq Verse /\ (r.A # {} \/ r.B # {})
    BY <1>2 DEF Bedded
  <2>2. /\ r.A # {} => FirstOf(r.A) \in r.A
        /\ r.A = {} => FirstOf(r.B) \in r.B
    BY <2>1, FirstIsOne
  <2>3. key[r] = FirstOf(AnchorVerses(r))
    OBVIOUS
  <2> QED
    BY <2>2, <2>3 DEF AnchorVerses
<1> HIDE DEF key
<1>4. Lists(seq, S, Sooner(S, key), n)
  BY <1>2, <1>3, OrderedLists
<1> HIDE DEF seq
<1>5. n \in Nat /\ Len(seq) = n /\ seq \in [1 .. n -> S]
  BY <1>4 DEF Lists
<1>6. \A i \in joining : i \in 2 .. n /\ kind[seq[i - 1]] = kind[seq[i]]
  <2> TAKE i \in joining
  <2>1. i \in 2 .. n /\ LoneJoins(seq[i - 1], seq[i])
    BY <1>5
  <2>2. seq[i - 1] \in relations /\ seq[i] \in relations
    BY <1>1, <1>5, <2>1
  <2> QED
    BY <2>1, <2>2, LoneJoinsKind
<1> HIDE DEF joining, kind
<1>7. Bunched(Groups(seq, joining), S, kind)
  BY <1>4, <1>6, GroupsBunch
<1>8. LoneGroups(side) = Groups(seq, joining)
  BY DEF LoneGroups, seq, key, joining, S
<1> QED
  BY <1>1, <1>7, <1>8 DEF S, kind

(* The groups of relations present on both sides hold each of them once. *)
LEMMA PairedGroupsBunch ==
    ASSUME Related(relations, A, B)
    PROVE  \E kind : Bunched(PairedGroups, Paired(TypedOf(relations)), kind)
<1> DEFINE S == Paired(TypedOf(relations))
           seq == ByFirstA(S)
           joining == {i \in 2 .. Len(seq) : Joins(seq[i - 1], seq[i])}
           n == Cardinality(S)
           kind == [r \in S |-> 0]
<1>1. S \subseteq Paired(relations)
  BY DEF Paired, TypedOf
<1>2. Typed = TypedOf(relations)
  BY DEF Typed, TypedOf
<1> HIDE DEF S
<1>3. Lists(seq, S, Sooner(S, KeyA(S)), n)
  BY <1>1, ByFirstALists DEF Related
<1>4. PairedGroups = Groups(seq, joining)
  BY <1>2 DEF PairedGroups, S
<1> HIDE DEF seq
<1>5. n \in Nat /\ Len(seq) = n /\ seq \in [1 .. n -> S]
  BY <1>3 DEF Lists
<1>6. \A i \in joining : i \in 2 .. n /\ kind[seq[i - 1]] = kind[seq[i]]
  BY <1>5
<1> HIDE DEF joining, kind
<1>7. Bunched(Groups(seq, joining), S, kind)
  BY <1>3, <1>6, GroupsBunch
<1> QED
  BY <1>4, <1>7 DEF S

-----------------------------------------------------------------------------
(* The events of the relations tell each of them that differs once. *)
LEMMA RelationsAreTold ==
    ASSUME Related(relations, A, B)
    PROVE  Fits(RelationEvents, relations) /\ Shares(RelationEvents, TypedOf(relations))
<1> DEFINE T == TypedOf(relations)
           P == Paired(T)
           both == PairedGroups
           GA == LoneGroups("A")
           GB == LoneGroups("B")
           alone == GA \o GB
           E == [i \in DOMAIN both |-> emit(_flush_group(both[i]), both[i])]
           FA == [i \in DOMAIN GA |-> emit(GA[i][1].type, GA[i])]
           FB == [i \in DOMAIN GB |-> emit(GB[i][1].type, GB[i])]
           F == [i \in DOMAIN alone |-> emit(alone[i][1].type, alone[i])]
<1>1. RelationEvents = E \o F
  BY DEF RelationEvents
<1>2. PICK kind : Bunched(both, P, kind)
  BY PairedGroupsBunch
<1>3. /\ Bunched(GA, Lone("A"), LoneKind(relations)) /\ Lone("A") \subseteq T \ P
      /\ Bunched(GB, Lone("B"), LoneKind(relations)) /\ Lone("B") \subseteq T \ P
      /\ \A r \in Lone("A") : AnchorSide(r) = "A"
      /\ \A r \in Lone("B") : AnchorSide(r) = "B"
  BY LoneGroupsBunch
<1>4. T = P \cup (Lone("A") \cup Lone("B")) /\ Lone("A") \cap Lone("B") = {}
      /\ P \cap (Lone("A") \cup Lone("B")) = {}
  <2>1. \A r \in T \ P : AnchorSide(r) \in {"A", "B"}
    BY DEF AnchorSide
  <2>2. \A r \in T \ P : r \in Lone("A") \/ r \in Lone("B")
    BY <2>1 DEF Lone, Typed, TypedOf
  <2>3. P \subseteq T
    BY DEF Paired
  <2> HIDE DEF T, P
  <2> QED
    BY <1>3, <2>2, <2>3
<1>5. /\ both \in Seq(Seq(P)) /\ DOMAIN both = 1 .. Len(both)
      /\ \A g \in DOMAIN both : ToSet(both[g]) \subseteq P /\ both[g][1] \in ToSet(both[g])
  BY <1>2 DEF Bunched
<1> HIDE DEF T, P, both, GA, GB
<1>6. \A g \in DOMAIN both :
        /\ EventFits(emit(_flush_group(both[g]), both[g]), relations)
        /\ emit(_flush_group(both[g]), both[g]).of = ToSet(both[g])
  <2> TAKE g \in DOMAIN both
  <2>1. both[g] \in Seq(P) /\ ToSet(both[g]) \subseteq P /\ both[g][1] \in ToSet(both[g])
    BY <1>5
  <2>2. EventFits(emit(_flush_group(both[g]), both[g]), relations)
    BY <2>1, PairedFits DEF P, T
  <2> QED
    BY <2>2 DEF emit
<1>7. Shares(E, P) /\ Fits(E, relations)
  <2>1. E = [g \in DOMAIN both |-> E[g]] /\ \A g \in DOMAIN both : E[g].of = ToSet(both[g])
    BY <1>6
  <2>2. \A g \in DOMAIN both : EventFits(E[g], relations)
    BY <1>6
  <2> HIDE DEF E
  <2>3. Shares(E, P) /\ DOMAIN E = DOMAIN both /\ DOMAIN E = 1 .. Len(E)
    BY <1>2, <2>1, GroupsShare
  <2> QED
    BY <2>2, <2>3 DEF Fits
<1>8. ASSUME NEW G, NEW side, G = LoneGroups(side), Lone(side) \subseteq T \ P,
             Bunched(G, Lone(side), LoneKind(relations)),
             NEW H, H = [i \in DOMAIN G |-> emit(G[i][1].type, G[i])]
      PROVE  Shares(H, Lone(side)) /\ Fits(H, relations) /\ Len(H) = Len(G)
             /\ IsRow(G) /\ DOMAIN G = 1 .. Len(G)
  <2>1. /\ G \in Seq(Seq(Lone(side))) /\ DOMAIN G = 1 .. Len(G) /\ Len(G) \in Nat
        /\ \A g \in DOMAIN G : ToSet(G[g]) \subseteq Lone(side) /\ G[g][1] \in ToSet(G[g])
        /\ \A g \in DOMAIN G : \A x, y \in ToSet(G[g]) :
                LoneKind(relations)[x] = LoneKind(relations)[y]
    BY <1>8 DEF Bunched
  <2>2. \A g \in DOMAIN G : /\ EventFits(emit(G[g][1].type, G[g]), relations)
                            /\ emit(G[g][1].type, G[g]).of = ToSet(G[g])
    <3> TAKE g \in DOMAIN G
    <3>1. ToSet(G[g]) \subseteq T \ P /\ G[g][1] \in ToSet(G[g])
      BY <1>8, <2>1
    <3>2. EventFits(emit(G[g][1].type, G[g]), relations)
      BY <2>1, <3>1, LoneFits DEF T, P
    <3> QED
      BY <3>2 DEF emit
  <2>3. H = [g \in DOMAIN G |-> H[g]] /\ \A g \in DOMAIN G : H[g].of = ToSet(G[g])
    BY <1>8, <2>2
  <2>4. \A g \in DOMAIN G : EventFits(H[g], relations)
    BY <1>8, <2>2
  <2>5. Shares(H, Lone(side)) /\ DOMAIN H = DOMAIN G /\ DOMAIN H = 1 .. Len(H)
    BY <1>8, <2>3, GroupsShare
  <2>6. IsRow(G)
    BY <2>1, LenProperties DEF IsRow
  <2>7. Len(H) = Len(G)
    <3>1. H = [g \in 1 .. Len(G) |-> H[g]]
      BY <2>1, <2>3
    <3> QED
      BY <2>1, <3>1, RowOf
  <2> QED
    BY <2>1, <2>4, <2>5, <2>6, <2>7 DEF Fits
<1>9. /\ Shares(FA, Lone("A")) /\ Fits(FA, relations) /\ Len(FA) = Len(GA)
      /\ Shares(FB, Lone("B")) /\ Fits(FB, relations) /\ Len(FB) = Len(GB)
      /\ IsRow(GA) /\ DOMAIN GA = 1 .. Len(GA)
      /\ IsRow(GB) /\ DOMAIN GB = 1 .. Len(GB)
  BY <1>3, <1>8 DEF GA, GB
<1>10. F = FA \o FB
  <2>1. IsRow(FA) /\ IsRow(FB)
    BY <1>9 DEF Shares
  <2>2. /\ IsRow(alone) /\ Len(alone) = Len(GA) + Len(GB)
        /\ \A i \in 1 .. Len(GA) : alone[i] = GA[i]
        /\ \A i \in 1 .. Len(GB) : alone[Len(GA) + i] = GB[i]
    BY <1>9, Concatenated
  <2>3. /\ IsRow(FA \o FB) /\ Len(FA \o FB) = Len(GA) + Len(GB)
        /\ \A i \in 1 .. Len(GA) : (FA \o FB)[i] = FA[i]
        /\ \A i \in 1 .. Len(GB) : (FA \o FB)[Len(GA) + i] = FB[i]
    <3> HIDE DEF FA, FB
    <3>1. /\ IsRow(FA \o FB) /\ Len(FA \o FB) = Len(FA) + Len(FB)
          /\ \A i \in 1 .. Len(FA) : (FA \o FB)[i] = FA[i]
          /\ \A i \in 1 .. Len(FB) : (FA \o FB)[Len(FA) + i] = FB[i]
      BY <2>1, Concatenated
    <3>2. Len(FA) = Len(GA) /\ Len(FB) = Len(GB)
      BY <1>9
    <3> QED
      BY <3>1, <3>2
  <2>4. DOMAIN alone = 1 .. Len(alone) /\ Len(alone) \in Nat /\ Len(GA) \in Nat /\ Len(GB) \in Nat
    BY <1>9, <2>2 DEF IsRow
  <2>5. IsRow(F) /\ Len(F) = Len(alone)
    <3>1. F = [i \in 1 .. Len(alone) |-> F[i]]
      BY <2>4
    <3> HIDE DEF F
    <3> QED
      BY <2>4, <3>1, RowOf
  <2>6. /\ \A i \in 1 .. Len(GA) : FA[i] = emit(GA[i][1].type, GA[i])
        /\ \A i \in 1 .. Len(GB) : FB[i] = emit(GB[i][1].type, GB[i])
        /\ \A i \in 1 .. Len(alone) : F[i] = emit(alone[i][1].type, alone[i])
    BY <1>9, <2>4
  <2> HIDE DEF F, FA, FB, alone
  <2>7. \A i \in 1 .. Len(F) : F[i] = (FA \o FB)[i]
    <3> TAKE i \in 1 .. Len(F)
    <3>0. i \in 1 .. Len(GA) + Len(GB) /\ i \in 1 .. Len(alone)
      BY <2>2, <2>5
    <3>1. CASE i <= Len(GA)
      <4>1. i \in 1 .. Len(GA)
        BY <2>4, <3>0, <3>1
      <4> QED
        BY ZenonT(40), <2>2, <2>3, <2>6, <3>0, <4>1
    <3>2. CASE i > Len(GA)
      <4> DEFINE k == i - Len(GA)
      <4>1. k \in 1 .. Len(GB) /\ i = Len(GA) + k
        BY <2>4, <3>0, <3>2
      <4>2. alone[i] = GB[k] /\ (FA \o FB)[i] = FB[k]
        BY <2>2, <2>3, <4>1
      <4> HIDE DEF k
      <4> QED
        BY <2>6, <3>0, <4>1, <4>2
    <3>3. i <= Len(GA) \/ i > Len(GA)
      BY <2>4, <3>0
    <3> QED
      BY <3>1, <3>2, <3>3
  <2> QED
    BY <2>2, <2>3, <2>5, <2>7, SameRows
<1>11. Shares(F, Lone("A") \cup Lone("B")) /\ Fits(F, relations)
  <2>1. Shares(FA \o FB, Lone("A") \cup Lone("B"))
    BY <1>4, <1>9, SharesJoin
  <2>2. IsRow(FA) /\ IsRow(FB)
    BY <1>9 DEF Shares
  <2>3. Fits(FA \o FB, relations)
    BY <1>9, <2>2, FitsJoin
  <2> QED
    BY <1>10, <2>1, <2>3
<1> HIDE DEF E, F
<1>12. Shares(E \o F, T) /\ Fits(E \o F, relations)
  <2>1. Shares(E \o F, P \cup (Lone("A") \cup Lone("B")))
    BY <1>4, <1>7, <1>11, SharesJoin
  <2>2. IsRow(E) /\ IsRow(F)
    BY <1>7, <1>11 DEF Shares
  <2>3. Fits(E \o F, relations)
    BY <1>7, <1>11, <2>2, FitsJoin
  <2> QED
    BY <1>4, <2>1, <2>3
<1> QED
  BY <1>1, <1>12 DEF T

-----------------------------------------------------------------------------
(* --- Bridges and parts --- *)

(* Events of no relation do not change what is shared. *)
NoneOf(E) ==
    /\ IsRow(E)
    /\ \A i \in 1 .. Len(E) : E[i].of = {} /\ E[i].type \in {"BRIDGE", "SEGMENT"}

(* Events of no relation share out nothing. *)
LEMMA NoneShares ==
    ASSUME NEW E, NoneOf(E)
    PROVE  Shares(E, {})
BY DEF NoneOf, Shares

(* A bridge is some verses. *)
LEMMA BridgeIs ==
    ASSUME NEW r, Bridged(r)
    PROVE  /\ BridgeSet(r) # {} /\ BridgeSet(r) \subseteq Verse
           /\ Cardinality(BridgeSet(r)) \in Nat \ {0}
<1> DEFINE S == BridgeSet(r)
           f == [v \in r.lo .. r.hi |-> <<r.book, r.chapter, v>>]
<1>1. {r.book, r.chapter, r.lo, r.hi} \subseteq Nat /\ r.lo < r.hi
  BY DEF Bridged
<1>2. S = {<<r.book, r.chapter, v>> : v \in r.lo .. r.hi}
  BY DEF BridgeSet
<1>3. S \subseteq Verse
  BY <1>1, <1>2 DEF Verse
<1>4. r.lo \in r.lo .. r.hi
  BY <1>1
<1>5. S # {}
  BY <1>2, <1>4
<1>6. IsFiniteSet(S)
  <2>1. r.lo \in Int /\ r.hi \in Int
    BY <1>1
  <2>2. IsFiniteSet(r.lo .. r.hi)
    BY <2>1, FS_Interval
  <2>3. \A t \in S : \E v \in r.lo .. r.hi : t = f[v]
    BY <1>2
  <2> HIDE DEF f, S
  <2> QED
    BY <2>2, <2>3, ImageIsFinite
<1>7. Cardinality(S) \in Nat /\ Cardinality(S) # 0
  BY <1>5, <1>6, FS_CardinalityType, FS_EmptySet
<1> QED
  BY <1>3, <1>5, <1>7

(* The events of bridges have a type, a number and a side, and no relation. *)
LEMMA BridgesTold ==
    ASSUME SchemeOK(A), SchemeOK(B), NEW side
    PROVE  Fits(BridgeEvents(side), relations) /\ NoneOf(BridgeEvents(side))
<1> DEFINE mine == IF side = "A" THEN A.bridges ELSE B.bridges
           others == {BridgeSet(k) : k \in ToSet(IF side = "A" THEN B.bridges ELSE A.bridges)}
           Counterpart(bridge) ==
              UNION {IF side = "A" THEN a_to_b(x) ELSE b_to_a(x) : x \in BridgeSet(bridge)}
           places == {i \in DOMAIN mine :
                Counterpart(mine[i]) = {} \/ Counterpart(mine[i]) \notin others}
           lonely == Pick(mine, places)
           Event(as, bs, n) == [type |-> "BRIDGE", a |-> span(as), o |-> <<>>,
                                b |-> span(bs), n |-> n, of |-> {}]
           Of(bridge) == IF side = "A"
              THEN Event(BridgeSet(bridge), Counterpart(bridge), Cardinality(BridgeSet(bridge)))
              ELSE Event(Counterpart(bridge), BridgeSet(bridge), Cardinality(BridgeSet(bridge)))
           E == [i \in DOMAIN lonely |-> Of(lonely[i])]
           n == Cardinality(places)
<1>1. BridgeEvents(side) = E
  BY DEF BridgeEvents
<1>2. BridgesOK(mine)
  BY DEF SchemeOK
<1>3. places \subseteq DOMAIN mine
  OBVIOUS
<1> HIDE DEF mine, places
<1>4. /\ mine \in Seq(ToSet(mine)) /\ \A i \in DOMAIN mine : Bridged(mine[i])
      /\ DOMAIN mine = 1 .. Len(mine) /\ Len(mine) \in Nat
  <2>1. mine \in Seq(ToSet(mine)) /\ \A r \in ToSet(mine) : Bridged(r)
    BY <1>2 DEF BridgesOK
  <2>2. \A i \in DOMAIN mine : mine[i] \in ToSet(mine)
    BY DEF ToSet
  <2> QED
    BY <2>1, <2>2
<1>5. places \subseteq Nat /\ IsFiniteSet(places)
  <2>1. places \subseteq 1 .. Len(mine) /\ 1 .. Len(mine) \subseteq Nat
    BY <1>3, <1>4
  <2>2. 1 \in Int /\ Len(mine) \in Int
    BY <1>4
  <2>3. IsFiniteSet(1 .. Len(mine))
    BY <2>2, FS_Interval
  <2> QED
    BY <2>1, <2>3, FS_Subset
<1>6. PICK f : Picks(lonely, mine, places, n, f)
  BY <1>5, PicksPlaces
<1> HIDE DEF lonely
<1>7. /\ n \in Nat /\ lonely \in [1 .. n -> {mine[i] : i \in places}] /\ f \in [1 .. n -> places]
      /\ \A k \in 1 .. n : lonely[k] = mine[f[k]]
  BY <1>6 DEF Picks
<1> HIDE DEF n
<1>8. DOMAIN lonely = 1 .. n /\ \A k \in 1 .. n : Bridged(lonely[k])
  <2>1. DOMAIN lonely = 1 .. n
    BY <1>7
  <2>2. \A k \in 1 .. n : f[k] \in DOMAIN mine
    BY <1>3, <1>7
  <2> QED
    BY <1>4, <1>7, <2>1, <2>2
<1> HIDE DEF Counterpart
<1>9. ASSUME NEW k \in 1 .. n
      PROVE  EventFits(E[k], relations) /\ E[k].of = {} /\ E[k].type = "BRIDGE"
  <2>1. /\ BridgeSet(lonely[k]) # {} /\ Cardinality(BridgeSet(lonely[k])) \in Nat \ {0}
    BY <1>8, BridgeIs
  <2>2. span(BridgeSet(lonely[k])) # <<>>
    BY <2>1, SpanIs
  <2>3. E[k] = Of(lonely[k])
    BY <1>8
  <2>4. "BRIDGE" \in TYPE_IDS
    BY DEF TYPE_IDS
  <2>5. /\ E[k].type = "BRIDGE" /\ E[k].of = {} /\ E[k].n = Cardinality(BridgeSet(lonely[k]))
        /\ span(BridgeSet(lonely[k])) \in {E[k].a, E[k].b}
    <3>1. CASE side = "A"
      <4>1. E[k] = Event(BridgeSet(lonely[k]), Counterpart(lonely[k]),
                         Cardinality(BridgeSet(lonely[k])))
        BY <2>3, <3>1
      <4> HIDE DEF E
      <4> QED
        BY <4>1
    <3>2. CASE side # "A"
      <4>1. E[k] = Event(Counterpart(lonely[k]), BridgeSet(lonely[k]),
                         Cardinality(BridgeSet(lonely[k])))
        BY <2>3, <3>2
      <4> HIDE DEF E
      <4> QED
        BY <4>1
    <3> QED
      BY <3>1, <3>2
  <2> HIDE DEF E
  <2>6. {E[k].a, E[k].b} # {<<>>}
    BY <2>2, <2>5
  <2> QED
    BY <2>1, <2>4, <2>5, <2>6 DEF EventFits
<1>10. IsRow(E) /\ Len(E) = n
  <2>1. E = [i \in 1 .. n |-> E[i]]
    BY <1>8
  <2> HIDE DEF E
  <2> QED
    BY <1>7, <2>1, RowOf
<1> HIDE DEF E
<1> QED
  BY <1>1, <1>9, <1>10 DEF Fits, NoneOf

(* The events of parts have a type, a number and a side, and no relation. *)
LEMMA SegmentsTold ==
    ASSUME SchemeOK(A), SchemeOK(B), Related(relations, A, B)
    PROVE  Fits(SegmentEvents, relations) /\ NoneOf(SegmentEvents)
<1> DEFINE pairs == {p \in UNION {r.Ap \X r.Bp : r \in relations} :
                        SegmentsOf(A, p[1]) # SegmentsOf(B, p[2])}
           differ == InOrder(pairs, {q \in pairs \X pairs :
                    \/ Before(q[1][1], q[2][1])
                    \/ q[1][1] = q[2][1] /\ Before(q[1][2], q[2][2])})
           Event(p) == [type |-> "SEGMENT", a |-> span({p[1]}), o |-> <<>>,
                        b |-> span({p[2]}), n |-> 1, of |-> {}]
           E == [i \in DOMAIN differ |-> Event(differ[i])]
           n == Cardinality(pairs)
<1>1. SegmentEvents = E
  BY DEF SegmentEvents
<1>2. pairs \subseteq verses(A) \X verses(B)
  <2>1. \A r \in relations : r.Ap \subseteq verses(A) /\ r.Bp \subseteq verses(B)
    BY DEF Related, PassHas
  <2>2. pairs \subseteq UNION {r.Ap \X r.Bp : r \in relations}
    OBVIOUS
  <2>3. UNION {r.Ap \X r.Bp : r \in relations} \subseteq verses(A) \X verses(B)
    BY <2>1
  <2> HIDE DEF pairs
  <2> QED
    BY <2>2, <2>3
<1>3. IsFiniteSet(pairs)
  <2>1. IsFiniteSet(verses(A)) /\ IsFiniteSet(verses(B))
    BY VersesAreFinite DEF SchemeOK
  <2>2. IsFiniteSet(verses(A) \X verses(B))
    BY <2>1, FS_Product
  <2> HIDE DEF pairs
  <2> QED
    BY <1>2, <2>2, FS_Subset
<1>4. n \in Nat
  BY <1>3, FS_CardinalityType
<1> HIDE DEF pairs
<1>5. DOMAIN differ = 1 .. n
  BY DEF InOrder
<1> HIDE DEF n, differ
<1>6. IsRow(E) /\ Len(E) = n
  <2>1. E = [i \in 1 .. n |-> E[i]]
    BY <1>5
  <2> HIDE DEF E
  <2> QED
    BY <1>4, <2>1, RowOf
<1>7. ASSUME NEW k \in 1 .. n
      PROVE  EventFits(E[k], relations) /\ E[k].of = {} /\ E[k].type = "SEGMENT"
  <2>1. span({differ[k][1]}) # <<>>
    BY SpanIs
  <2>2. E[k].type = "SEGMENT" /\ E[k].of = {} /\ E[k].n = 1 /\ E[k].a = span({differ[k][1]})
    BY <1>5
  <2>3. "SEGMENT" \in TYPE_IDS
    BY DEF TYPE_IDS
  <2> HIDE DEF E
  <2>4. {E[k].a, E[k].b} # {<<>>}
    BY <2>1, <2>2
  <2>5. E[k].n \in Nat \ {0} /\ E[k].of \subseteq TypedOf(relations)
    BY <2>2
  <2> QED
    BY <2>2, <2>3, <2>4, <2>5 DEF EventFits
<1> HIDE DEF E
<1> QED
  BY <1>1, <1>6, <1>7 DEF Fits, NoneOf

-----------------------------------------------------------------------------
(* --- Books of one side --- *)

(* A total of natural numbers is one. *)
LEMMA TotalIs ==
    ASSUME NEW numbers \in Seq(Nat)
    PROVE  Total(numbers) \in Nat
<1> DEFINE n == Len(numbers)
           step == [k \in 1 .. n |-> [t \in Nat |-> t + numbers[k]]]
           total == CHOOSE f : f = [i \in 0 .. n |-> IF i = 0 THEN 0 ELSE f[i - 1] + numbers[i]]
<1>1. n \in Nat /\ \A k \in 1 .. n : numbers[k] \in Nat
  OBVIOUS
<1>2. step \in Steps(n, Nat) /\ 0 \in Nat
  <2>1. \A k \in 1 .. n : [t \in Nat |-> t + numbers[k]] \in [Nat -> Nat]
    BY <1>1
  <2> QED
    BY <2>1 DEF Steps
<1>3. \A k \in 1 .. n, t \in Nat : step[k][t] = t + numbers[k]
  OBVIOUS
<1>4. PICK f : f \in Recursions(n, Nat, 0, step)
  <2> HIDE DEF n, step
  <2>1. Recursions(n, Nat, 0, step) # {}
    BY ONLY <1>1, <1>2, RecursionDefines
  <2> QED
    BY <2>1
<1>5. f \in [0 .. n -> Nat] /\ f[0] = 0 /\ \A k \in 1 .. n : f[k] = f[k - 1] + numbers[k]
  <2>1. f \in [0 .. n -> Nat] /\ f[0] = 0 /\ \A k \in 1 .. n : f[k] = step[k][f[k - 1]]
    BY <1>4 DEF Recursions
  <2>2. \A k \in 1 .. n : k - 1 \in 0 .. n
    BY <1>1
  <2> HIDE DEF step
  <2> QED
    BY <1>3, <2>1, <2>2
<1> HIDE DEF step
<1>6. f = [i \in 0 .. n |-> IF i = 0 THEN 0 ELSE f[i - 1] + numbers[i]]
  BY <1>1, <1>5
<1>7. total = [i \in 0 .. n |-> IF i = 0 THEN 0 ELSE total[i - 1] + numbers[i]]
  BY <1>6
<1>8. Total(numbers) = total[n]
  BY DEF Total
<1> HIDE DEF total
<1> DEFINE good == {k \in 0 .. n : total[k] \in Nat}
<1>9. 0 \in good
  <2>1. 0 \in 0 .. n
    BY <1>1
  <2> QED
    BY <1>7, <2>1
<1>10. ASSUME NEW k \in 1 .. n, k - 1 \in good PROVE k \in good
  <2>1. k \in 0 .. n /\ k # 0
    BY <1>1
  <2>2. total[k] = total[k - 1] + numbers[k]
    BY <1>7, <2>1
  <2> QED
    BY <1>1, <1>10, <2>1, <2>2
<1>11. n \in good
  <2> HIDE DEF good
  <2>1. 0 .. n \subseteq good
    BY <1>1, <1>9, <1>10, StaysUpTo
  <2> QED
    BY <1>1, <2>1
<1> QED
  BY <1>8, <1>11

-----------------------------------------------------------------------------
(* Every relation that differs is told once, or its book is. *)
Once(E, r) ==
    \E i \in 1 .. Len(E) : r \in E[i].of /\ \A j \in 1 .. Len(E) : r \in E[j].of => j = i
BookTells(E, R, r) ==
    \E i \in 1 .. Len(E) : /\ E[i].type = "BOOK_ONE_SIDED"
                           /\ Several(R) \/ (E[i].a \o E[i].b)[1] = Seat(r)
Told(E, R) ==
    /\ IsRow(E) /\ Fits(E, R)
    /\ \A r \in TypedOf(R) :
        \/ Once(E, r)
        \/ r.type = "ONE_SIDED" /\ (\A i \in 1 .. Len(E) : r \notin E[i].of) /\ BookTells(E, R, r)

(* One of two sides told: the book is read off either. *)
LEMMA FirstOfBoth ==
    ASSUME NEW w, IsRow(w), Len(w) > 0, NEW e, IsRow(e), Len(e) = 0
    PROVE  (w \o e)[1] = w[1] /\ (e \o w)[1] = w[1]
<1>1. Len(w) \in Nat /\ 1 \in 1 .. Len(w)
  BY DEF IsRow
<1>2. \A i \in 1 .. Len(w) : (w \o e)[i] = w[i]
  BY Concatenated
<1>3. \A i \in 1 .. Len(w) : (e \o w)[Len(e) + i] = w[i]
  BY Concatenated
<1>4. (e \o w)[0 + 1] = w[1]
  BY <1>1, <1>3
<1> QED
  BY <1>1, <1>2, <1>4

(* A whole book is told under the book. *)
LEMMA WholeBook ==
    ASSUME NEW book, NEW m, NEW k
    PROVE  /\ (<<book, 1, 1, m, k>> \o <<>>)[1] = book
           /\ (<<>> \o <<book, 1, 1, m, k>>)[1] = book
<1> DEFINE w == <<book, 1, 1, m, k>>
           e == <<>>
<1>1. IsRow(w) /\ Len(w) = 5 /\ w[1] = book
  <2>1. w = [i \in 1 .. 5 |-> w[i]] /\ 5 \in Nat /\ w[1] = book
    OBVIOUS
  <2> HIDE DEF w
  <2> QED
    BY <2>1, RowOf
<1>2. IsRow(e) /\ Len(e) = 0
  BY DEF IsRow
<1> HIDE DEF w, e
<1>3. Len(w) > 0
  BY <1>1
<1>4. (w \o e)[1] = w[1] /\ (e \o w)[1] = w[1]
  BY <1>1, <1>2, <1>3, FirstOfBoth
<1>5. (w \o e)[1] = book /\ (e \o w)[1] = book
  BY <1>1, <1>4
<1> QED
  BY <1>5 DEF w, e

(* Some events in the place of which an event of their book comes. *)
LEMMA BookTakesOver ==
    ASSUME NEW R, NEW E, Told(E, R), NEW mine, mine \subseteq DOMAIN E, NEW w, NEW book,
           \A i \in mine : E[i].type = "ONE_SIDED",
           EventFits(w, R), w.type = "BOOK_ONE_SIDED", w.of = {}, (w.a \o w.b)[1] = book,
           \A i \in mine, r \in TypedOf(R) :
                r \in E[i].of => Several(R) \/ Seat(r) = book
    PROVE  Told(Append(Pick(E, DOMAIN E \ mine), w), R)
<1> DEFINE rest == DOMAIN E \ mine
           P == Pick(E, rest)
           n == Cardinality(rest)
           N == Append(P, w)
<1>1. IsRow(E) /\ Fits(E, R) /\ Len(E) \in Nat /\ DOMAIN E = 1 .. Len(E)
  <2>1. IsRow(E) /\ Fits(E, R)
    BY DEF Told
  <2> QED
    BY <2>1 DEF IsRow
<1>2. rest \subseteq Nat /\ IsFiniteSet(rest)
  <2>1. rest \subseteq 1 .. Len(E) /\ 1 .. Len(E) \subseteq Nat
    BY <1>1
  <2>2. 1 \in Int /\ Len(E) \in Int
    BY <1>1
  <2>3. IsFiniteSet(1 .. Len(E))
    BY <2>2, FS_Interval
  <2> HIDE DEF rest
  <2> QED
    BY <2>1, <2>3, FS_Subset
<1>3. PICK f : Picks(P, E, rest, n, f)
  BY <1>2, PicksPlaces
<1> HIDE DEF rest, P
<1>4. /\ n \in Nat /\ P \in [1 .. n -> {E[i] : i \in rest}] /\ f \in [1 .. n -> rest]
      /\ \A j, k \in 1 .. n : f[j] = f[k] => j = k
      /\ \A i \in rest : \E k \in 1 .. n : f[k] = i
      /\ \A k \in 1 .. n : P[k] = E[f[k]]
      /\ Len(P) = n
  BY <1>3 DEF Picks
<1> HIDE DEF n
<1>5. IsRow(P)
  <2>1. P = [k \in 1 .. n |-> P[k]]
    BY <1>4
  <2> QED
    BY <1>4, <2>1, RowOf
<1>6. /\ IsRow(N) /\ Len(N) = n + 1 /\ \A k \in 1 .. n : N[k] = E[f[k]]
      /\ N[n + 1] = w
  <2>1. /\ IsRow(N) /\ Len(N) = Len(P) + 1 /\ \A k \in 1 .. Len(P) : N[k] = P[k]
        /\ N[Len(P) + 1] = w
    BY <1>5, Appended
  <2> HIDE DEF N
  <2> QED
    BY <1>4, <2>1
<1> HIDE DEF N
<1>7. \A i \in rest : i \in 1 .. Len(E) /\ i \notin mine
  BY <1>1 DEF rest
<1>8. \A k \in 1 .. n + 1 : \/ k = n + 1 /\ N[k] = w
                            \/ k \in 1 .. n /\ N[k] = E[f[k]] /\ f[k] \in rest
  <2> TAKE k \in 1 .. n + 1
  <2>1. k = n + 1 \/ k \in 1 .. n
    BY <1>4
  <2> QED
    BY <1>4, <1>6, <2>1
<1>9. Fits(N, R)
  <2> SUFFICES ASSUME NEW k \in 1 .. n + 1 PROVE EventFits(N[k], R)
    BY <1>6 DEF Fits
  <2>1. CASE k = n + 1 /\ N[k] = w
    BY <2>1
  <2>2. CASE k \in 1 .. n /\ N[k] = E[f[k]] /\ f[k] \in rest
    BY <1>1, <1>7, <2>2 DEF Fits
  <2> QED
    BY <1>8, <2>1, <2>2
<1>10. ASSUME NEW r \in TypedOf(R)
       PROVE  \/ Once(N, r)
              \/ /\ r.type = "ONE_SIDED" /\ \A i \in 1 .. Len(N) : r \notin N[i].of
                 /\ BookTells(N, R, r)
  <2>1. CASE Once(E, r)
    <3>1. PICK i \in 1 .. Len(E) :
            r \in E[i].of /\ \A j \in 1 .. Len(E) : r \in E[j].of => j = i
      BY <2>1 DEF Once
    <3>2. CASE i \in mine
      <4>1. r.type = "ONE_SIDED"
        <5>1. E[i].type = "ONE_SIDED" /\ EventFits(E[i], R)
          BY <1>1, <3>2 DEF Fits
        <5> QED
          BY <3>1, <5>1 DEF EventFits
      <4>2. \A k \in 1 .. n + 1 : r \notin N[k].of
        <5> TAKE k \in 1 .. n + 1
        <5>1. CASE k = n + 1 /\ N[k] = w
          BY <5>1
        <5>2. CASE k \in 1 .. n /\ N[k] = E[f[k]] /\ f[k] \in rest
          BY <1>7, <3>1, <3>2, <5>2
        <5> QED
          BY <1>8, <5>1, <5>2
      <4>3. Several(R) \/ Seat(r) = book
        BY <3>1, <3>2
      <4>4. n + 1 \in 1 .. Len(N)
        BY <1>4, <1>6
      <4>5. BookTells(N, R, r)
        BY <1>6, <4>3, <4>4 DEF BookTells
      <4> QED
        BY <1>6, <4>1, <4>2, <4>5
    <3>3. CASE i \notin mine
      <4>1. i \in rest
        BY <1>1, <3>3 DEF rest
      <4>2. PICK k \in 1 .. n : f[k] = i
        BY <1>4, <4>1
      <4>3. k \in 1 .. Len(N) /\ r \in N[k].of
        BY <1>4, <1>6, <3>1, <4>2
      <4>4. ASSUME NEW j \in 1 .. Len(N), r \in N[j].of PROVE j = k
        <5>1. j # n + 1
          BY <1>6, <4>4
        <5>2. j \in 1 .. n /\ N[j] = E[f[j]] /\ f[j] \in rest
          BY <1>6, <1>8, <5>1
        <5>3. f[j] = i
          BY <1>7, <3>1, <4>4, <5>2
        <5> QED
          BY <1>4, <4>2, <5>2, <5>3
      <4> QED
        BY <4>3, <4>4 DEF Once
    <3> QED
      BY <3>2, <3>3
  <2>2. CASE /\ r.type = "ONE_SIDED" /\ \A i \in 1 .. Len(E) : r \notin E[i].of
             /\ BookTells(E, R, r)
    <3>1. \A k \in 1 .. Len(N) : r \notin N[k].of
      <4> TAKE k \in 1 .. Len(N)
      <4>1. CASE k = n + 1 /\ N[k] = w
        BY <4>1
      <4>2. CASE k \in 1 .. n /\ N[k] = E[f[k]] /\ f[k] \in rest
        BY <1>7, <2>2, <4>2
      <4> QED
        BY <1>6, <1>8, <4>1, <4>2
    <3>2. PICK i \in 1 .. Len(E) : /\ E[i].type = "BOOK_ONE_SIDED"
                                   /\ Several(R) \/ (E[i].a \o E[i].b)[1] = Seat(r)
      BY <2>2 DEF BookTells
    <3>3. i \in rest
      BY <1>1, <3>2 DEF rest
    <3>4. PICK k \in 1 .. n : f[k] = i
      BY <1>4, <3>3
    <3>5. k \in 1 .. Len(N) /\ N[k] = E[i]
      BY <1>4, <1>6, <3>4
    <3>6. BookTells(N, R, r)
      BY <3>2, <3>5 DEF BookTells
    <3> QED
      BY <2>2, <3>1, <3>6
  <2> QED
    BY <2>1, <2>2 DEF Told
<1>11. Told(N, R)
  BY <1>6, <1>9, <1>10 DEF Told
<1> QED
  BY <1>11 DEF N, P, rest

(* Folding a book keeps every relation told. *)
LEMMA FoldTells ==
    ASSUME NEW R, NEW evs, Told(evs, R), NEW scheme, MaxOK(scheme.max),
           NEW book \in DOMAIN scheme.max, NEW side \in {"A", "B"}
    PROVE  Told(FoldBook(evs, scheme, side, book), R)
<1> DEFINE Key(e) == IF side = "A" THEN e.a ELSE e.b
           mine == {i \in DOMAIN evs : /\ evs[i].type = "ONE_SIDED" /\ Key(evs[i]) # <<>>
                                       /\ Key(evs[i])[1] = book}
           chapters == scheme.max[book]
           covered == Pick(evs, mine)
           n == Total([i \in DOMAIN covered |-> covered[i].n])
           total == Total(chapters)
           whole == <<book, 1, 1, Len(chapters), Last(chapters)>>
           w == [type |-> "BOOK_ONE_SIDED", n |-> total, o |-> <<>>,
                 a |-> IF side = "A" THEN whole ELSE <<>>,
                 b |-> IF side = "B" THEN whole ELSE <<>>, of |-> {}]
           N == Append(Pick(evs, DOMAIN evs \ mine), w)
<1>1. FoldBook(evs, scheme, side, book) = IF total = 0 \/ 2 * n < total THEN evs ELSE N
  BY DEF FoldBook
<1>2. CASE total = 0 \/ 2 * n < total
  BY <1>1, <1>2
<1>3. CASE ~ (total = 0 \/ 2 * n < total)
  <2>1. chapters \in Seq(Nat)
    BY DEF MaxOK
  <2>2. total \in Nat
    <3> HIDE DEF chapters
    <3> QED
      BY <2>1, TotalIs
  <2>3. total # 0
    BY <1>3
  <2> HIDE DEF n, total
  <2>4. IsRow(evs) /\ Fits(evs, R) /\ DOMAIN evs = 1 .. Len(evs)
    <3>1. IsRow(evs) /\ Fits(evs, R)
      BY DEF Told
    <3> QED
      BY <3>1 DEF IsRow
  <2>5. mine \subseteq DOMAIN evs /\ \A i \in mine : evs[i].type = "ONE_SIDED"
    OBVIOUS
  <2>6. w.type = "BOOK_ONE_SIDED" /\ w.of = {} /\ w.n = total
    OBVIOUS
  <2>0. whole # <<>> /\ (whole \o <<>>)[1] = book /\ (<<>> \o whole)[1] = book
    <3>1. whole # <<>>
      OBVIOUS
    <3>2. (whole \o <<>>)[1] = book /\ (<<>> \o whole)[1] = book
      BY WholeBook
    <3> QED
      BY <3>1, <3>2
  <2>7. (w.a \o w.b)[1] = book /\ {w.a, w.b} # {<<>>}
    <3>1. CASE side = "A"
      <4>1. w.a = whole /\ w.b = <<>>
        BY <3>1
      <4> HIDE DEF w, whole
      <4> QED
        BY <2>0, <4>1
    <3>2. CASE side = "B"
      <4>1. w.b = whole /\ w.a = <<>>
        BY <3>2
      <4> HIDE DEF w, whole
      <4> QED
        BY <2>0, <4>1
    <3> QED
      BY <3>1, <3>2
  <2>8. ASSUME NEW i \in mine, NEW r \in TypedOf(R), r \in evs[i].of
        PROVE  Several(R) \/ Seat(r) = book
    <3>1. i \in 1 .. Len(evs) /\ EventFits(evs[i], R)
      BY <2>4 DEF Fits
    <3>2. evs[i].type = "ONE_SIDED" /\ Key(evs[i]) # <<>> /\ Key(evs[i])[1] = book
      OBVIOUS
    <3>3. Several(R) \/ Sits(evs[i], Seat(r))
      BY <2>8, <3>1, <3>2 DEF EventFits
    <3> QED
      BY <3>2, <3>3 DEF Sits
  <2>9. "BOOK_ONE_SIDED" \in TYPE_IDS
    BY DEF TYPE_IDS
  <2> HIDE DEF w
  <2>10. EventFits(w, R)
    BY <2>2, <2>3, <2>6, <2>7, <2>9 DEF EventFits
  <2> HIDE DEF mine
  <2>11. Told(N, R)
    BY <2>5, <2>6, <2>7, <2>8, <2>10, BookTakesOver
  <2> HIDE DEF N
  <2> QED
    BY <1>1, <1>3, <2>11
<1> QED
  BY <1>2, <1>3

(* So does folding some books in turn. *)
LEMMA FoldsTell ==
    ASSUME NEW R, NEW evs, Told(evs, R), NEW scheme, MaxOK(scheme.max),
           NEW books, IsRow(books), \A k \in 1 .. Len(books) : books[k] \in DOMAIN scheme.max,
           NEW side \in {"A", "B"}
    PROVE  Told(FoldBooks(evs, scheme, side, books), R)
<1> DEFINE n == Len(books)
           Folding(f, m) == f = [k \in 0 .. m |-> IF k = 0 THEN evs
                                    ELSE FoldBook(f[k - 1], scheme, side, books[k])]
           folded == CHOOSE f : Folding(f, n)
           numbers == {m \in Nat : \E f : Folding(f, m)}
<1>1. n \in Nat
  BY DEF IsRow
<1>2. 0 \in numbers
  <2> DEFINE f == [k \in 0 .. 0 |-> evs]
  <2>1. Folding(f, 0)
    OBVIOUS
  <2> QED
    BY <2>1
<1>3. ASSUME NEW m \in Nat, m \in numbers PROVE m + 1 \in numbers
  <2>1. PICK f : Folding(f, m)
    BY <1>3
  <2> DEFINE g == [k \in 0 .. m + 1 |-> IF k = m + 1 THEN FoldBook(f[m], scheme, side, books[m + 1])
                                        ELSE f[k]]
  <2>2. \A k \in 0 .. m : f[k] = IF k = 0 THEN evs
                                 ELSE FoldBook(f[k - 1], scheme, side, books[k])
    BY <2>1
  <2>3. \A k \in 0 .. m : g[k] = f[k]
    OBVIOUS
  <2>4. g[m + 1] = FoldBook(f[m], scheme, side, books[m + 1])
    OBVIOUS
  <2>5. \A k \in 0 .. m + 1 : g[k] = IF k = 0 THEN evs
                                     ELSE FoldBook(g[k - 1], scheme, side, books[k])
    <3> TAKE k \in 0 .. m + 1
    <3> HIDE DEF g
    <3>1. CASE k = 0
      BY <2>2, <2>3, <3>1
    <3>2. CASE k \in 1 .. m
      <4>1. k \in 0 .. m /\ k - 1 \in 0 .. m /\ k # 0
        BY <3>2
      <4> QED
        BY <2>2, <2>3, <4>1
    <3>3. CASE k = m + 1
      <4>1. k - 1 = m /\ m \in 0 .. m /\ k # 0
        BY <3>3
      <4> QED
        BY <2>3, <2>4, <3>3, <4>1
    <3>4. k = 0 \/ k \in 1 .. m \/ k = m + 1
      OBVIOUS
    <3> QED
      BY <3>1, <3>2, <3>3, <3>4
  <2>6. g = [k \in 0 .. m + 1 |-> g[k]]
    OBVIOUS
  <2> HIDE DEF g
  <2>7. Folding(g, m + 1)
    BY <2>5, <2>6
  <2> HIDE DEF Folding
  <2> QED
    BY <2>7
<1>4. \E f : Folding(f, n)
  <2> HIDE DEF numbers
  <2>1. Nat \subseteq numbers
    BY <1>2, <1>3, Induction
  <2> QED
    BY <1>1, <2>1 DEF numbers
<1>5. Folding(folded, n)
  <2> HIDE DEF Folding
  <2> QED
    BY <1>4
<1>6. FoldBooks(evs, scheme, side, books) = folded[n]
  BY DEF FoldBooks
<1> HIDE DEF folded
<1>7. /\ folded[0] = evs
      /\ \A k \in 1 .. n : folded[k] = FoldBook(folded[k - 1], scheme, side, books[k])
  <2>1. 0 \in 0 .. n /\ \A k \in 1 .. n : k \in 0 .. n /\ k # 0
    BY <1>1
  <2>2. \A k \in 0 .. n : folded[k] = IF k = 0 THEN evs
                            ELSE FoldBook(folded[k - 1], scheme, side, books[k])
    BY <1>5
  <2> QED
    BY <2>1, <2>2
<1> HIDE DEF Folding
<1> DEFINE good == {k \in 0 .. n : Told(folded[k], R)}
<1>8. 0 \in good
  BY <1>1, <1>7
<1>9. ASSUME NEW k \in 1 .. n, k - 1 \in good PROVE k \in good
  <2>1. Told(folded[k - 1], R) /\ k \in 0 .. n /\ books[k] \in DOMAIN scheme.max
    BY <1>1, <1>9
  <2>2. Told(FoldBook(folded[k - 1], scheme, side, books[k]), R)
    BY <2>1, FoldTells
  <2> QED
    BY <1>7, <2>1, <2>2
<1>10. n \in good
  <2> HIDE DEF good
  <2>1. 0 .. n \subseteq good
    BY <1>1, <1>8, <1>9, StaysUpTo
  <2> QED
    BY <1>1, <2>1
<1> QED
  BY <1>6, <1>10

(* Numbers listed in turn. *)
LEMMA ListsNumbers ==
    ASSUME NEW S, S \subseteq Nat, IsFiniteSet(S)
    PROVE  IsRow(Increasing(S)) /\ \A k \in 1 .. Len(Increasing(S)) : Increasing(S)[k] \in S
<1> DEFINE R == {p \in S \X S : p[1] < p[2]}
<1>1. \A x, y \in S : <<x, y>> \in R <=> x < y
  OBVIOUS
<1> HIDE DEF R
<1>2. Orders(R, S)
  BY <1>1 DEF Orders
<1>3. Lists(InOrder(S, R), S, R, Cardinality(S))
  BY <1>2, Listing
<1>4. Increasing(S) = InOrder(S, R)
  BY DEF Increasing, R
<1>5. Lists(Increasing(S), S, R, Cardinality(S))
  BY <1>3, <1>4
<1> QED
  BY <1>5, LenProperties DEF Lists, IsRow

(* All events of a report. *)
EVENTS == _fold_book_one_sided(
            RelationEvents \o BridgeEvents("A") \o BridgeEvents("B") \o SegmentEvents)

(* The events of a report tell its relations. *)
LEMMA EventsTell ==
    ASSUME SchemeOK(A), SchemeOK(B), Related(relations, A, B)
    PROVE  Told(EVENTS, relations) /\ Fits(RelationEvents, relations)
<1> DEFINE R == relations
           E0 == RelationEvents
           E1 == E0 \o BridgeEvents("A")
           E2 == E1 \o BridgeEvents("B")
           E3 == E2 \o SegmentEvents
           T == TypedOf(R)
<1>1. Fits(E0, R) /\ Shares(E0, T)
  BY RelationsAreTold
<1>2. /\ Fits(BridgeEvents("A"), R) /\ NoneOf(BridgeEvents("A"))
      /\ Fits(BridgeEvents("B"), R) /\ NoneOf(BridgeEvents("B"))
      /\ Fits(SegmentEvents, R) /\ NoneOf(SegmentEvents)
  BY BridgesTold, SegmentsTold
<1>3. ASSUME NEW E, Fits(E, R), Shares(E, T), NEW F, Fits(F, R), NoneOf(F)
      PROVE  Fits(E \o F, R) /\ Shares(E \o F, T)
  <2>1. IsRow(E) /\ IsRow(F)
    BY <1>3 DEF Shares, NoneOf
  <2>2. Shares(F, {})
    BY <1>3, NoneShares
  <2>3. Shares(E \o F, T \cup {})
    <3> HIDE DEF T
    <3> QED
      BY <1>3, <2>2, SharesJoin
  <2>4. T \cup {} = T
    OBVIOUS
  <2>5. Fits(E \o F, R)
    BY <1>3, <2>1, FitsJoin
  <2> QED
    BY <2>3, <2>4, <2>5
<1> HIDE DEF T, R, E0
<1>4. Fits(E1, R) /\ Shares(E1, T)
  BY <1>1, <1>2, <1>3
<1> HIDE DEF E1
<1>5. Fits(E2, R) /\ Shares(E2, T)
  BY <1>2, <1>3, <1>4
<1> HIDE DEF E2
<1>6. Fits(E3, R) /\ Shares(E3, T)
  BY <1>2, <1>3, <1>5
<1> HIDE DEF E3
<1>7. Told(E3, R)
  BY <1>6 DEF Told, Shares, Once, T
<1> DEFINE onlyA == DOMAIN A.max \ DOMAIN B.max
           onlyB == DOMAIN B.max \ DOMAIN A.max
<1>8. /\ MaxOK(A.max) /\ MaxOK(B.max)
      /\ onlyA \subseteq Nat /\ IsFiniteSet(onlyA)
      /\ onlyB \subseteq Nat /\ IsFiniteSet(onlyB)
  <2>1. MaxOK(A.max) /\ MaxOK(B.max)
    BY DEF SchemeOK
  <2>2. /\ DOMAIN A.max \subseteq Nat /\ IsFiniteSet(DOMAIN A.max)
        /\ DOMAIN B.max \subseteq Nat /\ IsFiniteSet(DOMAIN B.max)
    BY <2>1 DEF MaxOK
  <2>3. onlyA \subseteq DOMAIN A.max /\ onlyB \subseteq DOMAIN B.max
    OBVIOUS
  <2> QED
    BY <2>1, <2>2, <2>3, FS_Subset
<1>9. onlyA \subseteq DOMAIN A.max /\ onlyB \subseteq DOMAIN B.max
  OBVIOUS
<1> HIDE DEF onlyA, onlyB
<1> DEFINE FA == FoldBooks(E3, A, "A", Increasing(onlyA))
           FB == FoldBooks(FA, B, "B", Increasing(onlyB))
<1>10. /\ IsRow(Increasing(onlyA))
       /\ \A k \in 1 .. Len(Increasing(onlyA)) : Increasing(onlyA)[k] \in DOMAIN A.max
  BY <1>8, <1>9, ListsNumbers
<1>11. /\ IsRow(Increasing(onlyB))
       /\ \A k \in 1 .. Len(Increasing(onlyB)) : Increasing(onlyB)[k] \in DOMAIN B.max
  BY <1>8, <1>9, ListsNumbers
<1>12. Told(FA, R)
  BY <1>7, <1>8, <1>10, FoldsTell
<1> HIDE DEF FA
<1>13. Told(FB, R)
  BY <1>8, <1>11, <1>12, FoldsTell
<1>14. EVENTS = FB
  BY DEF EVENTS, _fold_book_one_sided, FA, E3, E2, E1, E0, onlyA, onlyB
<1> QED
  BY <1>1, <1>13, <1>14 DEF R, E0

-----------------------------------------------------------------------------
(* --- Relations as drawn --- *)

(* A relation drawn under another type. *)
DrawnAs(q, r, x) ==
    /\ Like(q, r) /\ q.type = r.type /\ q.etype = x
    /\ r.etype = r.type => [q EXCEPT !.etype = q.type] = r

(* A relation drawn as an event is the same relation with another drawn       *)
(* type.                                                                      *)
LEMMA DrawsAs ==
    ASSUME NEW r, Full(r), NEW x
    PROVE  DrawnAs([r EXCEPT !.etype = x], r, x)
<1> DEFINE g == [r EXCEPT !.etype = x]
           q == [y \in FULL |-> IF y = "etype" THEN x ELSE r[y]]
           f == [y \in FULL |-> r[y]]
<1>1. r = f
  BY DEF Full, Record
<1>2. g = q
  <2>1. [f EXCEPT !["etype"] = x] = q
    BY DEF FULL, RAW
  <2> HIDE DEF f, q
  <2> QED
    BY <1>1, <2>1
<1>3. /\ q.A = r.A /\ q.O = r.O /\ q.B = r.B /\ q.Ap = r.Ap /\ q.Bp = r.Bp
      /\ q.rel = r.rel /\ q.flags = r.flags /\ q.warn = r.warn
      /\ q.type = r.type /\ q.etype = x
  BY DEF FULL, RAW
<1>4. Full(q)
  BY DEF Full, Record
<1>5. ASSUME r.etype = r.type PROVE [q EXCEPT !.etype = q.type] = r
  <2>1. [q EXCEPT !["etype"] = r.type] = f
    BY <1>5 DEF FULL, RAW
  <2> HIDE DEF q, f
  <2> QED
    BY <1>1, <1>3, <2>1
<1> HIDE DEF q, g
<1>6. DrawnAs(q, r, x)
  BY <1>3, <1>4, <1>5 DEF DrawnAs, Like
<1> QED
  BY <1>2, <1>6 DEF g

(* The relations with the types their events are drawn under. *)
Etype(r) == LET of == {e \in ToSet(RelationEvents) : r \in e.of}
            IN  IF of = {} THEN r.type ELSE (CHOOSE e \in of : TRUE).type
Drafted(Q, R) ==
    /\ Bedded(Q) /\ Present(Q)
    /\ \A q \in Q : \E r \in R : \E x \in TYPE_IDS \cup {Same} : DrawnAs(q, r, x)
    /\ \A r \in R : \E q \in Q : \E x : DrawnAs(q, r, x)

(* The types of composed relations. *)
LEMMA TypesAre ==
    ASSUME NEW R, NEW a, NEW b, Related(R, a, b), NEW r \in R
    PROVE  r.type \in TYPE_IDS \cup {Same} /\ r.etype = r.type /\ Full(r)
<1>1. TypeIs(r) /\ PassHas(r, a, b)
  BY DEF Related
<1>2. r.type \in PASSTYPES \cup {Same, "ORDER_INVERSION", "EXCLUDED", "ONE_SIDED"}
  <2>1. (r.Ap = {} /\ r.Bp = {}) \/ (r.Ap # {} /\ r.Bp # {}) \/ (r.Ap = {}) # (r.Bp = {})
    OBVIOUS
  <2> QED
    BY <1>1, <2>1 DEF TypeIs
<1> QED
  BY <1>1, <1>2 DEF PassHas, PASSTYPES, TYPE_IDS

(* A relation is drawn with a type of an event, or its own. *)
LEMMA EtypesAre ==
    ASSUME Related(relations, A, B), Fits(RelationEvents, relations), NEW r \in relations
    PROVE  Etype(r) \in TYPE_IDS \cup {Same}
<1> DEFINE of == {e \in ToSet(RelationEvents) : r \in e.of}
           c == CHOOSE e \in of : TRUE
<1>1. Etype(r) = IF of = {} THEN r.type ELSE c.type
  BY DEF Etype
<1>2. CASE of = {}
  BY <1>1, <1>2, TypesAre
<1>3. CASE of # {}
  <2>1. c \in of
    BY <1>3
  <2>2. c \in ToSet(RelationEvents)
    BY <2>1
  <2>3. IsRow(RelationEvents)
    BY RelationsAreTold DEF Shares
  <2>4. PICK i \in 1 .. Len(RelationEvents) : c = RelationEvents[i]
    BY <2>2, <2>3 DEF ToSet, IsRow
  <2>5. c.type \in TYPE_IDS
    BY <2>4 DEF Fits, EventFits
  <2> HIDE DEF c, of
  <2> QED
    BY <1>1, <1>3, <2>5
<1> QED
  BY <1>2, <1>3

(* The relations after the events were built are those before, drawn. *)
LEMMA DraftIs ==
    ASSUME Related(relations, A, B), Fits(RelationEvents, relations),
           NEW Q, Q = {[r EXCEPT !.etype = Etype(r)] : r \in relations}
    PROVE  Drafted(Q, relations)
<1> DEFINE m == [r \in relations |-> [r EXCEPT !.etype = Etype(r)]]
<1>1. \A r \in relations : Full(r) /\ Etype(r) \in TYPE_IDS \cup {Same}
  BY TypesAre, EtypesAre
<1>2. \A r \in relations : DrawnAs([r EXCEPT !.etype = Etype(r)], r, Etype(r))
  BY <1>1, DrawsAs
<1>3. /\ \A q \in Q : \E r \in relations : q = m[r]
      /\ \A r \in relations : m[r] \in Q
      /\ \A r \in relations : DrawnAs(m[r], r, Etype(r))
  BY <1>2
<1> HIDE DEF m
<1>4. \A r \in relations : Like(m[r], r)
  BY <1>3 DEF DrawnAs
<1>5. Bedded(Q) /\ Present(Q)
  BY <1>3, <1>4, LikeIsBedded DEF Related
<1>6. \A q \in Q : \E r \in relations : \E x \in TYPE_IDS \cup {Same} : DrawnAs(q, r, x)
  BY <1>1, <1>3
<1>7. \A r \in relations : \E q \in Q : \E x : DrawnAs(q, r, x)
  BY <1>3
<1> QED
  BY <1>5, <1>6, <1>7 DEF Drafted

-----------------------------------------------------------------------------
(* What EveryDivergenceReported says of some events and relations. *)
Reported(E, Q) ==
    LET several == \E r \in Q : r.type = "ONE_SIDED"
                        /\ \E x, y \in r.A \cup r.B : x[1] # y[1]
        BookTold(r) == \E e \in ToSet(E) :
            /\ e.type = "BOOK_ONE_SIDED"
            /\ several \/ (e.a \o e.b)[1] = FirstOf(AnchorVerses(r))[1]
    IN  \A r \in Q :
        LET own == {i \in DOMAIN E : [r EXCEPT !.etype = r.type] \in E[i].of}
        IN  IF r.type = Same THEN own = {}
            ELSE \/ Cardinality(own) = 1
                 \/ own = {} /\ r.type = "ONE_SIDED" /\ BookTold(r)

(* Events that tell the composed relations report those that are drawn. *)
LEMMA ReportsAll ==
    ASSUME NEW R, NEW a, NEW b, Related(R, a, b), NEW E, Told(E, R), NEW Q, Drafted(Q, R)
    PROVE  Reported(E, Q)
<1> DEFINE several == \E r \in Q : r.type = "ONE_SIDED"
                        /\ \E x, y \in r.A \cup r.B : x[1] # y[1]
           BookTold(r) == \E e \in ToSet(E) :
              /\ e.type = "BOOK_ONE_SIDED"
              /\ several \/ (e.a \o e.b)[1] = FirstOf(AnchorVerses(r))[1]
           Own(r) == {i \in DOMAIN E : [r EXCEPT !.etype = r.type] \in E[i].of}
<1>1. IsRow(E) /\ Fits(E, R) /\ DOMAIN E = 1 .. Len(E)
  <2>1. IsRow(E) /\ Fits(E, R)
    BY DEF Told
  <2> QED
    BY <2>1 DEF IsRow
<1>2. Several(R) => several
  <2> SUFFICES ASSUME Several(R) PROVE several
    OBVIOUS
  <2>1. PICK r \in R : r.type = "ONE_SIDED" /\ \E x, y \in r.A \cup r.B : x[1] # y[1]
    BY DEF Several
  <2>2. PICK q \in Q : \E x : DrawnAs(q, r, x)
    BY DEF Drafted
  <2>3. q.type = r.type /\ q.A = r.A /\ q.B = r.B
    BY <2>2 DEF DrawnAs, Like
  <2> QED
    BY <2>1, <2>3
<1> HIDE DEF several
<1>3. ASSUME NEW q \in Q
      PROVE  IF q.type = Same THEN Own(q) = {}
             ELSE \/ Cardinality(Own(q)) = 1
                  \/ Own(q) = {} /\ q.type = "ONE_SIDED" /\ BookTold(q)
  <2>1. PICK r \in R : \E x : DrawnAs(q, r, x)
    BY DEF Drafted
  <2>2. r.etype = r.type
    BY TypesAre
  <2>3. /\ [q EXCEPT !.etype = q.type] = r /\ q.type = r.type
        /\ q.A = r.A /\ q.B = r.B
    BY <2>1, <2>2 DEF DrawnAs, Like
  <2>4. Own(q) = {i \in 1 .. Len(E) : r \in E[i].of}
    BY <1>1, <2>3
  <2> HIDE DEF Own
  <2>5. CASE q.type = Same
    <3>1. r \notin TypedOf(R)
      BY <2>3, <2>5 DEF TypedOf
    <3>2. \A i \in 1 .. Len(E) : r \notin E[i].of
      BY <1>1, <3>1 DEF Fits, EventFits
    <3> QED
      BY <2>4, <2>5, <3>2
  <2>6. CASE q.type # Same
    <3>1. r \in TypedOf(R)
      BY <2>3, <2>6 DEF TypedOf
    <3>2. CASE Once(E, r)
      <4>1. PICK i \in 1 .. Len(E) :
              r \in E[i].of /\ \A j \in 1 .. Len(E) : r \in E[j].of => j = i
        BY <3>2 DEF Once
      <4>2. Own(q) = {i}
        BY <2>4, <4>1
      <4>3. Cardinality(Own(q)) = 1
        BY <4>2, FS_Singleton
      <4> QED
        BY <2>6, <4>3
    <3>3. CASE r.type = "ONE_SIDED" /\ (\A i \in 1 .. Len(E) : r \notin E[i].of)
               /\ BookTells(E, R, r)
      <4>1. Own(q) = {}
        BY <2>4, <3>3
      <4>2. PICK i \in 1 .. Len(E) : /\ E[i].type = "BOOK_ONE_SIDED"
                                     /\ Several(R) \/ (E[i].a \o E[i].b)[1] = Seat(r)
        BY <3>3 DEF BookTells
      <4>3. E[i] \in ToSet(E)
        BY <1>1 DEF ToSet
      <4>4. Seat(r) = FirstOf(AnchorVerses(q))[1]
        BY <2>3 DEF Seat, AnchorVerses
      <4>5. BookTold(q)
        BY <1>2, <4>2, <4>3, <4>4
      <4> HIDE DEF BookTold
      <4> QED
        BY <2>3, <2>6, <3>3, <4>1, <4>5
    <3> QED
      BY <3>1, <3>2, <3>3 DEF Told
  <2> QED
    BY <2>5, <2>6
<1> QED
  BY <1>3 DEF Reported, several

-----------------------------------------------------------------------------
(* --- Rows of the runs --- *)

(* Verses one after the other. *)
On(x, j) == <<x[1], x[2], x[3] + j>>
Stretch(x, m) == {On(x, j) : j \in 0 .. m}

(* A stretch begins at its first verse and ends so many verses further on. *)
LEMMA StretchHas ==
    ASSUME NEW x \in Verse, NEW m \in Nat
    PROVE  /\ Stretch(x, m) \subseteq Verse /\ FirstOf(Stretch(x, m)) = x
           /\ LastOf(Stretch(x, m)) = On(x, m) /\ x \in Stretch(x, m)
<1> DEFINE S == Stretch(x, m)
<1>1. x = <<x[1], x[2], x[3]>> /\ x[1] \in Nat /\ x[2] \in Nat /\ x[3] \in Nat
  BY DEF Verse
<1>2. On(x, 0) = x
  BY <1>1 DEF On
<1>3. \A j \in Nat : On(x, j) \in Verse /\ On(x, j)[1] = x[1] /\ On(x, j)[2] = x[2]
                     /\ On(x, j)[3] = x[3] + j
  BY <1>1 DEF On, Verse
<1>4. \A j, k \in Nat : j < k => Before(On(x, j), On(x, k))
  BY <1>1, <1>3 DEF Before
<1>5. /\ \A j \in 0 .. m : j \in Nat /\ On(x, j) \in S
      /\ \A y \in S : \E j \in 0 .. m : y = On(x, j)
  BY DEF Stretch
<1> HIDE DEF S
<1>6. S \subseteq Verse
  BY <1>3, <1>5
<1>7. 0 \in 0 .. m /\ m \in 0 .. m /\ x \in S /\ On(x, m) \in S
  BY <1>2, <1>5
<1>8. FirstOf(S) = x
  <2>1. \A y \in S \ {x} : Before(x, y)
    <3> TAKE y \in S \ {x}
    <3>1. PICK j \in 0 .. m : y = On(x, j)
      BY <1>5
    <3>2. j # 0
      BY <1>2, <3>1
    <3>3. Before(On(x, 0), On(x, j))
      BY <1>4, <3>2
    <3> QED
      BY <1>2, <3>1, <3>3
  <2> QED
    BY <1>6, <1>7, <2>1, FirstIsOne
<1>9. LastOf(S) = On(x, m)
  <2> DEFINE t == On(x, m)
             u == LastOf(S)
  <2>1. \A y \in S \ {t} : Before(y, t)
    <3> TAKE y \in S \ {t}
    <3>1. PICK j \in 0 .. m : y = On(x, j)
      BY <1>5
    <3>2. j < m
      BY <3>1
    <3> QED
      BY <1>4, <3>1, <3>2
  <2> HIDE DEF t
  <2>2. t \in S
    BY <1>7 DEF t
  <2>3. u \in S /\ \A y \in S \ {u} : Before(y, u)
    BY <2>1, <2>2 DEF LastOf
  <2> HIDE DEF u
  <2>4. ASSUME u # t PROVE FALSE
    <3>1. Before(u, t) /\ Before(t, u)
      BY <2>1, <2>2, <2>3, <2>4
    <3>2. u \in Verse /\ t \in Verse
      BY <1>6, <2>2, <2>3
    <3> QED
      BY <3>1, <3>2, VerseOrder
  <2> QED
    BY <2>4 DEF t, u
<1> QED
  BY <1>6, <1>7, <1>8, <1>9 DEF S

(* A stretch and the verse after it are the longer stretch. *)
LEMMA StretchGrows ==
    ASSUME NEW x \in Verse, NEW m \in Nat
    PROVE  /\ Stretch(x, m) \cup {On(x, m + 1)} = Stretch(x, m + 1)
           /\ Stretch(x, 0) = {x}
<1>1. x = <<x[1], x[2], x[3]>> /\ x[3] \in Nat
  BY DEF Verse
<1>2. On(x, 0) = x
  BY <1>1 DEF On
<1>3. Stretch(x, 0) = {x}
  <2>1. 0 .. 0 = {0}
    OBVIOUS
  <2> QED
    BY <1>2, <2>1 DEF Stretch
<1>4. 0 .. m + 1 = (0 .. m) \cup {m + 1}
  OBVIOUS
<1>5. Stretch(x, m + 1) = Stretch(x, m) \cup {On(x, m + 1)}
  BY <1>4 DEF Stretch
<1> QED
  BY <1>3, <1>5

(* The span of a stretch. *)
LEMMA StretchSpans ==
    ASSUME NEW x \in Verse, NEW m \in Nat
    PROVE  span(Stretch(x, m)) = <<x[1], x[2], x[3], x[2], x[3] + m>>
<1>1. Stretch(x, m) # {} /\ FirstOf(Stretch(x, m)) = x /\ LastOf(Stretch(x, m)) = On(x, m)
  BY StretchHas
<1>2. On(x, m)[1] = x[1] /\ On(x, m)[2] = x[2] /\ On(x, m)[3] = x[3] + m
  BY DEF On
<1> QED
  BY <1>1, <1>2 DEF span, Span

(* A relation of one verse on every axis. *)
LEMMA OneVerseEach ==
    ASSUME NEW r, OneEach(r), IsFiniteSet(r.A), IsFiniteSet(r.O), IsFiniteSet(r.B),
           r.A \subseteq Verse, r.O \subseteq Verse, r.B \subseteq Verse
    PROVE  \E x, y, z \in Verse : r.A = {x} /\ r.O = {y} /\ r.B = {z}
<1>1. Cardinality(r.A) = 1 /\ Cardinality(r.O) = 1 /\ Cardinality(r.B) = 1
  BY DEF OneEach
<1>2. \E x : r.A = {x}
  BY <1>1, FS_Singleton
<1>3. \E x : r.O = {x}
  BY <1>1, FS_Singleton
<1>4. \E x : r.B = {x}
  BY <1>1, FS_Singleton
<1> QED
  BY <1>2, <1>3, <1>4

-----------------------------------------------------------------------------
(* A row stands for the relations of a set: for one of several verses, or    *)
(* for those of a band.                                                      *)
ROW == {"A", "O", "B", "t", "simple", "dO", "dB", "exA", "exB"}
At3(r, x, y, z) == r.A = {x} /\ r.O = {y} /\ r.B = {z}
Band(row, M, x, y, z, m) ==
    /\ row.A = Stretch(x, m) /\ row.O = Stretch(y, m) /\ row.B = Stretch(z, m)
    /\ row.dO = Offset(x, y) /\ row.dB = Offset(x, z)
    /\ \A j \in 0 .. m : \E r \in M : At3(r, On(x, j), On(y, j), On(z, j))
    /\ \A r \in M : \E j \in 0 .. m : At3(r, On(x, j), On(y, j), On(z, j))
Alone(row, M) ==
    \E r : M = {r} /\ ~ OneEach(r) /\ row.A = r.A /\ row.O = r.O /\ row.B = r.B
RowIs(row, M) ==
    /\ Record(row, ROW) /\ M # {} /\ \A r \in M : r.etype = row.t
    /\ row.simple => \E x, y, z \in Verse, m \in Nat : Band(row, M, x, y, z, m)
    /\ ~ row.simple => Alone(row, M)

Sound(r) ==
    /\ IsFiniteSet(r.A) /\ IsFiniteSet(r.O) /\ IsFiniteSet(r.B)
    /\ r.A \subseteq Verse /\ r.O \subseteq Verse /\ r.B \subseteq Verse

(* A relation begins a row. *)
RowHas(row, r) ==
    /\ Record(row, ROW) /\ row.A = r.A /\ row.O = r.O /\ row.B = r.B /\ row.t = r.etype
    /\ row.simple <=> OneEach(r)
    /\ OneEach(r) => row.dO = _offset(r, r.O) /\ row.dB = _offset(r, r.B)

(* A row begins with what its relation has. *)
LEMMA RowBegins ==
    ASSUME NEW r
    PROVE  RowHas(Row(r), r)
<1> DEFINE q == [A |-> r.A, O |-> r.O, B |-> r.B, t |-> r.etype, simple |-> OneEach(r),
                 dO |-> IF OneEach(r) THEN _offset(r, r.O) ELSE <<>>,
                 dB |-> IF OneEach(r) THEN _offset(r, r.B) ELSE <<>>,
                 exA |-> r.A # r.Ap, exB |-> r.B # r.Bp]
<1>1. Row(r) = q
  BY DEF Row
<1>2. /\ q.A = r.A /\ q.O = r.O /\ q.B = r.B /\ q.t = r.etype
      /\ q.simple <=> OneEach(r)
      /\ OneEach(r) => q.dO = _offset(r, r.O) /\ q.dB = _offset(r, r.B)
  OBVIOUS
<1>3. q = [f \in ROW |-> q[f]]
  BY DEF ROW
<1> HIDE DEF q
<1>4. RowHas(q, r)
  BY <1>2, <1>3 DEF RowHas, Record
<1> QED
  BY <1>1, <1>4

(* A row of one relation is a row. *)
LEMMA FirstRow ==
    ASSUME NEW r, Sound(r), NEW row, RowHas(row, r)
    PROVE  RowIs(row, {r})
<1>1. CASE OneEach(r)
  <2>1. PICK x \in Verse, y \in Verse, z \in Verse : r.A = {x} /\ r.O = {y} /\ r.B = {z}
    BY <1>1, OneVerseEach DEF Sound
  <2>2. /\ Stretch(x, 0) = {x} /\ Stretch(y, 0) = {y} /\ Stretch(z, 0) = {z}
        /\ FirstOf(Stretch(x, 0)) = x /\ FirstOf(Stretch(y, 0)) = y /\ FirstOf(Stretch(z, 0)) = z
    BY StretchGrows, StretchHas
  <2>3. On(x, 0) = x /\ On(y, 0) = y /\ On(z, 0) = z
    BY DEF On, Verse
  <2>4. row.A = Stretch(x, 0) /\ row.O = Stretch(y, 0) /\ row.B = Stretch(z, 0)
    BY <2>1, <2>2 DEF RowHas
  <2>5. row.dO = Offset(x, y) /\ row.dB = Offset(x, z)
    BY <1>1, <2>1, <2>2 DEF RowHas, _offset
  <2>6. 0 .. 0 = {0}
    OBVIOUS
  <2>7. Band(row, {r}, x, y, z, 0)
    BY <2>1, <2>3, <2>4, <2>5, <2>6 DEF Band, At3
  <2> QED
    BY <1>1, <2>7 DEF RowIs, RowHas
<1>2. CASE ~ OneEach(r)
  BY <1>2 DEF RowIs, RowHas, Alone
<1> QED
  BY <1>1, <1>2

(* A relation lengthens a row. *)
Longer(q, row, r) ==
    /\ Record(q, ROW) /\ q.A = row.A \cup r.A /\ q.O = row.O \cup r.O /\ q.B = row.B \cup r.B
    /\ q.t = row.t /\ (q.simple <=> row.simple) /\ q.dO = row.dO /\ q.dB = row.dB

(* A longer row has the verses of both and the marks of the first. *)
LEMMA Lengthens ==
    ASSUME NEW row, Record(row, ROW), NEW r
    PROVE  Longer(Lengthened(row, r), row, r)
<1> DEFINE g == Lengthened(row, r)
           f == [x \in ROW |-> row[x]]
           q == [x \in ROW |-> CASE x = "A" -> row.A \cup r.A
                                 [] x = "O" -> row.O \cup r.O
                                 [] x = "B" -> row.B \cup r.B
                                 [] OTHER -> row[x]]
<1>1. row = f
  BY DEF Record
<1>2. [f EXCEPT !["A"] = row.A \cup r.A, !["O"] = row.O \cup r.O, !["B"] = row.B \cup r.B] = q
  BY DEF ROW
<1>3. g = [row EXCEPT !["A"] = row.A \cup r.A, !["O"] = row.O \cup r.O, !["B"] = row.B \cup r.B]
  <2>1. f["A"] = row.A /\ f["O"] = row.O /\ f["B"] = row.B
    BY DEF ROW
  <2> QED
    BY <1>1 DEF Lengthened, ROW
<1>4. g = q
  <2> HIDE DEF f, g, q
  <2> QED
    BY <1>1, <1>2, <1>3
<1>5. /\ q.A = row.A \cup r.A /\ q.O = row.O \cup r.O /\ q.B = row.B \cup r.B
      /\ q.t = row.t /\ (q.simple <=> row.simple) /\ q.dO = row.dO /\ q.dB = row.dB
  BY DEF ROW
<1>6. Record(q, ROW)
  BY DEF Record
<1> HIDE DEF q, g
<1>7. Longer(q, row, r)
  BY <1>5, <1>6 DEF Longer
<1> QED
  BY <1>4, <1>7 DEF g

(* A row that a relation extends is a row with it. *)
LEMMA ExtendsRow ==
    ASSUME NEW r, Sound(r), NEW row, NEW M, RowIs(row, M), Extends(row, r),
           NEW q, Longer(q, row, r)
    PROVE  RowIs(q, M \cup {r})
<1>1. OneEach(r) /\ row.simple /\ row.t = r.etype
      /\ _offset(r, r.O) = row.dO /\ _offset(r, r.B) = row.dB
      /\ LastOf(row.A)[1] = FirstOf(r.A)[1] /\ LastOf(row.A)[2] = FirstOf(r.A)[2]
      /\ FirstOf(r.A)[3] = LastOf(row.A)[3] + 1
  BY DEF Extends
<1>2. PICK x \in Verse, y \in Verse, z \in Verse, m \in Nat : Band(row, M, x, y, z, m)
  BY <1>1 DEF RowIs
<1>3. PICK a \in Verse, o \in Verse, b \in Verse : r.A = {a} /\ r.O = {o} /\ r.B = {b}
  BY <1>1, OneVerseEach DEF Sound
<1>4. FirstOf(r.A) = a /\ FirstOf(r.O) = o /\ FirstOf(r.B) = b
  <2>1. {a} \subseteq Verse /\ {o} \subseteq Verse /\ {b} \subseteq Verse
    OBVIOUS
  <2>2. FirstOf({a}) \in {a} /\ FirstOf({o}) \in {o} /\ FirstOf({b}) \in {b}
    BY <2>1, FirstIsOne
  <2> QED
    BY <1>3, <2>2
<1>5. LastOf(row.A) = On(x, m)
  BY <1>2, StretchHas DEF Band
<1>19. a[1] = x[1] /\ a[2] = x[2] /\ a[3] = x[3] + m + 1
  BY <1>1, <1>4, <1>5 DEF On
<1>6. a = On(x, m + 1)
  BY <1>19 DEF On, Verse
<1>7. Offset(a, o) = Offset(x, y) /\ Offset(a, b) = Offset(x, z)
  BY <1>1, <1>2, <1>4 DEF Band, _offset
<1>8. \A s, t \in Verse : Offset(a, s) = Offset(x, t) => s = On(t, m + 1)
  <2> SUFFICES ASSUME NEW s \in Verse, NEW t \in Verse, Offset(a, s) = Offset(x, t)
               PROVE  s = On(t, m + 1)
    OBVIOUS
  <2>1. s[1] = t[1] /\ s[2] - a[2] = t[2] - x[2] /\ s[3] - a[3] = t[3] - x[3]
    BY DEF Offset
  <2>2. a[2] = x[2] /\ a[3] = x[3] + m + 1
    BY <1>19
  <2>3. s[1] = t[1] /\ s[2] = t[2] /\ s[3] = t[3] + (m + 1)
    BY <2>1, <2>2 DEF Verse
  <2> QED
    BY <2>3 DEF On, Verse
<1>9. o = On(y, m + 1) /\ b = On(z, m + 1)
  BY <1>7, <1>8
<1>10. /\ q.A = Stretch(x, m + 1) /\ q.O = Stretch(y, m + 1) /\ q.B = Stretch(z, m + 1)
  <2>1. /\ Stretch(x, m) \cup {On(x, m + 1)} = Stretch(x, m + 1)
        /\ Stretch(y, m) \cup {On(y, m + 1)} = Stretch(y, m + 1)
        /\ Stretch(z, m) \cup {On(z, m + 1)} = Stretch(z, m + 1)
    BY StretchGrows
  <2>2. /\ row.A = Stretch(x, m) /\ row.O = Stretch(y, m) /\ row.B = Stretch(z, m)
    BY <1>2 DEF Band
  <2> QED
    BY <1>3, <1>6, <1>9, <2>1, <2>2 DEF Longer
<1>11. At3(r, On(x, m + 1), On(y, m + 1), On(z, m + 1))
  BY <1>3, <1>6, <1>9 DEF At3
<1>12. \A j \in 0 .. m + 1 : j \in 0 .. m \/ j = m + 1
  OBVIOUS
<1>13. \A j \in 0 .. m + 1 : \E s \in M \cup {r} : At3(s, On(x, j), On(y, j), On(z, j))
  BY <1>2, <1>11, <1>12 DEF Band
<1>14. \A s \in M \cup {r} : \E j \in 0 .. m + 1 : At3(s, On(x, j), On(y, j), On(z, j))
  <2> TAKE s \in M \cup {r}
  <2>1. CASE s \in M
    <3>1. PICK j \in 0 .. m : At3(s, On(x, j), On(y, j), On(z, j))
      BY <1>2, <2>1 DEF Band
    <3>2. j \in 0 .. m + 1
      OBVIOUS
    <3> QED
      BY <3>1, <3>2
  <2>2. CASE s = r
    <3>1. m + 1 \in 0 .. m + 1
      OBVIOUS
    <3> QED
      BY <1>11, <2>2, <3>1
  <2> QED
    BY <2>1, <2>2
<1>15. q.dO = Offset(x, y) /\ q.dB = Offset(x, z)
  BY <1>2 DEF Band, Longer
<1>16. Band(q, M \cup {r}, x, y, z, m + 1)
  BY <1>10, <1>13, <1>14, <1>15 DEF Band
<1>17. m + 1 \in Nat /\ q.simple /\ q.t = row.t /\ Record(q, ROW)
  BY <1>1 DEF Longer
<1>18. \A s \in M \cup {r} : s.etype = q.t
  BY <1>1, <1>17 DEF RowIs
<1> QED
  BY <1>16, <1>17, <1>18 DEF RowIs

-----------------------------------------------------------------------------
(* Rows that stand for some relations, each for some of them. *)
Covers(rows, mem, S) ==
    /\ IsRow(rows) /\ \A i \in 1 .. Len(rows) : RowIs(rows[i], mem[i]) /\ mem[i] \subseteq S
    /\ \A r \in S : \E i \in 1 .. Len(rows) : r \in mem[i]
    /\ \A i, j \in 1 .. Len(rows) : i # j => mem[i] \cap mem[j] = {}

(* Rows that cover the relations so far cover the next one once it is         *)
(* taken.                                                                     *)
LEMMA RowTaken ==
    ASSUME NEW rows, NEW mem, NEW S, Covers(rows, mem, S), NEW r, Sound(r), r \notin S
    PROVE  \E new : Covers(TakeRow(rows, r), new, S \cup {r})
<1> DEFINE m == Len(rows)
           N == TakeRow(rows, r)
<1>1. /\ m \in Nat /\ rows = [i \in 1 .. m |-> rows[i]] /\ DOMAIN rows = 1 .. m
      /\ IsRow(rows)
  BY DEF Covers, IsRow
<1>2. /\ \A i \in 1 .. m : RowIs(rows[i], mem[i]) /\ mem[i] \subseteq S
      /\ \A s \in S : \E i \in 1 .. m : s \in mem[i]
      /\ \A i, j \in 1 .. m : i # j => mem[i] \cap mem[j] = {}
  BY DEF Covers
<1>3. CASE rows # <<>> /\ Extends(Last(rows), r)
  <2>1. m # 0
    <3>1. m = 0 => rows = <<>>
      <4>1. ASSUME m = 0 PROVE rows = <<>>
        <5>1. rows = [i \in 1 .. 0 |-> rows[i]]
          BY <1>1, <4>1
        <5>2. 1 .. 0 = {}
          OBVIOUS
        <5> QED
          BY <5>1, <5>2
      <4> QED
        BY <4>1
    <3> QED
      BY <1>3, <3>1
  <2>2. m \in 1 .. m /\ Last(rows) = rows[m]
    BY <1>1, <2>1 DEF Last
  <2> DEFINE q == Lengthened(rows[m], r)
             new == [i \in 1 .. m |-> IF i = m THEN mem[m] \cup {r} ELSE mem[i]]
  <2>3. RowIs(rows[m], mem[m])
    BY <1>2, <2>2
  <2>4. RowIs(q, mem[m] \cup {r})
    <3>1. Longer(q, rows[m], r)
      BY <2>3, Lengthens DEF RowIs
    <3> HIDE DEF q
    <3> QED
      BY <1>3, <2>2, <2>3, <3>1, ExtendsRow
  <2>5. N = [rows EXCEPT ![m] = q]
    BY <1>3, <2>2 DEF TakeRow
  <2> HIDE DEF q, N
  <2>6. N = [i \in 1 .. m |-> IF i = m THEN q ELSE rows[i]]
    BY <1>1, <2>2, <2>5
  <2>7. N[m] = q /\ \A i \in 1 .. m : i # m => N[i] = rows[i]
    BY <2>2, <2>6
  <2>8. IsRow(N) /\ Len(N) = m
    <3>1. N = [i \in 1 .. m |-> N[i]]
      BY <2>6
    <3> QED
      BY <1>1, <3>1, RowOf
  <2>9. new[m] = mem[m] \cup {r} /\ \A i \in 1 .. m : i # m => new[i] = mem[i]
    BY <2>2
  <2> HIDE DEF new
  <2>10. \A i \in 1 .. m : RowIs(N[i], new[i]) /\ new[i] \subseteq S \cup {r}
    <3> TAKE i \in 1 .. m
    <3>1. CASE i = m
      <4>1. mem[m] \subseteq S
        BY <1>2, <2>2
      <4> QED
        BY <2>4, <2>7, <2>9, <3>1, <4>1
    <3>2. CASE i # m
      BY <1>2, <2>7, <2>9, <3>2
    <3> QED
      BY <3>1, <3>2
  <2>11. \A s \in S \cup {r} : \E i \in 1 .. m : s \in new[i]
    <3> TAKE s \in S \cup {r}
    <3>1. CASE s = r
      BY <2>2, <2>9, <3>1
    <3>2. CASE s \in S
      <4>1. PICK i \in 1 .. m : s \in mem[i]
        BY <1>2, <3>2
      <4> QED
        BY <2>9, <4>1
    <3> QED
      BY <3>1, <3>2
  <2>12. \A i, j \in 1 .. m : i # j => new[i] \cap new[j] = {}
    <3>1. \A i \in 1 .. m : r \notin mem[i]
      BY <1>2
    <3>2. ASSUME NEW i \in 1 .. m
          PROVE  new[i] = mem[i] \/ (i = m /\ new[i] = mem[i] \cup {r})
      <4> HIDE DEF m
      <4>1. CASE i = m
        BY <2>9, <4>1
      <4>2. CASE i # m
        BY <2>9, <4>2
      <4> QED
        BY <4>1, <4>2
    <3> QED
      BY <1>2, <3>1, <3>2
  <2>13. Covers(N, new, S \cup {r})
    BY <2>8, <2>10, <2>11, <2>12 DEF Covers
  <2> QED
    BY <2>13 DEF N
<1>4. CASE ~ (rows # <<>> /\ Extends(Last(rows), r))
  <2> DEFINE q == Row(r)
             new == [i \in 1 .. m + 1 |-> IF i = m + 1 THEN {r} ELSE mem[i]]
  <2>1. N = Append(rows, q)
    BY <1>4 DEF TakeRow
  <2>2. RowHas(q, r)
    BY RowBegins
  <2> HIDE DEF q, N
  <2>3. RowIs(q, {r})
    BY <2>2, FirstRow
  <2>4. /\ IsRow(N) /\ Len(N) = m + 1 /\ \A i \in 1 .. m : N[i] = rows[i]
        /\ N[m + 1] = q
    BY <1>1, <2>1, Appended
  <2>5. new[m + 1] = {r} /\ \A i \in 1 .. m : new[i] = mem[i]
    BY <1>1
  <2>6. \A i \in 1 .. m + 1 : i \in 1 .. m \/ i = m + 1
    BY <1>1
  <2>7. m + 1 \in 1 .. m + 1 /\ \A i \in 1 .. m : i \in 1 .. m + 1
    BY <1>1
  <2> HIDE DEF new, m
  <2>8. \A i \in 1 .. m + 1 : RowIs(N[i], new[i]) /\ new[i] \subseteq S \cup {r}
    <3> TAKE i \in 1 .. m + 1
    <3>1. CASE i = m + 1
      BY <2>3, <2>4, <2>5, <3>1
    <3>2. CASE i \in 1 .. m
      BY <1>2, <2>4, <2>5, <3>2
    <3> QED
      BY <2>6, <3>1, <3>2
  <2>9. \A s \in S \cup {r} : \E i \in 1 .. m + 1 : s \in new[i]
    BY <1>2, <2>5, <2>7
  <2>10. \A i, j \in 1 .. m + 1 : i # j => new[i] \cap new[j] = {}
    <3>1. \A i \in 1 .. m : r \notin mem[i]
      BY <1>2
    <3> QED
      BY <1>2, <2>5, <2>6, <3>1
  <2>11. Covers(N, new, S \cup {r})
    BY <2>4, <2>8, <2>9, <2>10 DEF Covers
  <2> QED
    BY <2>11 DEF N
<1> QED
  BY <1>3, <1>4

(* The rows of a computation stand for all of its relations. *)
LEMMA RowsCover ==
    ASSUME Bedded(relations), \A r \in relations : Sound(r)
    PROVE  \E mem : Covers(Rows, mem, relations)
<1> DEFINE S == relations
           key == [r \in S |-> FirstOf(AnchorVerses(r))]
           ordered == Ordered(S, key)
           n == Len(ordered)
           Folding(f, m) == f = [k \in 0 .. m |-> IF k = 0 THEN <<>>
                                    ELSE TakeRow(f[k - 1], ordered[k])]
           rows == CHOOSE f : Folding(f, n)
           numbers == {m \in Nat : \E f : Folding(f, m)}
<1>0. Rows = rows[n]
  BY DEF Rows
<1>1. Keyed(S, key)
  <2> SUFFICES ASSUME NEW r \in S
               PROVE (r.A # {} => key[r] \in r.A) /\ (r.A = {} => key[r] \in r.B)
    BY DEF Keyed
  <2>1. r.A \subseteq Verse /\ r.B \subseteq Verse /\ (r.A # {} \/ r.B # {})
    BY DEF Bedded
  <2>2. /\ r.A # {} => FirstOf(r.A) \in r.A
        /\ r.A = {} => FirstOf(r.B) \in r.B
    BY <2>1, FirstIsOne
  <2>3. key[r] = FirstOf(AnchorVerses(r))
    OBVIOUS
  <2> QED
    BY <2>2, <2>3 DEF AnchorVerses
<1> HIDE DEF key
<1>2. Lists(ordered, S, Sooner(S, key), Cardinality(S))
  BY <1>1, OrderedLists
<1> HIDE DEF ordered
<1>3. /\ n \in Nat /\ \A i \in 1 .. n : ordered[i] \in S
      /\ \A x \in S : \E i \in 1 .. n : ordered[i] = x
      /\ \A i, j \in 1 .. n : ordered[i] = ordered[j] => i = j
  <2>1. n = Cardinality(S) /\ Cardinality(S) \in Nat
    BY <1>2 DEF Lists
  <2> HIDE DEF n
  <2> QED
    BY <1>2, <2>1 DEF Lists
<1> HIDE DEF n
<1>4. 0 \in numbers
  <2> DEFINE f == [k \in 0 .. 0 |-> <<>>]
  <2>1. Folding(f, 0)
    OBVIOUS
  <2> QED
    BY <2>1
<1>5. ASSUME NEW m \in Nat, m \in numbers PROVE m + 1 \in numbers
  <2>1. PICK f : Folding(f, m)
    BY <1>5
  <2> DEFINE g == [k \in 0 .. m + 1 |-> IF k = m + 1 THEN TakeRow(f[m], ordered[m + 1])
                                        ELSE f[k]]
  <2>2. \A k \in 0 .. m : f[k] = IF k = 0 THEN <<>> ELSE TakeRow(f[k - 1], ordered[k])
    BY <2>1
  <2>3. \A k \in 0 .. m : g[k] = f[k]
    OBVIOUS
  <2>4. g[m + 1] = TakeRow(f[m], ordered[m + 1])
    OBVIOUS
  <2>5. \A k \in 0 .. m + 1 : g[k] = IF k = 0 THEN <<>> ELSE TakeRow(g[k - 1], ordered[k])
    <3> TAKE k \in 0 .. m + 1
    <3> HIDE DEF g
    <3>1. CASE k = 0
      BY <2>2, <2>3, <3>1
    <3>2. CASE k \in 1 .. m
      <4>1. k \in 0 .. m /\ k - 1 \in 0 .. m /\ k # 0
        BY <3>2
      <4> QED
        BY <2>2, <2>3, <4>1
    <3>3. CASE k = m + 1
      <4>1. k - 1 = m /\ m \in 0 .. m /\ k # 0
        BY <3>3
      <4> QED
        BY <2>3, <2>4, <3>3, <4>1
    <3>4. k = 0 \/ k \in 1 .. m \/ k = m + 1
      OBVIOUS
    <3> QED
      BY <3>1, <3>2, <3>3, <3>4
  <2>6. g = [k \in 0 .. m + 1 |-> g[k]]
    OBVIOUS
  <2> HIDE DEF g
  <2>7. Folding(g, m + 1)
    BY <2>5, <2>6
  <2> HIDE DEF Folding
  <2> QED
    BY <2>7
<1>6. Folding(rows, n)
  <2> HIDE DEF numbers, Folding
  <2>1. Nat \subseteq numbers
    BY <1>4, <1>5, Induction
  <2>2. \E f : Folding(f, n)
    BY <1>3, <2>1 DEF numbers
  <2> QED
    BY <2>2
<1> HIDE DEF rows
<1>7. /\ rows[0] = <<>>
      /\ \A k \in 1 .. n : rows[k] = TakeRow(rows[k - 1], ordered[k])
  <2>1. 0 \in 0 .. n /\ \A k \in 1 .. n : k \in 0 .. n /\ k # 0
    BY <1>3
  <2>2. \A k \in 0 .. n : rows[k] = IF k = 0 THEN <<>> ELSE TakeRow(rows[k - 1], ordered[k])
    BY <1>6
  <2> QED
    BY <2>1, <2>2
<1> HIDE DEF Folding
<1> DEFINE taken == [k \in 0 .. n |-> {ordered[i] : i \in 1 .. k}]
           good == {k \in 0 .. n : \E mem : Covers(rows[k], mem, taken[k])}
<1>8. /\ \A k \in 0 .. n : \A s \in taken[k] : \E i \in 1 .. k : s = ordered[i]
      /\ \A k \in 0 .. n : \A i \in 1 .. k : ordered[i] \in taken[k]
  OBVIOUS
<1> HIDE DEF taken
<1>9. 0 \in good
  <2>1. taken[0] = {} /\ 1 .. 0 = {} /\ 0 \in 0 .. n
    BY <1>3, <1>8
  <2>2. Len(<<>>) = 0 /\ IsRow(<<>>)
    BY DEF IsRow
  <2>3. Covers(<<>>, <<>>, {})
    BY <2>1, <2>2 DEF Covers
  <2> QED
    BY <1>7, <2>1, <2>3
<1>10. ASSUME NEW k \in 1 .. n, k - 1 \in good PROVE k \in good
  <2>1. PICK mem : Covers(rows[k - 1], mem, taken[k - 1])
    BY <1>10
  <2>2. k - 1 \in 0 .. n /\ k \in 0 .. n /\ k - 1 \in Nat
    BY <1>3
  <2>3. ordered[k] \notin taken[k - 1]
    <3> SUFFICES ASSUME ordered[k] \in taken[k - 1] PROVE FALSE
      OBVIOUS
    <3>1. PICK i \in 1 .. k - 1 : ordered[k] = ordered[i]
      BY <1>8, <2>2
    <3>2. i \in 1 .. n /\ i # k
      BY <1>3, <2>2
    <3> QED
      BY <1>3, <3>1, <3>2
  <2>4. Sound(ordered[k])
    BY <1>3
  <2>5. \E new : Covers(TakeRow(rows[k - 1], ordered[k]), new, taken[k - 1] \cup {ordered[k]})
    BY <2>1, <2>3, <2>4, RowTaken
  <2>6. taken[k - 1] \cup {ordered[k]} = taken[k]
    <3>1. \A i \in 1 .. k : i \in 1 .. k - 1 \/ i = k
      BY <2>2
    <3>2. k \in 1 .. k /\ \A i \in 1 .. k - 1 : i \in 1 .. k
      BY <2>2
    <3>3. ASSUME NEW s \in taken[k] PROVE s \in taken[k - 1] \cup {ordered[k]}
      BY <1>8, <2>2, <3>1
    <3>4. ASSUME NEW s \in taken[k - 1] \cup {ordered[k]} PROVE s \in taken[k]
      BY <1>8, <2>2, <3>2
    <3> QED
      BY <3>3, <3>4
  <2> QED
    BY <1>7, <2>2, <2>5, <2>6
<1>11. n \in good /\ taken[n] = S
  <2>1. n \in good
    <3> HIDE DEF good
    <3>1. 0 .. n \subseteq good
      BY <1>3, <1>9, <1>10, StaysUpTo
    <3> QED
      BY <1>3, <3>1
  <2>2. n \in 0 .. n
    BY <1>3
  <2>3. taken[n] \subseteq S
    BY <1>3, <1>8, <2>2
  <2>4. S \subseteq taken[n]
    BY <1>3, <1>8, <2>2
  <2> QED
    BY <2>1, <2>3, <2>4
<1> QED
  BY <1>0, <1>11

-----------------------------------------------------------------------------
(* --- What runs tell --- *)

(* Two sets of verses that begin with the same verse, or are both empty. *)
BeginAs(S, T) == (S = {} <=> T = {}) /\ (S # {} => FirstOf(S) = FirstOf(T))

(* What has the same span begins with the same verse. *)
LEMMA SpansBegin ==
    ASSUME NEW S, S \subseteq Verse, NEW T, T \subseteq Verse, span(S) = span(T)
    PROVE  BeginAs(S, T)
<1>1. \A U \in {S, T} : U # {} =>
            /\ span(U) # <<>> /\ FirstOf(U) \in Verse /\ span(U)[1] = FirstOf(U)[1]
            /\ span(U)[2] = FirstOf(U)[2] /\ span(U)[3] = FirstOf(U)[3]
  <2> SUFFICES ASSUME NEW U \in {S, T}, U # {}
               PROVE  /\ span(U) # <<>> /\ FirstOf(U) \in Verse /\ span(U)[1] = FirstOf(U)[1]
                      /\ span(U)[2] = FirstOf(U)[2] /\ span(U)[3] = FirstOf(U)[3]
    OBVIOUS
  <2>1. U \subseteq Verse
    OBVIOUS
  <2>2. FirstOf(U) \in Verse
    BY <2>1, FirstIsOne
  <2>3. \/ span(U) = Span(FirstOf(U), FirstOf(U))
        \/ span(U) = Span(FirstOf(U), LastOf(U))
    BY DEF span
  <2> QED
    BY <2>2, <2>3 DEF Span
<1>2. \A U \in {S, T} : U = {} => span(U) = <<>>
  BY DEF span
<1>3. S = {} <=> T = {}
  BY <1>1, <1>2
<1>4. ASSUME S # {} PROVE FirstOf(S) = FirstOf(T)
  <2> DEFINE x == FirstOf(S)
             y == FirstOf(T)
  <2>1. x \in Verse /\ y \in Verse /\ x[1] = y[1] /\ x[2] = y[2] /\ x[3] = y[3]
    BY <1>1, <1>3, <1>4
  <2> HIDE DEF x, y
  <2>2. x = y
    BY <2>1 DEF Verse
  <2> QED
    BY <2>2 DEF x, y
<1> QED
  BY <1>3, <1>4 DEF BeginAs

(* Relations that begin with the same verses are the same. *)
LEMMA BeginningsTell ==
    ASSUME NEW R, Bedded(R), NEW r \in R, NEW s \in R, BeginAs(r.A, s.A), BeginAs(r.B, s.B)
    PROVE  r = s
<1> SUFFICES ASSUME r # s PROVE FALSE
  OBVIOUS
<1>1. /\ Beside(r, s) /\ r.A \subseteq Verse /\ r.B \subseteq Verse
      /\ s.A \subseteq Verse /\ s.B \subseteq Verse /\ (r.A # {} \/ r.B # {})
  BY DEF Bedded, Laid
<1>2. r.A # {} => FirstOf(r.A) \in r.A \cap s.A
  <2> SUFFICES ASSUME r.A # {} PROVE FirstOf(r.A) \in r.A \cap s.A
    OBVIOUS
  <2>1. s.A # {} /\ FirstOf(r.A) = FirstOf(s.A)
    BY DEF BeginAs
  <2>2. FirstOf(r.A) \in r.A /\ FirstOf(s.A) \in s.A
    BY <1>1, <2>1, FirstIsOne
  <2> QED
    BY <2>1, <2>2
<1>3. r.B # {} => FirstOf(r.B) \in r.B \cap s.B
  <2> SUFFICES ASSUME r.B # {} PROVE FirstOf(r.B) \in r.B \cap s.B
    OBVIOUS
  <2>1. s.B # {} /\ FirstOf(r.B) = FirstOf(s.B)
    BY DEF BeginAs
  <2>2. FirstOf(r.B) \in r.B /\ FirstOf(s.B) \in s.B
    BY <1>1, <2>1, FirstIsOne
  <2> QED
    BY <2>1, <2>2
<1>4. CASE r.A \cap s.A = {} /\ r.B \cap s.B = {}
  BY <1>1, <1>2, <1>3, <1>4
<1>5. CASE Apart(r.B, s.B)
  BY <1>3, <1>5 DEF Apart
<1>6. CASE Apart(r.A, s.A)
  BY <1>2, <1>6 DEF Apart
<1> QED
  BY <1>1, <1>4, <1>5, <1>6 DEF Beside

(* A relation of one verse on every axis. *)
LEMMA AtIsOne ==
    ASSUME NEW r, NEW x, NEW y, NEW z, At3(r, x, y, z)
    PROVE  OneEach(r)
<1>1. Cardinality({x}) = 1 /\ Cardinality({y}) = 1 /\ Cardinality({z}) = 1
  BY FS_Singleton
<1> QED
  BY <1>1 DEF At3, OneEach

(* Relations of the same verse on both sides are the same. *)
LEMMA SameAt ==
    ASSUME NEW R, Bedded(R), NEW r \in R, NEW s \in R, NEW x, NEW y, NEW z,
           At3(r, x, y, z), s.A = {x}, s.B = {z}
    PROVE  r = s
<1>1. BeginAs(r.A, s.A) /\ BeginAs(r.B, s.B)
  BY DEF At3, BeginAs
<1> QED
  BY <1>1, BeginningsTell

(* What is written of a row. *)
RunOf(run, row) ==
    /\ run.a = span(row.A) /\ run.o = span(row.O) /\ run.b = span(row.B) /\ run.t = row.t

(* A band begins with the verses of one of its relations, which is the only  *)
(* one with the span of the band.                                            *)
LEMMA BandBegins ==
    ASSUME NEW R, Bedded(R), \A r \in R : Sound(r), NEW row, NEW M, M \subseteq R,
           NEW x \in Verse, NEW y \in Verse, NEW z \in Verse, NEW m \in Nat,
           Band(row, M, x, y, z, m), NEW run, RunOf(run, row), NEW s \in R, Spans(run, s)
    PROVE  s \in M /\ OneEach(s)
<1>1. row.A = Stretch(x, m) /\ row.B = Stretch(z, m)
  BY DEF Band
<1>2. row.A \subseteq Verse /\ FirstOf(row.A) = x /\ row.A # {}
  BY <1>1, StretchHas
<1>3. row.B \subseteq Verse /\ FirstOf(row.B) = z /\ row.B # {}
  BY <1>1, StretchHas
<1>4. s.A \subseteq Verse /\ s.B \subseteq Verse
  BY DEF Sound
<1>5. span(row.A) = span(s.A) /\ span(row.B) = span(s.B)
  BY DEF RunOf, Spans
<1>6. BeginAs(row.A, s.A) /\ BeginAs(row.B, s.B)
  BY <1>2, <1>3, <1>4, <1>5, SpansBegin
<1>7. On(x, 0) = x /\ On(y, 0) = y /\ On(z, 0) = z /\ 0 \in 0 .. m
  BY DEF On, Verse
<1>8. PICK r \in M : At3(r, x, y, z)
  BY <1>7 DEF Band
<1>9. FirstOf({x}) = x /\ FirstOf({z}) = z
  <2>1. FirstOf({x}) \in {x} /\ FirstOf({z}) \in {z}
    BY FirstIsOne
  <2> QED
    BY <2>1
<1>10. BeginAs(r.A, s.A) /\ BeginAs(r.B, s.B)
  BY <1>2, <1>3, <1>6, <1>8, <1>9 DEF BeginAs, At3
<1>11. r = s
  BY <1>10, BeginningsTell
<1> QED
  BY <1>8, <1>11, AtIsOne

(* A run tells the relations of its row ... *)
LEMMA MemberIsTold ==
    ASSUME Bedded(relations), \A r \in relations : Sound(r), NEW row, NEW M, M \subseteq relations,
           RowIs(row, M), NEW run, RunOf(run, row), NEW r \in M
    PROVE  Tells(run, r)
<1>1. run.t = r.etype
  BY DEF RowIs, RunOf
<1>2. CASE ~ row.simple
  <2>1. Alone(row, M)
    BY <1>2 DEF RowIs
  <2>2. row.A = r.A /\ row.O = r.O /\ row.B = r.B
    BY <2>1 DEF Alone
  <2>3. Spans(run, r)
    BY <1>1, <2>2 DEF Spans, RunOf
  <2> QED
    BY <2>3 DEF Tells
<1>3. CASE row.simple
  <2>1. PICK x \in Verse, y \in Verse, z \in Verse, m \in Nat : Band(row, M, x, y, z, m)
    BY <1>3 DEF RowIs
  <2>2. PICK j \in 0 .. m : At3(r, On(x, j), On(y, j), On(z, j))
    BY <2>1 DEF Band
  <2>3. OneEach(r)
    BY <2>2, AtIsOne
  <2>4. /\ run.a = <<x[1], x[2], x[3], x[2], x[3] + m>>
        /\ run.o = <<y[1], y[2], y[3], y[2], y[3] + m>>
        /\ run.b = <<z[1], z[2], z[3], z[2], z[3] + m>>
    <3>1. run.a = span(Stretch(x, m)) /\ run.o = span(Stretch(y, m)) /\ run.b = span(Stretch(z, m))
      BY <2>1 DEF Band, RunOf
    <3> QED
      BY <3>1, StretchSpans
  <2>5. <<>> \notin {run.a, run.o, run.b}
    BY <2>4
  <2>6. \A s \in relations : Spans(run, s) => OneEach(s)
    BY <2>1, BandBegins
  <2>7. run.a[5] - run.a[3] = m
    <3>1. x[3] \in Nat
      BY DEF Verse
    <3>2. run.a[5] = x[3] + m /\ run.a[3] = x[3]
      BY <2>4
    <3> QED
      BY <3>1, <3>2
  <2>8. Nth(run.a, j) = On(x, j) /\ Nth(run.o, j) = On(y, j) /\ Nth(run.b, j) = On(z, j)
    BY <2>4 DEF Nth, On
  <2> QED
    BY <1>1, <2>2, <2>3, <2>5, <2>6, <2>7, <2>8 DEF Tells, At3
<1> QED
  BY <1>2, <1>3

(* ... and no other. *)
LEMMA ToldIsMember ==
    ASSUME Bedded(relations), \A r \in relations : Sound(r), NEW row, NEW M, M \subseteq relations,
           RowIs(row, M), NEW run, RunOf(run, row), NEW r \in relations, Tells(run, r)
    PROVE  r \in M
<1>1. CASE ~ row.simple
  <2>1. PICK s : M = {s} /\ ~ OneEach(s) /\ row.A = s.A /\ row.O = s.O /\ row.B = s.B
    BY <1>1 DEF RowIs, Alone
  <2>2. s \in relations /\ s.etype = row.t
    BY <2>1 DEF RowIs
  <2>3. Spans(run, s)
    BY <2>1, <2>2 DEF Spans, RunOf
  <2>4. Spans(run, r)
    BY <2>1, <2>2, <2>3 DEF Tells
  <2>5. span(r.A) = span(s.A) /\ span(r.B) = span(s.B)
    BY <2>3, <2>4 DEF Spans
  <2>6. r.A \subseteq Verse /\ r.B \subseteq Verse /\ s.A \subseteq Verse /\ s.B \subseteq Verse
    BY <2>2 DEF Sound
  <2>7. BeginAs(r.A, s.A) /\ BeginAs(r.B, s.B)
    BY <2>5, <2>6, SpansBegin
  <2>8. r = s
    BY <2>2, <2>7, BeginningsTell
  <2> QED
    BY <2>1, <2>8
<1>2. CASE row.simple
  <2>1. PICK x \in Verse, y \in Verse, z \in Verse, m \in Nat : Band(row, M, x, y, z, m)
    BY <1>2 DEF RowIs
  <2>2. CASE Spans(run, r)
    BY <2>1, <2>2, BandBegins
  <2>3. CASE ~ Spans(run, r)
    <3>1. /\ run.a = <<x[1], x[2], x[3], x[2], x[3] + m>>
          /\ run.b = <<z[1], z[2], z[3], z[2], z[3] + m>>
      <4>1. run.a = span(Stretch(x, m)) /\ run.b = span(Stretch(z, m))
        BY <2>1 DEF Band, RunOf
      <4> QED
        BY <4>1, StretchSpans
    <3>2. PICK k \in 0 .. (run.a[5] - run.a[3]) : r.A = {Nth(run.a, k)} /\ r.B = {Nth(run.b, k)}
      BY <2>3 DEF Tells
    <3>3. run.a[5] - run.a[3] = m
      <4>1. x[3] \in Nat
        BY DEF Verse
      <4>2. run.a[5] = x[3] + m /\ run.a[3] = x[3]
        BY <3>1
      <4> QED
        BY <4>1, <4>2
    <3>4. k \in 0 .. m /\ Nth(run.a, k) = On(x, k) /\ Nth(run.b, k) = On(z, k)
      BY <3>1, <3>2, <3>3 DEF Nth, On
    <3>5. PICK s \in M : At3(s, On(x, k), On(y, k), On(z, k))
      BY <2>1, <3>4 DEF Band
    <3>6. s = r
      <4>1. s \in relations /\ r.A = {On(x, k)} /\ r.B = {On(z, k)}
        BY <3>2, <3>4
      <4> QED
        BY <3>5, <4>1, SameAt
    <3> QED
      BY <3>6
  <2> QED
    BY <2>2, <2>3
<1> QED
  BY <1>1, <1>2

(* The runs of relations that are laid out tell each of them once, and have  *)
(* something to draw.                                                        *)
LEMMA RunsTell ==
    ASSUME Bedded(relations), \A r \in relations : Sound(r),
           \A r \in relations : r.etype \in TYPE_IDS \cup {Same},
           NEW R, R = build_runs
    PROVE  /\ \A r \in relations : Cardinality({i \in DOMAIN R : Tells(R[i], r)}) = 1
           /\ \A run \in ToSet(R) : run.t \in TYPE_IDS \cup {Same} /\ {run.a, run.b} # {<<>>}
<1> DEFINE rows == Rows
           n == Len(rows)
<1>1. PICK mem : Covers(rows, mem, relations)
  BY RowsCover
<1>2. R = [i \in DOMAIN rows |->
            [a |-> span(rows[i].A), o |-> span(rows[i].O), b |-> span(rows[i].B),
             t |-> rows[i].t, exA |-> rows[i].exA, exB |-> rows[i].exB]]
  BY DEF build_runs
<1> HIDE DEF rows
<1>3. n \in Nat /\ DOMAIN rows = 1 .. n
  BY <1>1 DEF Covers, IsRow
<1>4. DOMAIN R = 1 .. n /\ \A i \in 1 .. n : RunOf(R[i], rows[i])
  BY <1>2, <1>3 DEF RunOf
<1>5. /\ \A i \in 1 .. n : RowIs(rows[i], mem[i]) /\ mem[i] \subseteq relations
      /\ \A r \in relations : \E i \in 1 .. n : r \in mem[i]
      /\ \A i, j \in 1 .. n : i # j => mem[i] \cap mem[j] = {}
  BY <1>1 DEF Covers
<1> HIDE DEF n
<1>6. ASSUME NEW r \in relations
      PROVE  Cardinality({i \in DOMAIN R : Tells(R[i], r)}) = 1
  <2>1. PICK i \in 1 .. n : r \in mem[i]
    BY <1>5
  <2>2. Tells(R[i], r)
    BY <1>4, <1>5, <2>1, MemberIsTold
  <2>3. ASSUME NEW j \in 1 .. n, Tells(R[j], r) PROVE j = i
    <3>1. r \in mem[j]
      BY <1>4, <1>5, <2>3, ToldIsMember
    <3> QED
      BY <1>5, <2>1, <3>1
  <2>4. {j \in DOMAIN R : Tells(R[j], r)} = {i}
    BY <1>4, <2>2, <2>3
  <2> QED
    BY <2>4, FS_Singleton
<1>7. ASSUME NEW run \in ToSet(R)
      PROVE  run.t \in TYPE_IDS \cup {Same} /\ {run.a, run.b} # {<<>>}
  <2>1. PICK i \in 1 .. n : run = R[i]
    BY <1>4 DEF ToSet
  <2>2. RunOf(run, rows[i]) /\ RowIs(rows[i], mem[i]) /\ mem[i] \subseteq relations
    BY <1>4, <1>5, <2>1
  <2>3. PICK r \in mem[i] : r \in relations /\ r.etype = rows[i].t
    BY <2>2 DEF RowIs
  <2>4. run.t \in TYPE_IDS \cup {Same}
    BY <2>2, <2>3 DEF RunOf
  <2>5. rows[i].A # {} \/ rows[i].B # {}
    <3>1. CASE ~ rows[i].simple
      <4>1. rows[i].A = r.A /\ rows[i].B = r.B
        BY <2>2, <2>3, <3>1 DEF RowIs, Alone
      <4>2. r.A # {} \/ r.B # {}
        BY <2>3 DEF Bedded
      <4> QED
        BY <4>1, <4>2
    <3>2. CASE rows[i].simple
      <4>1. PICK x \in Verse, y \in Verse, z \in Verse, m \in Nat : Band(rows[i], mem[i], x, y, z, m)
        BY <2>2, <3>2 DEF RowIs
      <4>2. rows[i].A = Stretch(x, m) /\ x \in Stretch(x, m)
        BY <4>1, StretchHas DEF Band
      <4> QED
        BY <4>2
    <3> QED
      BY <3>1, <3>2
  <2>6. run.a # <<>> \/ run.b # <<>>
    BY <2>2, <2>5, SpanIs DEF RunOf
  <2> QED
    BY <2>4, <2>6
<1> QED
  BY <1>6, <1>7

-----------------------------------------------------------------------------
(* --- A side compared with itself --- *)

(* Of a side and itself, a component holds every verse twice. *)
LEMMA TwinsJoin ==
    ASSUME NEW a, SchemeOK(a), NEW o, NEW c \in Components(a, a, o), NEW x
    PROVE  <<"A", x>> \in c <=> <<"B", x>> \in c
<1>1. Meets(c, "A", a, o) /\ Meets(c, "B", a, o)
  BY ComponentsMeet
<1>2. ASSUME NEW s \in {"A", "B"}, NEW t \in {"A", "B"}, <<s, x>> \in c
      PROVE  <<t, x>> \in c
  <2>1. Meets(c, s, a, o) /\ Meets(c, t, a, o)
    BY <1>1
  <2>2. x \in verses(a) /\ LinkOf(s, a, o, x) \subseteq c
    BY <1>2, <2>1 DEF Meets
  <2>3. PICK y : y \in OrgOf(a, o, x)
    BY OrgIsSome
  <2>4. <<"O", y>> \in LinkOf(s, a, o, x)
    BY <2>3, LinkHolds
  <2> QED
    BY <2>1, <2>2, <2>3, <2>4 DEF Meets
<1> QED
  BY <1>2

(* A relation of a side and itself, and one in a single book. *)
Even(r) == r.A = r.B /\ OneBook(r.A)

(* The relation of a component of a side and itself is even. *)
LEMMA WholeIsEven ==
    ASSUME NEW a, SchemeOK(a), NEW o, NEW r \in Whole(a, a, o)
    PROVE  r.A = r.B /\ r.A # {} /\ Raw(r) /\ r.A \subseteq verses(a)
<1>1. WholeHas(r, a, a, o)
  BY WholesAre
<1>2. PICK c \in Components(a, a, o) : WholeOf(r, c)
  BY WholesAre
<1>3. \A x : <<"A", x>> \in c <=> <<"B", x>> \in c
  BY TwinsJoin
<1>4. \A x : x \in r.A <=> x \in r.B
  BY <1>2, <1>3 DEF WholeOf
<1>5. r.A = r.B
  BY <1>4
<1> QED
  BY <1>1, <1>5 DEF WholeHas

(* Such a relation is split into one for each of its books. *)
LEMMA SplitIsEven ==
    ASSUME NEW r, Raw(r), r.A = r.B, r.A # {}, IsFiniteSet(r.A), NEW s \in split_alternates(r)
    PROVE  Even(s)
<1> DEFINE common == BooksOf(r.A) \cap BooksOf(r.B)
<1>1. \A x \in r.A : x[1] \in common
  BY DEF BooksOf
<1>2. common # {} /\ {x \in r.A : x[1] \notin common} = {} /\ {} \notin {r.A, r.B}
  BY <1>1
<1>3. CASE Cardinality(BooksOf(r.A)) = 1
  <2>1. s = r
    BY <1>3 DEF split_alternates
  <2>2. IsFiniteSet(BooksOf(r.A))
    <3> DEFINE f == [x \in r.A |-> x[1]]
    <3>1. \A k \in BooksOf(r.A) : \E x \in r.A : k = f[x]
      BY DEF BooksOf
    <3> HIDE DEF f
    <3> QED
      BY <3>1, ImageIsFinite
  <2>3. PICK k : BooksOf(r.A) = {k}
    BY <1>3, <2>2, FS_Singleton
  <2>4. \A x \in r.A : x[1] = k
    BY <2>3 DEF BooksOf
  <2> QED
    BY <2>1, <2>4 DEF Even, OneBook
<1>4. CASE Cardinality(BooksOf(r.A)) # 1
  <2>1. split_alternates(r) = {Copy(r, InBook(r.A, k), InBook(r.B, k), FALSE) : k \in common}
    <3> DEFINE paired == {Copy(r, InBook(r.A, k), InBook(r.B, k), FALSE) : k \in common}
               leftA == {x \in r.A : x[1] \notin common}
               leftB == {x \in r.B : x[1] \notin common}
               more == {Copy(r, leftA, leftB, r.warn) :
                            x \in IF {} \in {leftA, leftB} THEN {} ELSE {0}}
    <3>1. split_alternates(r) = paired \cup more
      BY <1>2, <1>4 DEF split_alternates
    <3>2. more = {}
      BY <1>2
    <3> HIDE DEF paired, more
    <3>3. split_alternates(r) = paired
      BY <3>1, <3>2
    <3> QED
      BY <3>3 DEF paired
  <2>2. PICK k \in common : s = Copy(r, InBook(r.A, k), InBook(r.B, k), FALSE)
    BY <2>1
  <2>3. CopyOf(s, r, InBook(r.A, k), InBook(r.B, k), FALSE)
    BY <2>2, CopyHas
  <2> QED
    BY <2>3 DEF CopyOf, Even, OneBook, InBook
<1> QED
  BY <1>3, <1>4

(* It agrees, whatever is excluded. *)
LEMMA EvenAgrees ==
    ASSUME NEW a, SchemeOK(a), NEW s, PieceHas(s, a, a), Even(s)
    PROVE  /\ Classified(s, a, a).type = Same
           /\ Classified(s, a, a).Ap = Classified(s, a, a).Bp
<1> DEFINE ap == s.A \ a.excluded
<1>1. s.A = s.B /\ OneBook(s.A)
  BY DEF Even
<1>2. TypeOf(s, ap, ap) = Same
  <2>1. CASE ap = {}
    BY <2>1 DEF TypeOf
  <2>2. CASE ap # {}
    <3>1. PICK x \in ap : TRUE
      BY <2>2
    <3>2. BooksOf(ap \cup ap) = {x[1]}
      BY <1>1, <3>1 DEF BooksOf, OneBook
    <3>3. Cardinality(BooksOf(ap \cup ap)) = 1
      BY <3>2, FS_Singleton
    <3> HIDE DEF ap
    <3>4. PairedType(s, ap, ap) = Same
      BY <3>3 DEF PairedType
    <3>5. TypeOf(s, ap, ap) = PairedType(s, ap, ap)
      BY <2>2 DEF TypeOf
    <3> QED
      BY <3>4, <3>5
  <2> QED
    BY <2>1, <2>2
<1>3. Classified(s, a, a).type = TypeOf(s, s.A \ a.excluded, s.B \ a.excluded)
  BY DEF Classified
<1>4. PassHas(Classified(s, a, a), a, a) /\ Classified(s, a, a).A = s.A
      /\ Classified(s, a, a).B = s.B
  BY Classifies
<1> QED
  BY <1>1, <1>2, <1>3, <1>4 DEF PassHas

(* So are all of the first pass: the same type, the same verses on both       *)
(* sides.                                                                     *)
LEMMA PassIsEven ==
    ASSUME NEW a, SchemeOK(a), NEW o, NEW q \in FirstPass(a, a, o)
    PROVE  q.type = Same /\ q.Ap = q.Bp
<1>1. \E s \in Pieces(a, a, o) : q = Classified(s, a, a)
  BY DEF FirstPass, Pieces, Whole
<1>2. PICK s \in Pieces(a, a, o) : q = Classified(s, a, a)
  BY <1>1
<1>3. PICK r \in Whole(a, a, o) : s \in split_alternates(r)
  BY <1>2 DEF Pieces
<1>4. r.A = r.B /\ r.A # {} /\ Raw(r) /\ r.A \subseteq verses(a)
  BY WholeIsEven
<1>5. Even(s)
  BY <1>3, <1>4, SubsetsAreFinite, SplitIsEven
<1>6. PieceHas(s, a, a)
  BY PiecesAre
<1> QED
  BY <1>2, <1>5, <1>6, EvenAgrees

(* Relations in the same place on both sides are all on the backbone. *)
LEMMA NoneIsOff ==
    ASSUME NEW rs, Bedded(rs), Present(rs), \A r \in rs : r.Ap = r.Bp
    PROVE  Off(rs) = {}
<1> SUFFICES ASSUME NEW k PROVE Inverted(OfBook(rs, k)) = {}
  BY DEF Off
<1> DEFINE S == BookOf(rs, k)
           seq == OfBook(rs, k)
           n == Cardinality(S)
<1>1. PICK keep : Backbone(seq, S, n, keep)
  BY BackboneIs
<1>2. \A r \in S : FirstA(r) = FirstOf(r.Bp) /\ FirstA(r) \in Verse
  <2> TAKE r \in S
  <2>1. r \in Paired(rs)
    BY DEF BookOf
  <2>2. FirstA(r) \in Verse /\ r \in rs
    BY <2>1, PresentHave
  <2> QED
    BY <2>2 DEF FirstA
<1> HIDE DEF seq, S, n
<1>3. /\ n \in Nat /\ keep \subseteq 1 .. n /\ seq \in [1 .. n -> S]
      /\ \A i, j \in 1 .. n : i < j =>
            \/ Before(FirstA(seq[i]), FirstA(seq[j]))
            \/ /\ FirstA(seq[i]) = FirstA(seq[j])
               /\ Before(FirstOf(seq[i].Bp), FirstOf(seq[j].Bp))
      /\ \A I \in SUBSET (1 .. n) :
            (\A i, j \in I : i < j => ~ Before(FirstOf(seq[j].Bp), FirstOf(seq[i].Bp)))
                => Cardinality(I) <= Cardinality(keep)
      /\ Inverted(seq) = {seq[i] : i \in (1 .. n) \ keep}
  BY <1>1 DEF Backbone
<1>4. ASSUME NEW i \in 1 .. n, NEW j \in 1 .. n, i < j
      PROVE  ~ Before(FirstOf(seq[j].Bp), FirstOf(seq[i].Bp))
  <2>1. seq[i] \in S /\ seq[j] \in S
    BY <1>3
  <2>2. /\ FirstOf(seq[i].Bp) = FirstA(seq[i]) /\ FirstA(seq[i]) \in Verse
        /\ FirstOf(seq[j].Bp) = FirstA(seq[j]) /\ FirstA(seq[j]) \in Verse
    BY <1>2, <2>1
  <2>3. \/ Before(FirstA(seq[i]), FirstA(seq[j]))
        \/ FirstA(seq[i]) = FirstA(seq[j])
    BY <1>3, <1>4
  <2> QED
    BY <2>2, <2>3, VerseOrder
<1>5. Cardinality(1 .. n) <= Cardinality(keep)
  BY <1>3, <1>4
<1>6. keep = 1 .. n
  <2>1. 1 \in Int /\ n \in Int
    BY <1>3
  <2>2. IsFiniteSet(1 .. n) /\ Cardinality(1 .. n) \in Nat
    BY <2>1, FS_Interval, FS_CardinalityType
  <2>3. /\ Cardinality(keep) <= Cardinality(1 .. n) /\ IsFiniteSet(keep)
        /\ Cardinality(1 .. n) = Cardinality(keep) => 1 .. n = keep
    BY <1>3, <2>2, FS_Subset
  <2>4. Cardinality(keep) \in Nat
    BY <2>3, FS_CardinalityType
  <2> QED
    BY <1>5, <2>2, <2>3, <2>4
<1>7. Inverted(seq) = {}
  BY <1>3, <1>6
<1> QED
  BY <1>7 DEF seq

(* A side and itself differ in no relation. *)
LEMMA TwinsAgree ==
    ASSUME NEW a, SchemeOK(a), NEW o
    PROVE  TypedOf(compose_schemes(a, a, o)) = {}
<1> DEFINE F == FirstPass(a, a, o)
           R == compose_schemes(a, a, o)
<1>1. \A q \in F : q.type = Same /\ q.Ap = q.Bp
  BY PassIsEven
<1>2. Bedded(F) /\ \A q \in F : PassHas(q, a, a)
  BY FirstPassIs
<1>3. PICK m : Marks(m, F)
  BY ComposedIs
<1>4. R = classify(F)
  BY DEF compose_schemes
<1> HIDE DEF F, R
<1>5. Off(F) = {}
  BY <1>1, <1>2, PassIsPresent, NoneIsOff
<1>6. \A q \in R : q \in F
  BY <1>3, <1>4, <1>5 DEF Marks
<1>7. TypedOf(R) = {}
  BY <1>1, <1>6 DEF TypedOf
<1> QED
  BY <1>7 DEF R

(* No group of no relations. *)
LEMMA NoGroup ==
    ASSUME NEW G, NEW S, NEW kind, Bunched(G, S, kind), S = {}
    PROVE  Len(G) = 0 /\ DOMAIN G = 1 .. 0 /\ IsRow(G)
<1>1. Len(G) \in Nat /\ DOMAIN G = 1 .. Len(G) /\ G \in Seq(Seq(S))
  BY DEF Bunched
<1>2. 1 \notin 1 .. Len(G)
  BY DEF Bunched
<1>3. Len(G) = 0
  BY <1>1, <1>2
<1>4. IsRow(G)
  BY <1>1, LenProperties DEF IsRow
<1> QED
  BY <1>1, <1>3, <1>4

(* No relation that differs, no event of one. *)
LEMMA NothingIsTold ==
    ASSUME Related(relations, A, B), TypedOf(relations) = {}
    PROVE  IsRow(RelationEvents) /\ Len(RelationEvents) = 0
<1> DEFINE both == PairedGroups
           GA == LoneGroups("A")
           GB == LoneGroups("B")
           alone == GA \o GB
           E == [i \in DOMAIN both |-> emit(_flush_group(both[i]), both[i])]
           F == [i \in DOMAIN alone |-> emit(alone[i][1].type, alone[i])]
<1>1. RelationEvents = E \o F
  BY DEF RelationEvents
<1>2. PICK kind : Bunched(both, Paired(TypedOf(relations)), kind)
  BY PairedGroupsBunch
<1>3. Paired(TypedOf(relations)) = {} /\ Lone("A") = {} /\ Lone("B") = {}
  <2>1. Typed = {}
    BY DEF Typed, TypedOf
  <2> QED
    BY <2>1 DEF Paired, Lone
<1>4. /\ Bunched(GA, Lone("A"), LoneKind(relations))
      /\ Bunched(GB, Lone("B"), LoneKind(relations))
  BY LoneGroupsBunch
<1> HIDE DEF both, GA, GB
<1>5. DOMAIN both = 1 .. 0
  BY <1>2, <1>3, NoGroup
<1>6. Len(GA) = 0 /\ IsRow(GA) /\ Len(GB) = 0 /\ IsRow(GB)
  BY <1>3, <1>4, NoGroup
<1>7. IsRow(alone) /\ Len(alone) = 0
  BY <1>6, Concatenated
<1>8. DOMAIN alone = 1 .. 0
  <2> HIDE DEF alone
  <2>1. alone = [i \in 1 .. 0 |-> alone[i]]
    BY <1>7 DEF IsRow
  <2> QED
    BY <2>1
<1> HIDE DEF alone
<1>9. IsRow(E) /\ Len(E) = 0
  <2>1. E = [i \in 1 .. 0 |-> E[i]]
    BY <1>5
  <2> HIDE DEF E
  <2> QED
    BY <2>1, RowOf
<1>10. IsRow(F) /\ Len(F) = 0
  <2>1. F = [i \in 1 .. 0 |-> F[i]]
    BY <1>8
  <2> HIDE DEF F
  <2> QED
    BY <2>1, RowOf
<1> HIDE DEF E, F
<1> QED
  BY <1>1, <1>9, <1>10, Concatenated

(* No book to fold, nothing folded. *)
LEMMA FoldsNone ==
    ASSUME NEW evs, NEW scheme, NEW side, NEW books, Len(books) = 0
    PROVE  FoldBooks(evs, scheme, side, books) = evs
<1> DEFINE Folding(f) == f = [k \in 0 .. 0 |-> IF k = 0 THEN evs
                                    ELSE FoldBook(f[k - 1], scheme, side, books[k])]
           folded == CHOOSE f : Folding(f)
<1>1. Folding([k \in 0 .. 0 |-> evs])
  OBVIOUS
<1>2. Folding(folded)
  <2> HIDE DEF Folding
  <2> QED
    BY <1>1
<1>3. FoldBooks(evs, scheme, side, books) = folded[0]
  BY DEF FoldBooks
<1> HIDE DEF folded
<1>4. folded[0] = evs
  BY <1>2
<1> QED
  BY <1>3, <1>4

(* Two rows of events of no relation are one. *)
LEMMA NoneJoin ==
    ASSUME NEW E, NEW F, NoneOf(E), NoneOf(F)
    PROVE  NoneOf(E \o F)
<1>1. IsRow(E) /\ IsRow(F) /\ Len(E) \in Nat /\ Len(F) \in Nat
  BY DEF NoneOf, IsRow
<1>2. /\ IsRow(E \o F) /\ Len(E \o F) = Len(E) + Len(F)
      /\ \A i \in 1 .. Len(E) : (E \o F)[i] = E[i]
      /\ \A i \in 1 .. Len(F) : (E \o F)[Len(E) + i] = F[i]
  BY <1>1, Concatenated
<1>3. ASSUME NEW i \in 1 .. Len(E \o F)
      PROVE  (E \o F)[i].of = {} /\ (E \o F)[i].type \in {"BRIDGE", "SEGMENT"}
  <2>1. CASE i \in 1 .. Len(E)
    BY <1>2, <2>1 DEF NoneOf
  <2>2. CASE i \notin 1 .. Len(E)
    <3>1. i - Len(E) \in 1 .. Len(F) /\ Len(E) + (i - Len(E)) = i
      BY <1>1, <1>2, <2>2
    <3>2. (E \o F)[i] = F[i - Len(E)]
      BY <1>2, <3>1
    <3> QED
      BY <3>1, <3>2 DEF NoneOf
  <2> QED
    BY <2>1, <2>2
<1> QED
  BY <1>2, <1>3 DEF NoneOf

(* What a side and itself have to tell: bridges and parts. *)
LEMMA TwinsAreSilent ==
    ASSUME SchemeOK(A), SchemeOK(B), Related(relations, A, B),
           TypedOf(relations) = {}, DOMAIN A.max = DOMAIN B.max
    PROVE  NoneOf(EVENTS)
<1> DEFINE E0 == RelationEvents
           E1 == E0 \o BridgeEvents("A")
           E2 == E1 \o BridgeEvents("B")
           E3 == E2 \o SegmentEvents
           none == Increasing({})
<1>1. /\ NoneOf(BridgeEvents("A")) /\ NoneOf(BridgeEvents("B")) /\ NoneOf(SegmentEvents)
  BY BridgesTold, SegmentsTold
<1>2. NoneOf(E0)
  BY NothingIsTold DEF NoneOf
<1> HIDE DEF E0
<1>3. NoneOf(E1)
  BY <1>1, <1>2, NoneJoin
<1> HIDE DEF E1
<1>4. NoneOf(E2)
  BY <1>1, <1>3, NoneJoin
<1> HIDE DEF E2
<1>5. NoneOf(E3)
  BY <1>1, <1>4, NoneJoin
<1> HIDE DEF E3
<1>6. IsRow(none) /\ Len(none) = 0
  <2>1. IsFiniteSet({}) /\ Cardinality({}) = 0
    BY FS_EmptySet
  <2>2. none = [i \in 1 .. 0 |-> none[i]]
    BY <2>1 DEF Increasing, InOrder
  <2> HIDE DEF none
  <2> QED
    BY <2>2, RowOf
<1>7. EVENTS = FoldBooks(FoldBooks(E3, A, "A", none), B, "B", none)
  <2>1. DOMAIN A.max \ DOMAIN B.max = {} /\ DOMAIN B.max \ DOMAIN A.max = {}
    OBVIOUS
  <2>2. EVENTS = _fold_book_one_sided(E3)
    BY DEF EVENTS, E3, E2, E1, E0
  <2>3. Increasing(DOMAIN A.max \ DOMAIN B.max) = none
        /\ Increasing(DOMAIN B.max \ DOMAIN A.max) = none
    BY <2>1
  <2> HIDE DEF none
  <2> QED
    BY <2>2, <2>3 DEF _fold_book_one_sided
<1> HIDE DEF none
<1>8. EVENTS = E3
  BY <1>6, <1>7, FoldsNone
<1> QED
  BY <1>5, <1>8

-----------------------------------------------------------------------------
(* --- The stages of a report --- *)

(* What the schemes are loaded from. *)
LoadedSide(side) == apply_text_facts(load_scheme(side.doc), side.spans)
LoadedOrg(doc) == load_scheme([doc EXCEPT !.vrs = {}, !.has_vrs = FALSE])

(* No edge of a loaded document leads to a title, and none starts at a verse *)
(* its maxima do not list.                                                   *)
EdgesFit(scheme) ==
    \A e \in scheme.edges : e[2][3] # 0 /\ (e[1][3] = 0 \/ _exists(scheme.max, e[1])
                                            \/ e[1][1] \notin DOMAIN scheme.max)

(* The edges of a loaded document: what _add lets through. *)
LEMMA LoadedEdges ==
    ASSUME NEW doc
    PROVE  \A e \in load_scheme(doc).edges :
                e[2][3] # 0 /\ (e[1][3] = 0 \/ _exists(load_scheme(doc).max, e[1]))
<1> DEFINE s == load_scheme(doc)
<1>1. s.max = doc.max /\ s.edges = UNION {_add(doc.max, line) : line \in doc.mapped \cup doc.vrs}
  BY DEF load_scheme
<1> HIDE DEF s
<1>2. \A line : \A p \in _add(doc.max, line) : p[2][3] # 0 /\ (p[1][3] = 0 \/ _exists(doc.max, p[1]))
  BY DEF _add
<1>3. \A e \in s.edges : \E line \in doc.mapped \cup doc.vrs : e \in _add(doc.max, line)
  BY <1>1
<1> QED
  BY <1>1, <1>2, <1>3 DEF s

(* The text of a side takes no edge away and adds none; it may take the       *)
(* book of one away.                                                          *)
LEMMA SideEdges ==
    ASSUME NEW side
    PROVE  EdgesFit(LoadedSide(side))
<1> DEFINE s == load_scheme(side.doc)
           t == apply_text_facts(s, side.spans)
           max == [b \in DOMAIN s.max \cap {x.book : x \in side.spans} |-> s.max[b]]
<1>1. \A e \in s.edges : e[2][3] # 0 /\ (e[1][3] = 0 \/ _exists(s.max, e[1]))
  BY LoadedEdges
<1>2. CASE side.spans = {}
  <2>1. t = s
    BY <1>2 DEF apply_text_facts
  <2> HIDE DEF s, t
  <2>2. EdgesFit(t)
    BY <1>1, <2>1 DEF EdgesFit
  <2> QED
    BY <2>2 DEF LoadedSide, s, t
<1>3. CASE side.spans # {}
  <2>1. t.max = max /\ t.edges = s.edges
    BY <1>3 DEF apply_text_facts, load_scheme
  <2> HIDE DEF s, t
  <2>2. ASSUME NEW e \in s.edges, _exists(s.max, e[1]), e[1][1] \in DOMAIN max
        PROVE  _exists(max, e[1])
    BY <2>2 DEF _exists
  <2> HIDE DEF max
  <2>3. EdgesFit(t)
    BY <1>1, <2>1, <2>2 DEF EdgesFit
  <2> QED
    BY <2>3 DEF LoadedSide, s, t
<1> QED
  BY <1>2, <1>3

(* The root's document has neither text nor supplement. *)
LEMMA OrgEdges ==
    ASSUME NEW doc
    PROVE  EdgesFit(LoadedOrg(doc))
BY LoadedEdges DEF EdgesFit, LoadedOrg

(* What a side is loaded to is a scheme. *)
LEMMA LoadedIsScheme ==
    ASSUME NEW side \in Sides
    PROVE  SchemeOK(LoadedSide(side))
<1>1. DocOK(side.doc) /\ IsFiniteSet(side.spans)
      /\ \A s \in side.spans : {s.book, s.chapter, s.verse, s.hi} \subseteq Nat
  BY EngineAssumption DEF SideOK
<1> QED
  BY <1>1, TextKeepsScheme DEF LoadedSide

(* What the root is loaded to is a scheme. *)
LEMMA OrgIsScheme ==
    ASSUME NEW doc \in Orgs
    PROVE  SchemeOK(LoadedOrg(doc))
<1> DEFINE d == [doc EXCEPT !.vrs = {}, !.has_vrs = FALSE]
           q == [max |-> doc.max, excluded |-> doc.excluded, merged |-> doc.merged,
                 partial |-> doc.partial, mapped |-> doc.mapped, vrs |-> {},
                 has_vrs |-> FALSE]
<1>1. DocOK(doc)
  BY EngineAssumption
<1>2. d = q
  <2> DEFINE p == [max |-> doc.max, excluded |-> doc.excluded, merged |-> doc.merged,
                   partial |-> doc.partial, mapped |-> doc.mapped, vrs |-> doc.vrs,
                   has_vrs |-> doc.has_vrs]
  <2>1. doc = p
    BY <1>1 DEF DocOK
  <2> DEFINE DOC == {"max", "excluded", "merged", "partial", "mapped", "vrs", "has_vrs"}
             f == [x \in DOC |-> doc[x]]
             g == [x \in DOC |-> q[x]]
  <2>5. /\ g["max"] = f["max"] /\ g["excluded"] = f["excluded"] /\ g["merged"] = f["merged"]
        /\ g["partial"] = f["partial"] /\ g["mapped"] = f["mapped"] /\ g["vrs"] = {}
        /\ g["has_vrs"] = FALSE
    OBVIOUS
  <2>6. g = [x \in DOC |-> g[x]] /\ f = [x \in DOC |-> f[x]]
    OBVIOUS
  <2>2. [f EXCEPT !["vrs"] = {}, !["has_vrs"] = FALSE] = g
    <3> HIDE DEF f, g
    <3> QED
      BY <2>5, <2>6
  <2>3. p = f
    OBVIOUS
  <2>4. q = g
    OBVIOUS
  <2> HIDE DEF p, q, f, g
  <2> QED
    BY <2>1, <2>2, <2>3, <2>4
<1>3. /\ q.max = doc.max /\ q.merged = doc.merged /\ q.mapped = doc.mapped /\ q.vrs = {}
      /\ q.has_vrs = FALSE /\ q.excluded = doc.excluded /\ q.partial = doc.partial
  OBVIOUS
<1>4. q = [max |-> q.max, excluded |-> q.excluded, merged |-> q.merged,
           partial |-> q.partial, mapped |-> q.mapped, vrs |-> q.vrs, has_vrs |-> q.has_vrs]
  BY <1>3
<1>5. IsFiniteSet(doc.mapped \cup {})
  <2>1. IsFiniteSet(doc.mapped \cup doc.vrs)
    BY <1>1 DEF DocOK
  <2> QED
    BY <2>1, FS_Subset
<1> HIDE DEF q
<1>6. DocOK(q)
  BY <1>1, <1>3, <1>4, <1>5 DEF DocOK
<1>7. SchemeOK(load_scheme(q))
  BY <1>6, LoadsScheme
<1> QED
  BY <1>2, <1>7 DEF LoadedOrg

-----------------------------------------------------------------------------
(* --- Both directions of a pair --- *)

(* Where a node stands when the sides change places. *)
Across(s) == CASE s = "A" -> "B" [] s = "B" -> "A" [] OTHER -> s
Flip(c) == {<<Across(n[1]), n[2]>> : n \in c}

(* Nodes of a side or of org. *)
Noded(c) == \A n \in c : n = <<n[1], n[2]>> /\ n[1] \in {"A", "B", "O"}

(* Exchanging the sides of nodes exchanges their verses. *)
LEMMA FlipHas ==
    ASSUME NEW c, Noded(c)
    PROVE  /\ Noded(Flip(c)) /\ Flip(Flip(c)) = c
           /\ \A x : /\ <<"A", x>> \in Flip(c) <=> <<"B", x>> \in c
                     /\ <<"B", x>> \in Flip(c) <=> <<"A", x>> \in c
                     /\ <<"O", x>> \in Flip(c) <=> <<"O", x>> \in c
<1>1. ASSUME NEW s \in {"A", "B", "O"}, NEW x
      PROVE  /\ Across(s) \in {"A", "B", "O"} /\ Across(Across(s)) = s
             /\ <<s, x>> \in c => <<Across(s), x>> \in Flip(c)
  <2>1. Across(s) \in {"A", "B", "O"} /\ Across(Across(s)) = s
    BY DEF Across
  <2>2. ASSUME <<s, x>> \in c PROVE <<Across(s), x>> \in Flip(c)
    <3>1. <<s, x>>[1] = s /\ <<s, x>>[2] = x
      OBVIOUS
    <3>2. \A n \in c : <<Across(n[1]), n[2]>> \in Flip(c)
      BY DEF Flip
    <3> QED
      BY <2>2, <3>1, <3>2
  <2> QED
    BY <2>1, <2>2
<1>2. ASSUME NEW n \in Flip(c)
      PROVE  /\ n = <<n[1], n[2]>> /\ n[1] \in {"A", "B", "O"}
             /\ <<Across(n[1]), n[2]>> \in c
  <2>1. PICK m \in c : n = <<Across(m[1]), m[2]>>
    BY DEF Flip
  <2>2. m = <<m[1], m[2]>> /\ m[1] \in {"A", "B", "O"}
    BY DEF Noded
  <2>3. n[1] = Across(m[1]) /\ n[2] = m[2]
    BY <2>1
  <2>4. Across(n[1]) = m[1] /\ n[1] \in {"A", "B", "O"}
    BY <1>1, <2>2, <2>3
  <2> QED
    BY <2>1, <2>2, <2>3, <2>4
<1>3. Noded(Flip(c))
  BY <1>2 DEF Noded
<1>4. ASSUME NEW s \in {"A", "B", "O"}, NEW x
      PROVE  <<Across(s), x>> \in Flip(c) <=> <<s, x>> \in c
  <2>1. ASSUME <<Across(s), x>> \in Flip(c) PROVE <<s, x>> \in c
    <3> DEFINE n == <<Across(s), x>>
    <3>1. n[1] = Across(s) /\ n[2] = x
      OBVIOUS
    <3>2. <<Across(n[1]), n[2]>> \in c
      BY <1>2, <2>1
    <3> QED
      BY <1>1, <3>1, <3>2
  <2> QED
    BY <1>1, <2>1
<1>5. Across("A") = "B" /\ Across("B") = "A" /\ Across("O") = "O"
  BY DEF Across
<1>6. ASSUME NEW x
      PROVE  /\ <<"A", x>> \in Flip(c) <=> <<"B", x>> \in c
             /\ <<"B", x>> \in Flip(c) <=> <<"A", x>> \in c
             /\ <<"O", x>> \in Flip(c) <=> <<"O", x>> \in c
  <2>1. <<Across("A"), x>> \in Flip(c) <=> <<"A", x>> \in c
    BY <1>4
  <2>2. <<Across("B"), x>> \in Flip(c) <=> <<"B", x>> \in c
    BY <1>4
  <2>3. <<Across("O"), x>> \in Flip(c) <=> <<"O", x>> \in c
    BY <1>4
  <2> QED
    BY <1>5, <2>1, <2>2, <2>3
<1>7. Flip(Flip(c)) = c
  <2>1. ASSUME NEW n \in Flip(Flip(c)) PROVE n \in c
    <3>1. PICK m \in Flip(c) : n = <<Across(m[1]), m[2]>>
      BY DEF Flip
    <3> QED
      BY <1>2, <3>1
  <2>2. ASSUME NEW n \in c PROVE n \in Flip(Flip(c))
    <3>1. n = <<n[1], n[2]>> /\ n[1] \in {"A", "B", "O"}
      BY DEF Noded
    <3> DEFINE m == <<Across(n[1]), n[2]>>
    <3>2. m \in Flip(c)
      BY DEF Flip
    <3>3. <<Across(m[1]), m[2]>> \in Flip(Flip(c))
      BY <3>2 DEF Flip
    <3>4. m[1] = Across(n[1]) /\ m[2] = n[2]
      OBVIOUS
    <3>5. Across(Across(n[1])) = n[1]
      BY <1>1, <3>1
    <3> QED
      BY <3>1, <3>3, <3>4, <3>5
  <2> QED
    BY <2>1, <2>2
<1> QED
  BY <1>3, <1>6, <1>7

(* It is a copy: it keeps what is in what, and what meets what. *)
LEMMA FlipKeeps ==
    ASSUME NEW c, Noded(c), NEW d, Noded(d)
    PROVE  /\ c \subseteq d => Flip(c) \subseteq Flip(d)
           /\ c \cap d = {} <=> Flip(c) \cap Flip(d) = {}
           /\ c = {} <=> Flip(c) = {}
<1>1. c \subseteq d => Flip(c) \subseteq Flip(d)
  BY DEF Flip
<1>2. c = {} <=> Flip(c) = {}
  BY DEF Flip
<1>3. ASSUME NEW e, Noded(e), NEW f, Noded(f), e \cap f # {}
      PROVE  Flip(e) \cap Flip(f) # {}
  <2>1. PICK n \in e : n \in f
    BY <1>3
  <2>2. <<Across(n[1]), n[2]>> \in Flip(e) /\ <<Across(n[1]), n[2]>> \in Flip(f)
    BY <2>1 DEF Flip
  <2> QED
    BY <2>2
<1>4. /\ Noded(Flip(c)) /\ Flip(Flip(c)) = c
      /\ Noded(Flip(d)) /\ Flip(Flip(d)) = d
  BY FlipHas
<1>5. c \cap d # {} => Flip(c) \cap Flip(d) # {}
  BY <1>3
<1>6. Flip(c) \cap Flip(d) # {} => c \cap d # {}
  <2>1. Flip(c) \cap Flip(d) # {} => Flip(Flip(c)) \cap Flip(Flip(d)) # {}
    BY <1>3, <1>4
  <2> QED
    BY <1>4, <2>1
<1> QED
  BY <1>1, <1>2, <1>5, <1>6

(* The links of the other direction are the links, turned. *)
LEMMA LinksFlip ==
    ASSUME NEW a, NEW b, NEW o
    PROVE  /\ \A l \in AllLinks(a, b, o) : Noded(l) /\ Flip(l) \in AllLinks(b, a, o)
           /\ Noded(Nodes(a, b, o))
<1>1. ASSUME NEW s \in {"A", "B"}, NEW scheme, NEW x
      PROVE  /\ Noded(LinkOf(s, scheme, o, x))
             /\ Flip(LinkOf(s, scheme, o, x)) = LinkOf(Across(s), scheme, o, x)
  <2> DEFINE l == LinkOf(s, scheme, o, x)
             k == LinkOf(Across(s), scheme, o, x)
  <2>1. \A n : n \in l <=> n = <<s, x>> \/ \E y \in OrgOf(scheme, o, x) : n = <<"O", y>>
    BY DEF LinkOf
  <2>2. \A n : n \in k <=> n = <<Across(s), x>> \/ \E y \in OrgOf(scheme, o, x) : n = <<"O", y>>
    BY DEF LinkOf
  <2>3. Noded(l)
    BY <2>1 DEF Noded
  <2> HIDE DEF l, k
  <2>4. ASSUME NEW n \in Flip(l) PROVE n \in k
    <3>1. PICK m \in l : n = <<Across(m[1]), m[2]>>
      BY DEF Flip
    <3>2. CASE m = <<s, x>>
      <4>1. n = <<Across(s), x>>
        BY <3>1, <3>2
      <4> QED
        BY <2>2, <4>1
    <3>3. CASE \E y \in OrgOf(scheme, o, x) : m = <<"O", y>>
      <4>1. PICK y \in OrgOf(scheme, o, x) : m = <<"O", y>>
        BY <3>3
      <4>2. n = <<"O", y>>
        BY <3>1, <4>1 DEF Across
      <4> QED
        BY <2>2, <4>2
    <3> QED
      BY <2>1, <3>2, <3>3
  <2>5. ASSUME NEW n \in k PROVE n \in Flip(l)
    <3>1. CASE n = <<Across(s), x>>
      <4>1. <<s, x>> \in l /\ <<s, x>>[1] = s /\ <<s, x>>[2] = x
        BY <2>1
      <4> QED
        BY <3>1, <4>1 DEF Flip
    <3>2. CASE \E y \in OrgOf(scheme, o, x) : n = <<"O", y>>
      <4>1. PICK y \in OrgOf(scheme, o, x) : n = <<"O", y>>
        BY <3>2
      <4>2. <<"O", y>> \in l /\ Across("O") = "O" /\ <<"O", y>>[1] = "O" /\ <<"O", y>>[2] = y
        BY <2>1 DEF Across
      <4> QED
        BY <4>1, <4>2 DEF Flip
    <3> QED
      BY <2>2, <3>1, <3>2
  <2>6. Flip(l) = k
    BY <2>4, <2>5
  <2> QED
    BY <2>3, <2>6 DEF l, k
<1>2. ASSUME NEW l \in AllLinks(a, b, o) PROVE Noded(l) /\ Flip(l) \in AllLinks(b, a, o)
  <2>1. CASE l \in LinksOf("A", a, o)
    <3>1. PICK x \in verses(a) : l = LinkOf("A", a, o, x)
      BY <2>1 DEF LinksOf
    <3>2. Noded(l) /\ Flip(l) = LinkOf("B", a, o, x)
      BY <1>1, <3>1 DEF Across
    <3> QED
      BY <3>2 DEF AllLinks, LinksOf
  <2>2. CASE l \in LinksOf("B", b, o)
    <3>1. PICK x \in verses(b) : l = LinkOf("B", b, o, x)
      BY <2>2 DEF LinksOf
    <3>2. Noded(l) /\ Flip(l) = LinkOf("A", b, o, x)
      BY <1>1, <3>1 DEF Across
    <3> QED
      BY <3>2 DEF AllLinks, LinksOf
  <2> QED
    BY <2>1, <2>2 DEF AllLinks
<1>3. Noded(Nodes(a, b, o))
  BY <1>2 DEF Nodes, Noded
<1> QED
  BY <1>2, <1>3

(* So are the components, which are what the links join. *)
LEMMA ComponentsFlip ==
    ASSUME NEW a, SchemeOK(a), NEW b, SchemeOK(b), NEW o
    PROVE  \A c \in Components(a, b, o) : Noded(c) /\ Flip(c) \in Components(b, a, o)
<1> DEFINE C == Components(a, b, o)
           L == AllLinks(a, b, o)
           N == Nodes(a, b, o)
           K == AllLinks(b, a, o)
           M == Nodes(b, a, o)
           P == {Flip(c) : c \in C}
<1>1. Joined(C, L, N) /\ Joined(Components(b, a, o), K, M)
  BY ComponentsJoin
<1>2. /\ \A l \in L : Noded(l) /\ Flip(l) \in K
      /\ \A l \in K : Noded(l) /\ Flip(l) \in L
      /\ Noded(N) /\ Noded(M)
  BY LinksFlip
<1>3. N = UNION L /\ M = UNION K
  BY DEF Nodes
<1> HIDE DEF C, L, N, K, M
<1>4. UNION C = N /\ {} \notin C /\ Disjoint(C) /\ (\A c \in C : Closed(c, L))
      /\ \A D \in SUBSET N : Closed(D, L) => \A c \in C : c \cap D # {} => c \subseteq D
  BY <1>1 DEF Joined
<1>5. \A c \in C : Noded(c) /\ c \subseteq N
  <2>1. \A c \in C : c \subseteq N
    BY <1>4
  <2> QED
    BY <1>2, <2>1 DEF Noded
<1>6. ASSUME NEW l \in K
      PROVE  Flip(l) \in L /\ Noded(Flip(l)) /\ Flip(Flip(l)) = l /\ Noded(l)
  BY <1>2, FlipHas
<1>7. \A c \in C : Flip(c) \in P
  OBVIOUS
<1>8. \A p \in P : \E c \in C : p = Flip(c)
  OBVIOUS
<1> HIDE DEF P
<1>9. /\ Noded(N) /\ Noded(M) /\ Noded(Flip(N)) /\ Noded(Flip(M))
      /\ Flip(Flip(M)) = M /\ Flip(Flip(N)) = N
  BY <1>2, FlipHas
<1>10. ASSUME NEW x, Noded(x), NEW y, Noded(y), NEW z, NEW w,
              \A l \in z : Noded(l) /\ Flip(l) \in w,
              x = UNION z, y = UNION w
       PROVE  Flip(x) \subseteq y
  <2>1. ASSUME NEW n \in Flip(x) PROVE n \in y
    <3>1. PICK m \in x : n = <<Across(m[1]), m[2]>>
      BY DEF Flip
    <3>2. PICK l \in z : m \in l
      BY <1>10
    <3>3. n \in Flip(l) /\ Flip(l) \in w
      BY <1>10, <3>1, <3>2 DEF Flip
    <3> QED
      BY <1>10, <3>3
  <2> QED
    BY <2>1
<1>11. Flip(N) \subseteq M /\ Flip(M) \subseteq N
  <2>1. Flip(N) \subseteq M
    BY <1>2, <1>3, <1>10
  <2>2. Flip(M) \subseteq N
    BY <1>2, <1>3, <1>10
  <2> QED
    BY <2>1, <2>2
<1>12. Flip(N) = M
  <2>1. Flip(Flip(M)) \subseteq Flip(N)
    BY <1>9, <1>11, FlipKeeps
  <2> QED
    BY <1>9, <1>11, <2>1
<1>13. UNION P = M
  <2>1. ASSUME NEW p \in P PROVE p \subseteq M
    <3>1. PICK c \in C : p = Flip(c)
      BY <1>8
    <3>2. Flip(c) \subseteq Flip(N)
      BY <1>5, <1>9, FlipKeeps
    <3> QED
      BY <1>12, <3>1, <3>2
  <2>2. ASSUME NEW n \in M PROVE \E p \in P : n \in p
    <3>1. PICK m \in N : n = <<Across(m[1]), m[2]>>
      BY <1>12 DEF Flip
    <3>2. PICK c \in C : m \in c
      BY <1>4
    <3>3. n \in Flip(c)
      BY <3>1, <3>2 DEF Flip
    <3> QED
      BY <1>7, <3>3
  <2> QED
    BY <2>1, <2>2
<1>14. {} \notin P
  <2>1. \A c \in C : Flip(c) # {}
    BY <1>4, <1>5, FlipKeeps
  <2> QED
    BY <1>8, <2>1
<1>15. Disjoint(P)
  <2> SUFFICES ASSUME NEW p \in P, NEW q \in P, p # q PROVE p \cap q = {}
    BY DEF Disjoint
  <2>1. PICK c \in C : p = Flip(c)
    BY <1>8
  <2>2. PICK d \in C : q = Flip(d)
    BY <1>8
  <2>3. c # d /\ Noded(c) /\ Noded(d)
    BY <1>5, <2>1, <2>2
  <2>4. c \cap d = {}
    BY <1>4, <2>3 DEF Disjoint
  <2> QED
    BY <2>1, <2>2, <2>3, <2>4, FlipKeeps
<1>16. ASSUME NEW c, Noded(c), Closed(c, L) PROVE Closed(Flip(c), K)
  <2> SUFFICES ASSUME NEW l \in K, l \cap Flip(c) # {} PROVE l \subseteq Flip(c)
    BY DEF Closed
  <2>1. Noded(Flip(c)) /\ Flip(Flip(c)) = c
    BY <1>16, FlipHas
  <2>2. Flip(l) \cap c # {}
    BY <1>6, <2>1, FlipKeeps
  <2>3. Flip(l) \subseteq c
    BY <1>6, <1>16, <2>2 DEF Closed
  <2>4. Flip(Flip(l)) \subseteq Flip(c)
    BY <1>6, <1>16, <2>3, FlipKeeps
  <2> QED
    BY <1>6, <2>4
<1>17. ASSUME NEW D \in SUBSET M, Closed(D, K), NEW p \in P, p \cap D # {}
       PROVE  p \subseteq D
  <2>1. PICK c \in C : p = Flip(c)
    BY <1>8
  <2>2. Noded(D)
    BY <1>2 DEF Noded
  <2>3. Noded(Flip(D)) /\ Flip(Flip(D)) = D
    BY <2>2, FlipHas
  <2>4. Flip(D) \in SUBSET N
    <3>1. Flip(D) \subseteq Flip(M)
      BY <1>9, <2>2, FlipKeeps
    <3> QED
      BY <1>11, <3>1
  <2>5. Closed(Flip(D), L)
    <3> SUFFICES ASSUME NEW l \in L, l \cap Flip(D) # {} PROVE l \subseteq Flip(D)
      BY DEF Closed
    <3>1. Noded(l) /\ Flip(l) \in K
      BY <1>2
    <3>2. Noded(Flip(l)) /\ Flip(Flip(l)) = l
      BY <3>1, FlipHas
    <3>3. Flip(l) \cap D # {}
      BY <2>3, <3>1, FlipKeeps
    <3>4. Flip(l) \subseteq D
      BY <1>17, <3>1, <3>3 DEF Closed
    <3>5. Flip(Flip(l)) \subseteq Flip(D)
      BY <2>2, <3>2, <3>4, FlipKeeps
    <3> QED
      BY <3>2, <3>5
  <2>6. Noded(c) /\ Noded(Flip(c)) /\ Flip(Flip(c)) = c
    BY <1>5, FlipHas
  <2>7. c \cap Flip(D) # {}
    BY <1>17, <2>1, <2>2, <2>3, <2>6, FlipKeeps
  <2>8. c \subseteq Flip(D)
    BY <1>4, <2>4, <2>5, <2>7
  <2>9. Flip(c) \subseteq Flip(Flip(D))
    BY <2>3, <2>6, <2>8, FlipKeeps
  <2> QED
    BY <2>1, <2>3, <2>9
<1>18. \A p \in P : Closed(p, K)
  BY <1>4, <1>5, <1>8, <1>16
<1>19. Joined(P, K, M)
  BY <1>13, <1>14, <1>15, <1>17, <1>18 DEF Joined
<1>20. P = Components(b, a, o)
  BY <1>1, <1>19, JoiningIsUnique
<1> QED
  BY <1>5, <1>7, <1>20 DEF C

(* The same relation with the sides exchanged. *)
Swapped(s, r) ==
    s.A = r.B /\ s.B = r.A /\ s.O = r.O /\ s.flags = r.flags /\ s.warn = r.warn

(* The relation of a turned component is the relation with the sides exchanged. *)
LEMMA RelationSwaps ==
    ASSUME NEW c, Noded(c), NEW a, NEW b, NEW o
    PROVE  Swapped(RelationOf(Flip(c), b, a, o), RelationOf(c, a, b, o))
<1> DEFINE r == RelationOf(c, a, b, o)
           s == RelationOf(Flip(c), b, a, o)
<1>1. /\ \A n \in c : n = <<n[1], n[2]>> /\ n[1] \in {"A", "B", "O"}
      /\ \A n \in Flip(c) : n = <<n[1], n[2]>> /\ n[1] \in {"A", "B", "O"}
  BY FlipHas DEF Noded
<1>2. \A x : /\ x \in r.A <=> <<"A", x>> \in c
             /\ x \in r.B <=> <<"B", x>> \in c
             /\ x \in r.O <=> <<"O", x>> \in c
  BY <1>1, RelationHas
<1>3. \A x : /\ x \in s.A <=> <<"A", x>> \in Flip(c)
             /\ x \in s.B <=> <<"B", x>> \in Flip(c)
             /\ x \in s.O <=> <<"O", x>> \in Flip(c)
  BY <1>1, RelationHas
<1>4. \A x : /\ x \in s.A <=> x \in r.B
             /\ x \in s.B <=> x \in r.A
             /\ x \in s.O <=> x \in r.O
  BY <1>2, <1>3, FlipHas
<1> DEFINE Says(q, z, w) ==
        /\ q.flags = FlagsOf(z, o, q.A) \cup FlagsOf(w, o, q.B)
        /\ q.warn = (\/ "warn" \in q.flags
                     \/ \E x \in q.A : Collides(z, o, x)
                     \/ \E x \in q.B : Collides(w, o, x))
<1>5. Says(r, a, b) /\ Says(s, b, a)
  BY DEF RelationOf
<1> HIDE DEF r, s
<1>6. s.A = r.B /\ s.B = r.A /\ s.O = r.O
  <2>1. \A x : x \in s.A <=> x \in r.B
    BY <1>4
  <2>2. \A x : x \in s.B <=> x \in r.A
    BY <1>4
  <2>3. \A x : x \in s.O <=> x \in r.O
    BY <1>4
  <2>4. r.A = {x \in r.A : TRUE} /\ s.B = {x \in s.B : TRUE}
    OBVIOUS
  <2> QED
    BY <2>1, <2>2, <2>3
<1>7. s.flags = r.flags
  BY <1>5, <1>6
<1>8. s.warn = r.warn
  <2> DEFINE X == "warn" \in r.flags
             Y == \E x \in r.A : Collides(a, o, x)
             Z == \E x \in r.B : Collides(b, o, x)
  <2>1. r.warn = (X \/ Y \/ Z)
    BY <1>5
  <2>2. s.warn = (X \/ Z \/ Y)
    BY <1>5, <1>6, <1>7
  <2> HIDE DEF X, Y, Z
  <2>3. (X \/ Z \/ Y) = (X \/ Y \/ Z)
    OBVIOUS
  <2> QED
    BY <2>1, <2>2, <2>3
<1> QED
  BY <1>6, <1>7, <1>8 DEF Swapped, r, s

(* Both sides in several books, none of them shared. *)
Straddles(r) ==
    /\ Cardinality(BooksOf(r.A)) > 1 /\ Cardinality(BooksOf(r.B)) > 1
    /\ BooksOf(r.A) \cap BooksOf(r.B) = {}

(* Crossed, of the relation of the component. *)
LEMMA CrossedStraddles ==
    ASSUME NEW c, NEW a, NEW b, NEW o
    PROVE  Crossed(c) <=> Straddles(RelationOf(c, a, b, o))
<1> DEFINE At(side) == {n[2] : n \in {x \in c : x[1] = side}}
<1>1. RelationOf(c, a, b, o).A = At("A") /\ RelationOf(c, a, b, o).B = At("B")
  BY DEF RelationOf
<1>2. Crossed(c) <=> /\ Cardinality(BooksOf(At("A"))) > 1 /\ Cardinality(BooksOf(At("B"))) > 1
                     /\ BooksOf(At("A")) \cap BooksOf(At("B")) = {}
  BY DEF Crossed
<1> HIDE DEF At
<1> QED
  BY <1>1, <1>2 DEF Straddles

(* Some verses have some books. *)
LEMMA BooksCount ==
    ASSUME NEW S, IsFiniteSet(S)
    PROVE  /\ IsFiniteSet(BooksOf(S)) /\ Cardinality(BooksOf(S)) \in Nat
           /\ S # {} => Cardinality(BooksOf(S)) # 0
<1> DEFINE f == [x \in S |-> x[1]]
<1>1. \A k \in BooksOf(S) : \E x \in S : k = f[x]
  BY DEF BooksOf
<1> HIDE DEF f
<1>2. IsFiniteSet(BooksOf(S)) /\ Cardinality(BooksOf(S)) \in Nat
  BY <1>1, ImageIsFinite, FS_CardinalityType
<1>3. S # {} => BooksOf(S) # {}
  BY DEF BooksOf
<1> QED
  BY <1>2, <1>3, FS_EmptySet

(* Copies of exchanged relations are exchanged. *)
LEMMA CopySwaps ==
    ASSUME NEW r, Raw(r), NEW s, Raw(s), Swapped(s, r), NEW as, NEW bs, NEW w
    PROVE  Swapped(Copy(s, bs, as, w), Copy(r, as, bs, w))
<1>1. CopyOf(Copy(s, bs, as, w), s, bs, as, w) /\ CopyOf(Copy(r, as, bs, w), r, as, bs, w)
  BY CopyHas
<1> QED
  BY <1>1 DEF CopyOf, Swapped

(* The pieces of an exchanged relation are the pieces, exchanged, but where   *)
(* several books face several others.                                         *)
LEMMA SplitSwaps ==
    ASSUME NEW r, Raw(r), NEW s, Raw(s), Swapped(s, r), IsFiniteSet(r.A), IsFiniteSet(r.B),
           ~ Straddles(r), NEW p \in split_alternates(r)
    PROVE  \E q \in split_alternates(s) : Swapped(q, p)
<1> DEFINE bA == BooksOf(r.A)
           bB == BooksOf(r.B)
           common == bA \cap bB
<1>1. s.A = r.B /\ s.B = r.A /\ s.warn = r.warn
  BY DEF Swapped
<1>2. BooksOf(s.A) = bB /\ BooksOf(s.B) = bA /\ BooksOf(s.A) \cap BooksOf(s.B) = common
  BY <1>1
<1>3. /\ Cardinality(bA) \in Nat /\ Cardinality(bB) \in Nat
      /\ r.A # {} => Cardinality(bA) # 0
      /\ r.B # {} => Cardinality(bB) # 0
  BY BooksCount
<1> DEFINE Plain(x) == \/ {} \in {x.A, x.B}
                       \/ Cardinality(BooksOf(x.A)) = 1 /\ Cardinality(BooksOf(x.B)) = 1
<1>4. Plain(s) <=> Plain(r)
  BY <1>1
<1>5. CASE Plain(r)
  <2>1. split_alternates(r) = {r} /\ split_alternates(s) = {s}
    BY <1>4, <1>5 DEF split_alternates
  <2> QED
    BY <2>1
<1>6. CASE ~ Plain(r) /\ common # {}
  <2> DEFINE Left(S) == {x \in S : x[1] \notin common}
             Halves(x) == {Copy(x, InBook(x.A, k), InBook(x.B, k), FALSE) : k \in common}
             More(x) == {Copy(x, Left(x.A), Left(x.B), x.warn) :
                            y \in IF {} \in {Left(x.A), Left(x.B)} THEN {} ELSE {0}}
  <2>1. split_alternates(r) = Halves(r) \cup More(r)
    BY <1>6 DEF split_alternates
  <2>2. split_alternates(s) = Halves(s) \cup More(s)
    BY <1>2, <1>4, <1>6 DEF split_alternates
  <2>3. CASE p \in Halves(r)
    <3>1. PICK k \in common : p = Copy(r, InBook(r.A, k), InBook(r.B, k), FALSE)
      BY <2>3
    <3> DEFINE q == Copy(s, InBook(s.A, k), InBook(s.B, k), FALSE)
    <3>2. q \in Halves(s)
      OBVIOUS
    <3>3. q = Copy(s, InBook(r.B, k), InBook(r.A, k), FALSE)
      BY <1>1
    <3>4. Swapped(q, p)
      BY <3>1, <3>3, CopySwaps
    <3> HIDE DEF q
    <3> QED
      BY <2>2, <3>2, <3>4
  <2>4. CASE p \in More(r)
    <3>1. {} \notin {Left(r.A), Left(r.B)} /\ p = Copy(r, Left(r.A), Left(r.B), r.warn)
      BY <2>4
    <3> DEFINE q == Copy(s, Left(s.A), Left(s.B), s.warn)
    <3>2. {} \notin {Left(s.A), Left(s.B)}
      BY <1>1, <3>1
    <3>3. q \in More(s)
      BY <3>2
    <3>4. q = Copy(s, Left(r.B), Left(r.A), r.warn)
      BY <1>1
    <3> HIDE DEF Left
    <3>5. Swapped(q, p)
      BY <3>1, <3>4, CopySwaps
    <3> QED
      BY <2>2, <3>3, <3>5
  <2> QED
    BY <2>1, <2>3, <2>4
<1>7. CASE ~ Plain(r) /\ common = {} /\ Cardinality(bA) > 1
  <2>1. Cardinality(bB) = 1 /\ ~ (Cardinality(bB) > 1)
    BY <1>3, <1>7 DEF Straddles
  <2>2. split_alternates(r) = {Copy(r, InBook(r.A, k), r.B, FALSE) : k \in bA}
    BY <1>7 DEF split_alternates
  <2>3. split_alternates(s) = {Copy(s, s.A, InBook(s.B, k), FALSE) : k \in bA}
    BY <1>2, <1>4, <1>7, <2>1 DEF split_alternates
  <2>4. PICK k \in bA : p = Copy(r, InBook(r.A, k), r.B, FALSE)
    BY <2>2
  <2> DEFINE q == Copy(s, s.A, InBook(s.B, k), FALSE)
  <2>5. q \in split_alternates(s)
    BY <2>3
  <2>6. q = Copy(s, r.B, InBook(r.A, k), FALSE)
    BY <1>1
  <2>7. Swapped(q, p)
    BY <2>4, <2>6, CopySwaps
  <2> QED
    BY <2>5, <2>7
<1>8. CASE ~ Plain(r) /\ common = {} /\ ~ (Cardinality(bA) > 1)
  <2>1. Cardinality(bB) > 1
    BY <1>3, <1>8
  <2>2. split_alternates(r) = {Copy(r, r.A, InBook(r.B, k), FALSE) : k \in bB}
    BY <1>8 DEF split_alternates
  <2>3. split_alternates(s) = {Copy(s, InBook(s.A, k), s.B, FALSE) : k \in bB}
    BY <1>2, <1>4, <1>8, <2>1 DEF split_alternates
  <2>4. PICK k \in bB : p = Copy(r, r.A, InBook(r.B, k), FALSE)
    BY <2>2
  <2> DEFINE q == Copy(s, InBook(s.A, k), s.B, FALSE)
  <2>5. q \in split_alternates(s)
    BY <2>3
  <2>6. q = Copy(s, InBook(r.B, k), r.A, FALSE)
    BY <1>1
  <2>7. Swapped(q, p)
    BY <2>4, <2>6, CopySwaps
  <2> QED
    BY <2>5, <2>7
<1> QED
  BY <1>5, <1>6, <1>7, <1>8

(* The kind of a relation, seen from the other side. *)
LEMMA KindTurns ==
    ASSUME NEW p, NEW q, Swapped(q, p), NEW ap, NEW bp, IsFiniteSet(ap), IsFiniteSet(bp)
    PROVE  TypeOf(q, bp, ap) = Turned(TypeOf(p, ap, bp))
<1>1. q.A = p.B /\ q.B = p.A /\ q.flags = p.flags
  BY DEF Swapped
<1>2. /\ Turned("CROSS_BOOK") = "CROSS_BOOK" /\ Turned("CHAPTER_MOVE") = "CHAPTER_MOVE"
      /\ Turned("VERSE0_TITLE") = "VERSE0_TITLE" /\ Turned("RENUMBER") = "RENUMBER"
      /\ Turned("SEGMENT") = "SEGMENT" /\ Turned("MERGE") = "SPLIT"
      /\ Turned("SPLIT") = "MERGE" /\ Turned(Same) = Same
      /\ Turned("EXCLUDED") = "EXCLUDED" /\ Turned("ONE_SIDED") = "ONE_SIDED"
  BY DEF Turned, Same
<1>3. PairedType(q, bp, ap) = Turned(PairedType(p, ap, bp))
  <2> DEFINE several == Cardinality(BooksOf(ap \cup bp)) > 1
             lone == Cardinality(ap) = 1 /\ Cardinality(bp) = 1
             title == \E x \in ap \cup bp : x[3] = 0
  <2>1. bp \cup ap = ap \cup bp
    OBVIOUS
  <2>2. PairedType(p, ap, bp) =
            IF several THEN "CROSS_BOOK"
            ELSE IF ChaptersOf(ap) # ChaptersOf(bp) THEN "CHAPTER_MOVE"
            ELSE IF ap = bp THEN Same
            ELSE IF lone THEN IF title THEN "VERSE0_TITLE" ELSE "RENUMBER"
            ELSE IF "segment" \in p.flags THEN "SEGMENT"
            ELSE IF Cardinality(ap) > Cardinality(bp) THEN "MERGE"
            ELSE IF Cardinality(ap) < Cardinality(bp) THEN "SPLIT" ELSE "RENUMBER"
    BY DEF PairedType
  <2>3. PairedType(q, bp, ap) =
            IF several THEN "CROSS_BOOK"
            ELSE IF ChaptersOf(ap) # ChaptersOf(bp) THEN "CHAPTER_MOVE"
            ELSE IF ap = bp THEN Same
            ELSE IF lone THEN IF title THEN "VERSE0_TITLE" ELSE "RENUMBER"
            ELSE IF "segment" \in p.flags THEN "SEGMENT"
            ELSE IF Cardinality(bp) > Cardinality(ap) THEN "MERGE"
            ELSE IF Cardinality(bp) < Cardinality(ap) THEN "SPLIT" ELSE "RENUMBER"
    BY <1>1, <2>1 DEF PairedType
  <2>4. Cardinality(ap) \in Nat /\ Cardinality(bp) \in Nat
    BY FS_CardinalityType
  <2> HIDE DEF several, lone, title
  <2>5. CASE Cardinality(ap) > Cardinality(bp)
    <3>1. ~ (Cardinality(bp) > Cardinality(ap)) /\ Cardinality(bp) < Cardinality(ap)
      BY <2>4, <2>5
    <3> QED
      BY <1>2, <2>2, <2>3, <2>5, <3>1
  <2>6. CASE Cardinality(ap) < Cardinality(bp)
    <3>1. /\ Cardinality(bp) > Cardinality(ap) /\ ~ (Cardinality(bp) < Cardinality(ap))
          /\ ~ (Cardinality(ap) > Cardinality(bp))
      BY <2>4, <2>6
    <3> QED
      BY <1>2, <2>2, <2>3, <2>6, <3>1
  <2>7. CASE Cardinality(ap) = Cardinality(bp)
    <3>1. /\ ~ (Cardinality(bp) > Cardinality(ap)) /\ ~ (Cardinality(bp) < Cardinality(ap))
          /\ ~ (Cardinality(ap) > Cardinality(bp)) /\ ~ (Cardinality(ap) < Cardinality(bp))
      BY <2>4, <2>7
    <3> QED
      BY <1>2, <2>2, <2>3, <3>1
  <2> QED
    BY <2>4, <2>5, <2>6, <2>7
<1>4. CASE ap = {} /\ bp = {}
  BY <1>2, <1>4 DEF TypeOf
<1>5. CASE ap = {} /\ bp # {}
  <2>1. TypeOf(p, ap, bp) = IF p.A # {} THEN "EXCLUDED" ELSE "ONE_SIDED"
    BY <1>5 DEF TypeOf
  <2>2. TypeOf(q, bp, ap) = IF p.A # {} THEN "EXCLUDED" ELSE "ONE_SIDED"
    BY <1>1, <1>5 DEF TypeOf
  <2> QED
    BY <1>2, <2>1, <2>2
<1>6. CASE ap # {} /\ bp = {}
  <2>1. TypeOf(p, ap, bp) = IF p.B # {} THEN "EXCLUDED" ELSE "ONE_SIDED"
    BY <1>6 DEF TypeOf
  <2>2. TypeOf(q, bp, ap) = IF p.B # {} THEN "EXCLUDED" ELSE "ONE_SIDED"
    BY <1>1, <1>6 DEF TypeOf
  <2> QED
    BY <1>2, <2>1, <2>2
<1>7. CASE ap # {} /\ bp # {}
  <2>1. TypeOf(p, ap, bp) = PairedType(p, ap, bp) /\ TypeOf(q, bp, ap) = PairedType(q, bp, ap)
    BY <1>7 DEF TypeOf
  <2> QED
    BY <1>3, <2>1
<1> QED
  BY <1>4, <1>5, <1>6, <1>7

(* A relation of the first pass, seen from the other side. *)
LEMMA ClassifiedMirrors ==
    ASSUME NEW a, SchemeOK(a), NEW b, SchemeOK(b), NEW p, PieceHas(p, a, b), NEW q, Swapped(q, p)
    PROVE  Mirrored(Classified(p, a, b)) = Classified(q, b, a)
<1> DEFINE ap == p.A \ a.excluded
           bp == p.B \ b.excluded
           type == TypeOf(p, ap, bp)
           back == TypeOf(q, bp, ap)
           coarse == type \in {"MERGE", "SPLIT", "SEGMENT"} /\ ~ (a.has_vrs /\ b.has_vrs)
           rough == back \in {"MERGE", "SPLIT", "SEGMENT"} /\ ~ (b.has_vrs /\ a.has_vrs)
           doubt == p.warn \/ (type \in {"EXCLUDED", "ONE_SIDED"} /\ "noanchor" \in p.flags)
           worry == q.warn \/ (back \in {"EXCLUDED", "ONE_SIDED"} /\ "noanchor" \in q.flags)
           r == Classified(p, a, b)
           s == Classified(q, b, a)
           extra == p.flags \cup (IF coarse THEN {"approx"} ELSE {})
           more == q.flags \cup (IF rough THEN {"approx"} ELSE {})
<1>1. /\ q.A = p.B /\ q.B = p.A /\ q.O = p.O /\ q.flags = p.flags /\ q.warn = p.warn
      /\ p.A \subseteq verses(a) /\ p.B \subseteq verses(b)
  BY DEF Swapped, PieceHas
<1>2. r = [A |-> p.A, O |-> p.O, B |-> p.B, Ap |-> ap, Bp |-> bp, rel |-> <<Few(ap), Few(bp)>>,
           type |-> type, etype |-> type, flags |-> extra, warn |-> doubt]
  BY DEF Classified
<1>3. s = [A |-> q.A, O |-> q.O, B |-> q.B, Ap |-> bp, Bp |-> ap, rel |-> <<Few(bp), Few(ap)>>,
           type |-> back, etype |-> back, flags |-> more, warn |-> worry]
  BY <1>1 DEF Classified
<1>4. IsFiniteSet(ap) /\ IsFiniteSet(bp)
  <2>1. IsFiniteSet(p.A) /\ IsFiniteSet(p.B)
    BY <1>1, SubsetsAreFinite
  <2> QED
    BY <2>1, FS_Subset
<1> HIDE DEF ap, bp
<1>5. back = Turned(type)
  BY <1>4, KindTurns
<1>6. a.has_vrs \in BOOLEAN /\ b.has_vrs \in BOOLEAN
  BY DEF SchemeOK
<1> HIDE DEF type, back
<1>7. /\ back \in {"MERGE", "SPLIT", "SEGMENT"} <=> type \in {"MERGE", "SPLIT", "SEGMENT"}
      /\ back \in {"EXCLUDED", "ONE_SIDED"} <=> type \in {"EXCLUDED", "ONE_SIDED"}
  BY <1>5 DEF Turned
<1>8. coarse <=> rough
  BY <1>7
<1>9. more = extra
  BY <1>1, <1>8
<1>10. worry = doubt
  <2> DEFINE X == type \in {"EXCLUDED", "ONE_SIDED"} /\ "noanchor" \in p.flags
             Y == back \in {"EXCLUDED", "ONE_SIDED"} /\ "noanchor" \in q.flags
  <2>1. X = Y
    BY <1>1, <1>7
  <2>2. worry = (q.warn \/ Y) /\ doubt = (p.warn \/ X)
    OBVIOUS
  <2> HIDE DEF X, Y, worry, doubt
  <2> QED
    BY <1>1, <2>1, <2>2
<1> HIDE DEF extra, more, doubt, worry, r, s
<1>11. /\ r.A = p.A /\ r.O = p.O /\ r.B = p.B /\ r.Ap = ap /\ r.Bp = bp
       /\ r.rel[1] = Few(ap) /\ r.rel[2] = Few(bp) /\ r.type = type /\ r.etype = type
       /\ r.flags = extra /\ r.warn = doubt
  BY <1>2
<1>12. Mirrored(r) = [A |-> p.B, O |-> p.O, B |-> p.A, Ap |-> bp, Bp |-> ap,
                      rel |-> <<Few(bp), Few(ap)>>, type |-> Turned(type),
                      etype |-> Turned(type), flags |-> extra, warn |-> doubt]
  BY <1>11 DEF Mirrored
<1>13. Mirrored(r) = s
  BY <1>1, <1>3, <1>5, <1>9, <1>10, <1>12
<1> QED
  BY <1>13 DEF r, s

(* Every piece has one of the other direction that is the same, exchanged, if *)
(* no component is crossed.                                                   *)
LEMMA PiecesSwap ==
    ASSUME NEW a, SchemeOK(a), NEW b, SchemeOK(b), NEW o,
           \A c \in Components(a, b, o) : ~ Crossed(c), NEW p \in Pieces(a, b, o)
    PROVE  \E q \in Pieces(b, a, o) : Swapped(q, p)
<1>1. PICK r \in Whole(a, b, o) : p \in split_alternates(r)
  BY DEF Pieces
<1>2. PICK c \in Components(a, b, o) : r = RelationOf(c, a, b, o)
  BY DEF Whole
<1> DEFINE s == RelationOf(Flip(c), b, a, o)
<1>3. Noded(c) /\ Flip(c) \in Components(b, a, o)
  BY ComponentsFlip
<1>4. Swapped(s, r)
  BY <1>2, <1>3, RelationSwaps
<1>5. s \in Whole(b, a, o)
  BY <1>3 DEF Whole
<1>6. ~ Straddles(r)
  BY <1>2, CrossedStraddles
<1>7. WholeHas(r, a, b, o) /\ WholeHas(s, b, a, o)
  BY <1>5, WholesAre
<1> HIDE DEF s
<1>8. Raw(r) /\ Raw(s) /\ IsFiniteSet(r.A) /\ IsFiniteSet(r.B)
  BY <1>7, SubsetsAreFinite DEF WholeHas
<1>9. \E q \in split_alternates(s) : Swapped(q, p)
  BY <1>1, <1>4, <1>6, <1>8, SplitSwaps
<1> QED
  BY <1>5, <1>9 DEF Pieces

(* If none of the components is crossed, none of the other direction is. *)
LEMMA CrossedFlip ==
    ASSUME NEW a, SchemeOK(a), NEW b, SchemeOK(b), NEW o,
           \A c \in Components(a, b, o) : ~ Crossed(c)
    PROVE  \A c \in Components(b, a, o) : ~ Crossed(c)
<1> SUFFICES ASSUME NEW c \in Components(b, a, o) PROVE ~ Crossed(c)
  OBVIOUS
<1>1. Noded(c) /\ Flip(c) \in Components(a, b, o)
  BY ComponentsFlip
<1>2. Swapped(RelationOf(Flip(c), a, b, o), RelationOf(c, b, a, o))
  BY <1>1, RelationSwaps
<1>3. ~ Straddles(RelationOf(Flip(c), a, b, o))
  BY <1>1, CrossedStraddles
<1>4. ~ Straddles(RelationOf(c, b, a, o))
  BY <1>2, <1>3 DEF Straddles, Swapped
<1> QED
  BY <1>4, CrossedStraddles

(* The relations of the other direction are these, seen from the other side. *)
LEMMA PassMirrors ==
    ASSUME NEW a, SchemeOK(a), NEW b, SchemeOK(b), NEW o,
           \A c \in Components(a, b, o) : ~ Crossed(c)
    PROVE  /\ \A r \in FirstPass(a, b, o) : Mirrored(r) \in FirstPass(b, a, o)
           /\ \A s \in FirstPass(b, a, o) : \E r \in FirstPass(a, b, o) : s = Mirrored(r)
<1>1. \A p \in Pieces(a, b, o) : PieceHas(p, a, b)
  BY PiecesAre
<1>2. /\ FirstPass(a, b, o) = {Classified(p, a, b) : p \in Pieces(a, b, o)}
      /\ FirstPass(b, a, o) = {Classified(p, b, a) : p \in Pieces(b, a, o)}
  BY DEF FirstPass, Pieces, Whole
<1>3. ASSUME NEW r \in FirstPass(a, b, o) PROVE Mirrored(r) \in FirstPass(b, a, o)
  <2>1. PICK p \in Pieces(a, b, o) : r = Classified(p, a, b)
    BY <1>2
  <2>2. PICK q \in Pieces(b, a, o) : Swapped(q, p)
    BY PiecesSwap
  <2>3. Mirrored(r) = Classified(q, b, a)
    BY <1>1, <2>1, <2>2, ClassifiedMirrors
  <2> QED
    BY <1>2, <2>3
<1>4. ASSUME NEW s \in FirstPass(b, a, o)
      PROVE  \E r \in FirstPass(a, b, o) : s = Mirrored(r)
  <2>1. PICK q \in Pieces(b, a, o) : s = Classified(q, b, a)
    BY <1>2
  <2>2. \A c \in Components(b, a, o) : ~ Crossed(c)
    BY CrossedFlip
  <2>3. PICK p \in Pieces(a, b, o) : Swapped(p, q)
    BY <2>2, PiecesSwap
  <2>4. Swapped(q, p)
    BY <2>3 DEF Swapped
  <2>5. s = Mirrored(Classified(p, a, b))
    BY <1>1, <2>1, <2>4, ClassifiedMirrors
  <2> QED
    BY <1>2, <2>5
<1> QED
  BY <1>3, <1>4

(* A set that is no larger fits into the other. *)
LEMMA FewerFit ==
    ASSUME NEW S, IsFiniteSet(S), NEW T, IsFiniteSet(T), Cardinality(S) <= Cardinality(T)
    PROVE  \E f : (\A x \in S : f[x] \in T) /\ \A x, y \in S : f[x] = f[y] => x = y
<1> DEFINE n == Cardinality(S)
           m == Cardinality(T)
<1>1. n \in Nat /\ m \in Nat /\ ExistsBijection(1 .. n, S) /\ ExistsBijection(1 .. m, T)
  BY FS_CardinalityType
<1>2. PICK g : g \in Bijection(1 .. n, S)
  BY <1>1 DEF ExistsBijection
<1>3. PICK h : h \in Bijection(1 .. m, T)
  BY <1>1 DEF ExistsBijection
<1>4. n <= m
  OBVIOUS
<1> HIDE DEF n, m
<1>5. /\ \A x \in S : \E i \in 1 .. n : g[i] = x
      /\ \A i \in 1 .. m : h[i] \in T
      /\ \A i, j \in 1 .. m : h[i] = h[j] => i = j
  BY <1>2, <1>3 DEF Bijection, Injection, Surjection, IsInjective
<1> DEFINE at == [x \in S |-> CHOOSE i \in 1 .. n : g[i] = x]
           f == [x \in S |-> h[at[x]]]
<1>6. \A x \in S : at[x] \in 1 .. n /\ g[at[x]] = x
  BY <1>5
<1> HIDE DEF at
<1>7. \A x \in S : at[x] \in 1 .. m
  BY <1>1, <1>4, <1>6
<1>8. \A x \in S : f[x] \in T
  BY <1>5, <1>7
<1>9. \A x, y \in S : f[x] = f[y] => x = y
  BY <1>5, <1>6, <1>7
<1> HIDE DEF f
<1> QED
  BY <1>8, <1>9

OfKey(S, key, k) == {x \in S : key[x] = k}

(* What is no more of any key is no more. *)
LEMMA KeysAddUp ==
    ASSUME NEW T, IsFiniteSet(T), NEW K, IsFiniteSet(K), NEW key,
           \A x \in T : Cardinality(OfKey(T, key, key[x])) <= Cardinality(OfKey(K, key, key[x]))
    PROVE  Cardinality(T) <= Cardinality(K)
<1> DEFINE Placed(f, k) == /\ \A x \in OfKey(T, key, k) : f[x] \in OfKey(K, key, k)
                         /\ \A x, y \in OfKey(T, key, k) : f[x] = f[y] => x = y
           In(k) == CHOOSE f : Placed(f, k)
           g == [x \in T |-> In(key[x])[x]]
<1>1. ASSUME NEW x \in T PROVE Placed(In(key[x]), key[x])
  <2>1. IsFiniteSet(OfKey(T, key, key[x])) /\ IsFiniteSet(OfKey(K, key, key[x]))
    BY FS_Subset DEF OfKey
  <2>2. \E f : Placed(f, key[x])
    BY <2>1, FewerFit
  <2> QED
    BY <2>2
<1> HIDE DEF In
<1>2. \A x \in T : x \in OfKey(T, key, key[x])
  BY DEF OfKey
<1>3. ASSUME NEW x \in T PROVE g[x] \in K /\ key[g[x]] = key[x]
  BY <1>1, <1>2 DEF OfKey
<1>4. ASSUME NEW x \in T, NEW y \in T, g[x] = g[y] PROVE x = y
  <2>1. key[x] = key[y]
    BY <1>3, <1>4
  <2>2. x \in OfKey(T, key, key[x]) /\ y \in OfKey(T, key, key[x])
    BY <1>2, <2>1
  <2>3. In(key[x])[x] = In(key[x])[y]
    BY <1>4, <2>1
  <2> QED
    BY <1>1, <2>2, <2>3
<1> HIDE DEF g
<1> QED
  BY <1>3, <1>4, InjectionCounts

Kept(rs) == {r \in Paired(rs) : r.type # "ORDER_INVERSION"}

(* No choice of inversions in any book is smaller. *)
Fewest(rs) ==
    \A k \in {FirstA(r)[1] : r \in Paired(rs)} :
        LET kept == {r \in BookOf(rs, k) : r.type # "ORDER_INVERSION"}
        IN  /\ Ascending(kept)
            /\ \A ts \in SUBSET BookOf(rs, k) :
                    Ascending(ts) => Cardinality(ts) <= Cardinality(kept)

(* The present verses of relations, exchanged. *)
Exchanged(s, r) == s.A = r.B /\ s.B = r.A /\ s.Ap = r.Bp /\ s.Bp = r.Ap
SameBook(r) == FirstA(r)[1] = FirstOf(r.Bp)[1]

(* The other direction keeps no fewer relations, and has no fewer. *)
LEMMA KeepsAsMany ==
    ASSUME NEW R, Bedded(R), Present(R), NEW Q, Bedded(Q), Present(Q),
           \A r \in R : \E s \in Q : Exchanged(s, r),
           \A r \in Paired(R) : SameBook(r), Fewest(R), Fewest(Q)
    PROVE  /\ Cardinality(Kept(R)) <= Cardinality(Kept(Q))
           /\ Cardinality(Paired(R)) <= Cardinality(Paired(Q))
<1> DEFINE w == [r \in R |-> CHOOSE s \in Q : Exchanged(s, r)]
           T == {s \in Paired(Q) : \E r \in Kept(R) : s = w[r]}
           key == [s \in Paired(Q) |-> FirstA(s)[1]]
<1>1. \A r \in R : w[r] \in Q /\ Exchanged(w[r], r)
  OBVIOUS
<1> HIDE DEF w
<1>2. ASSUME NEW r \in Paired(R)
      PROVE  /\ r \in R /\ w[r] \in Paired(Q)
             /\ FirstA(w[r]) = FirstOf(r.Bp) /\ FirstOf(w[r].Bp) = FirstA(r)
             /\ FirstA(w[r])[1] = FirstA(r)[1]
  <2>1. r \in R /\ r.Ap # {} /\ r.Bp # {}
    BY DEF Paired
  <2>2. w[r] \in Q /\ w[r].Ap = r.Bp /\ w[r].Bp = r.Ap
    BY <1>1, <2>1 DEF Exchanged
  <2> QED
    BY <2>1, <2>2 DEF Paired, FirstA, SameBook
<1>3. ASSUME NEW r \in R, NEW t \in R, w[r] = w[t] PROVE r = t
  <2>1. r.A = t.A /\ r.B = t.B
    BY <1>1, <1>3 DEF Exchanged
  <2>2. r # t => Beside(r, t)
    BY DEF Bedded, Laid
  <2>3. r.A # {} \/ r.B # {}
    BY DEF Bedded
  <2> QED
    BY <2>1, <2>2, <2>3, BesideDiffers
<1>4. /\ IsFiniteSet(Paired(R)) /\ IsFiniteSet(Paired(Q))
      /\ IsFiniteSet(Kept(R)) /\ IsFiniteSet(Kept(Q)) /\ IsFiniteSet(T)
  <2>1. IsFiniteSet(Paired(R)) /\ IsFiniteSet(Paired(Q))
    BY FS_Subset DEF Bedded, Paired
  <2> QED
    BY <2>1, FS_Subset DEF Kept
<1>5. Cardinality(Paired(R)) <= Cardinality(Paired(Q))
  BY <1>2, <1>3, <1>4, InjectionCounts
<1>6. Cardinality(Kept(R)) <= Cardinality(T)
  <2>1. \A r \in Kept(R) : w[r] \in T
    BY <1>2 DEF Kept
  <2>2. \A r, t \in Kept(R) : w[r] = w[t] => r = t
    BY <1>2, <1>3 DEF Kept
  <2> HIDE DEF T
  <2> QED
    BY <1>4, <2>1, <2>2, InjectionCounts
<1>7. ASSUME NEW s \in T
      PROVE  Cardinality(OfKey(T, key, key[s])) <= Cardinality(OfKey(Kept(Q), key, key[s]))
  <2> DEFINE k == key[s]
             ts == OfKey(T, key, k)
             kept == {r \in BookOf(Q, k) : r.type # "ORDER_INVERSION"}
  <2>1. s \in Paired(Q) /\ k = FirstA(s)[1]
    OBVIOUS
  <2>2. ts \in SUBSET BookOf(Q, k)
    BY DEF OfKey, BookOf
  <2>3. kept = OfKey(Kept(Q), key, k)
    BY DEF OfKey, Kept, BookOf
  <2>4. ASSUME NEW x \in ts, NEW y \in ts, Before(FirstA(x), FirstA(y))
        PROVE  ~ Before(FirstOf(y.Bp), FirstOf(x.Bp))
    <3>1. x \in T /\ FirstA(x)[1] = k /\ y \in T /\ FirstA(y)[1] = k
      BY DEF OfKey
    <3>2. PICK r \in Kept(R) : x = w[r]
      BY <3>1
    <3>3. PICK t \in Kept(R) : y = w[t]
      BY <3>1
    <3>4. r \in Paired(R) /\ t \in Paired(R)
      BY DEF Kept
    <3>5. /\ FirstA(x) = FirstOf(r.Bp) /\ FirstOf(x.Bp) = FirstA(r) /\ FirstA(r)[1] = k
          /\ FirstA(y) = FirstOf(t.Bp) /\ FirstOf(y.Bp) = FirstA(t) /\ FirstA(t)[1] = k
      BY <1>2, <3>1, <3>2, <3>3, <3>4
    <3> DEFINE mine == {q \in BookOf(R, k) : q.type # "ORDER_INVERSION"}
    <3>6. r \in mine /\ t \in mine
      BY <3>4, <3>5 DEF Kept, BookOf
    <3>7. k \in {FirstA(q)[1] : q \in Paired(R)}
      BY <3>4, <3>5
    <3>8. Ascending(mine)
      BY <3>7 DEF Fewest
    <3> HIDE DEF mine
    <3>9. Before(FirstA(t), FirstA(r)) => ~ Before(FirstOf(r.Bp), FirstOf(t.Bp))
      BY <3>6, <3>8 DEF Ascending
    <3> QED
      BY <2>4, <3>5, <3>9
  <2>5. Ascending(ts)
    BY <2>4 DEF Ascending
  <2>6. k \in {FirstA(q)[1] : q \in Paired(Q)}
    BY <2>1
  <2> HIDE DEF ts, k
  <2>7. Cardinality(ts) <= Cardinality(kept)
    BY <2>2, <2>5, <2>6 DEF Fewest
  <2> QED
    BY <2>3, <2>7 DEF ts, k
<1>8. Cardinality(T) <= Cardinality(Kept(Q))
  <2> HIDE DEF T, key
  <2> QED
    BY <1>4, <1>7, KeysAddUp
<1>9. /\ Cardinality(T) \in Nat /\ Cardinality(Kept(R)) \in Nat
      /\ Cardinality(Kept(Q)) \in Nat
  BY <1>4, FS_CardinalityType
<1> QED
  BY <1>5, <1>6, <1>8, <1>9

(* The inversions are the paired relations that are not kept. *)
LEMMA InversionsAre ==
    ASSUME NEW R, Bedded(R), \A r \in R : TypeIs(r)
    PROVE  Inversions(R) = Cardinality(Paired(R)) - Cardinality(Kept(R))
<1> DEFINE I == {r \in R : r.type = "ORDER_INVERSION"}
<1>1. I = Paired(R) \ Kept(R)
  <2>1. ASSUME NEW r \in I PROVE r \in Paired(R)
    <3>1. TypeIs(r) /\ r.type = "ORDER_INVERSION"
      OBVIOUS
    <3>2. r.Ap # {} /\ r.Bp # {}
      <4>1. \/ r.Ap = {} /\ r.Bp = {}
            \/ r.Ap # {} /\ r.Bp # {}
            \/ (r.Ap = {}) # (r.Bp = {})
        OBVIOUS
      <4> QED
        BY <3>1, <4>1 DEF TypeIs, Same
    <3> QED
      BY <3>2 DEF Paired
  <2> QED
    BY <2>1 DEF Paired, Kept
<1>2. IsFiniteSet(Paired(R)) /\ Kept(R) \subseteq Paired(R)
  BY FS_Subset DEF Bedded, Paired, Kept
<1>3. IsFiniteSet(Kept(R)) /\ Paired(R) \cap Kept(R) = Kept(R)
  BY <1>2, FS_Subset
<1>4. Cardinality(Paired(R) \ Kept(R))
        = Cardinality(Paired(R)) - Cardinality(Paired(R) \cap Kept(R))
  BY <1>2, FS_Difference
<1> QED
  BY <1>1, <1>3, <1>4 DEF Inversions

(* What is composed has the fewest inversions in every book. *)
LEMMA ComposedIsFewest ==
    ASSUME NEW a, SchemeOK(a), NEW b, SchemeOK(b), NEW o, NEW R, R = compose_schemes(a, b, o)
    PROVE  /\ Fewest(R) /\ Related(R, a, b)
           /\ Inversions(R) = Cardinality(Paired(R)) - Cardinality(Kept(R))
<1> DEFINE F == FirstPass(a, b, o)
<1>1. PICK m : Marks(m, F)
  BY ComposedIs
<1>2. Bedded(F) /\ \A q \in F : PassHas(q, a, b) /\ TypeFits(q)
  BY FirstPassIs
<1>3. Related(R, a, b)
  BY ComposedIs
<1>4. R = classify(F)
  BY DEF compose_schemes
<1> HIDE DEF F
<1>5. Present(F)
  BY <1>2, PassIsPresent
<1>6. \A r \in F : r.type # "ORDER_INVERSION"
  <2> TAKE r \in F
  <2>1. TypeFits(r)
    BY <1>2
  <2>2. (r.Ap = {} /\ r.Bp = {}) \/ (r.Ap # {} /\ r.Bp # {}) \/ (r.Ap = {}) # (r.Bp = {})
    OBVIOUS
  <2> QED
    BY <2>1, <2>2 DEF TypeFits, PASSTYPES, Same
<1>7. Bedded(R) /\ Present(R) /\ \A r \in R : TypeIs(r)
  BY <1>3 DEF Related
<1>8. ASSUME NEW k \in {FirstA(r)[1] : r \in Paired(R)},
             NEW kept, kept = {r \in BookOf(R, k) : r.type # "ORDER_INVERSION"}
      PROVE  /\ Ascending(kept)
             /\ \A ts \in SUBSET BookOf(R, k) :
                    Ascending(ts) => Cardinality(ts) <= Cardinality(kept)
  BY <1>1, <1>2, <1>4, <1>5, <1>6, <1>7, <1>8, BookIsFewest
<1>9. Fewest(R)
  BY <1>8 DEF Fewest
<1> QED
  BY <1>3, <1>7, <1>9, InversionsAre

(* Two verses of some in one book at most are in the same book. *)
LEMMA OneBookOf ==
    ASSUME NEW S, IsFiniteSet(S), Cardinality(BooksOf(S)) <= 1, NEW x \in S, NEW y \in S
    PROVE  x[1] = y[1]
<1>1. IsFiniteSet(BooksOf(S)) /\ Cardinality(BooksOf(S)) \in Nat /\ Cardinality(BooksOf(S)) # 0
  BY BooksCount
<1>2. Cardinality(BooksOf(S)) = 1
  BY <1>1
<1>3. PICK k : BooksOf(S) = {k}
  BY <1>1, <1>2, FS_Singleton
<1>4. x[1] \in BooksOf(S) /\ y[1] \in BooksOf(S)
  BY DEF BooksOf
<1> QED
  BY <1>3, <1>4

(* Both directions of a pair: the same relations, as many of them inversions. *)
LEMMA DirectionsAgree ==
    ASSUME NEW a, SchemeOK(a), NEW b, SchemeOK(b), NEW o,
           \A c \in Components(a, b, o) : ~ Crossed(c),
           NEW there, there = FirstPass(a, b, o), NEW back, back = FirstPass(b, a, o)
    PROVE  /\ {Mirrored(r) : r \in there} = back
           /\ (\A r \in there : Cardinality(BooksOf(r.Ap \cup r.Bp)) <= 1)
                => Inversions(classify(there)) = Inversions(classify(back))
<1>1. /\ \A r \in there : Mirrored(r) \in back
      /\ \A s \in back : \E r \in there : s = Mirrored(r)
  BY PassMirrors
<1>2. {Mirrored(r) : r \in there} = back
  BY <1>1
<1>3. ASSUME \A r \in there : Cardinality(BooksOf(r.Ap \cup r.Bp)) <= 1
      PROVE  Inversions(classify(there)) = Inversions(classify(back))
  <2> DEFINE R == compose_schemes(a, b, o)
             Q == compose_schemes(b, a, o)
  <2>1. R = classify(there) /\ Q = classify(back)
    BY DEF compose_schemes
  <2>2. /\ Fewest(R) /\ Related(R, a, b)
        /\ Inversions(R) = Cardinality(Paired(R)) - Cardinality(Kept(R))
    BY ComposedIsFewest
  <2>3. /\ Fewest(Q) /\ Related(Q, b, a)
        /\ Inversions(Q) = Cardinality(Paired(Q)) - Cardinality(Kept(Q))
    BY ComposedIsFewest
  <2>4. PICK m : Marks(m, there)
    BY ComposedIs
  <2>5. PICK w : Marks(w, back)
    BY ComposedIs
  <2> HIDE DEF R, Q
  <2>6. /\ \A r \in there : m[r] \in R /\ Like(m[r], r)
        /\ \A q \in R : \E r \in there : q = m[r]
        /\ \A r \in back : w[r] \in Q /\ Like(w[r], r)
        /\ \A q \in Q : \E r \in back : q = w[r]
    BY <2>1, <2>4, <2>5 DEF Marks
  <2>7. ASSUME NEW f \in there
        PROVE  Exchanged(w[Mirrored(f)], m[f]) /\ Exchanged(m[f], w[Mirrored(f)])
    <3>1. Like(m[f], f) /\ Like(w[Mirrored(f)], Mirrored(f))
      BY <1>1, <2>6
    <3>2. /\ Mirrored(f).A = f.B /\ Mirrored(f).B = f.A
          /\ Mirrored(f).Ap = f.Bp /\ Mirrored(f).Bp = f.Ap
      BY DEF Mirrored
    <3> QED
      BY <3>1, <3>2 DEF Like, Exchanged
  <2>8. \A r \in R : \E s \in Q : Exchanged(s, r)
    BY <1>1, <2>6, <2>7
  <2>9. \A s \in Q : \E r \in R : Exchanged(r, s)
    BY <1>1, <2>6, <2>7
  <2>10. Bedded(R) /\ Present(R) /\ Bedded(Q) /\ Present(Q)
    BY <2>2, <2>3 DEF Related
  <2>11. ASSUME NEW r \in Paired(R) PROVE SameBook(r)
    <3>1. r \in R /\ IsFiniteSet(r.Ap) /\ IsFiniteSet(r.Bp)
          /\ FirstA(r) \in r.Ap /\ FirstOf(r.Bp) \in r.Bp
      BY <2>10, PresentHave
    <3>2. PICK f \in there : r = m[f]
      BY <2>6, <3>1
    <3>3. r.Ap = f.Ap /\ r.Bp = f.Bp
      BY <2>6, <3>2 DEF Like
    <3>4. IsFiniteSet(r.Ap \cup r.Bp)
      BY <3>1, FS_Union
    <3>5. Cardinality(BooksOf(r.Ap \cup r.Bp)) <= 1
      BY <1>3, <3>3
    <3>6. FirstA(r) \in r.Ap \cup r.Bp /\ FirstOf(r.Bp) \in r.Ap \cup r.Bp
      BY <3>1
    <3> QED
      BY <3>4, <3>5, <3>6, OneBookOf DEF SameBook
  <2>12. ASSUME NEW s \in Paired(Q) PROVE SameBook(s)
    <3>1. s \in Q /\ s.Ap # {} /\ s.Bp # {}
      BY DEF Paired
    <3>2. PICK r \in R : Exchanged(r, s)
      BY <2>9, <3>1
    <3>3. r.Ap = s.Bp /\ r.Bp = s.Ap
      BY <3>2 DEF Exchanged
    <3>4. r \in Paired(R)
      BY <3>1, <3>3 DEF Paired
    <3>5. SameBook(r)
      BY <2>11, <3>4
    <3> QED
      BY <3>3, <3>5 DEF SameBook, FirstA
  <2>13. /\ Cardinality(Kept(R)) <= Cardinality(Kept(Q))
         /\ Cardinality(Paired(R)) <= Cardinality(Paired(Q))
    BY <2>2, <2>3, <2>8, <2>10, <2>11, KeepsAsMany
  <2>14. /\ Cardinality(Kept(Q)) <= Cardinality(Kept(R))
         /\ Cardinality(Paired(Q)) <= Cardinality(Paired(R))
    BY <2>2, <2>3, <2>9, <2>10, <2>12, KeepsAsMany
  <2>15. /\ Cardinality(Kept(R)) \in Nat /\ Cardinality(Kept(Q)) \in Nat
         /\ Cardinality(Paired(R)) \in Nat /\ Cardinality(Paired(Q)) \in Nat
    <3>1. \A S : S \subseteq R \/ S \subseteq Q => Cardinality(S) \in Nat
      BY <2>10, FS_Subset, FS_CardinalityType DEF Bedded
    <3> QED
      BY <3>1 DEF Kept, Paired
  <2>16. /\ Cardinality(Kept(R)) = Cardinality(Kept(Q))
         /\ Cardinality(Paired(R)) = Cardinality(Paired(Q))
    BY <2>13, <2>14, <2>15
  <2> QED
    BY <2>1, <2>2, <2>3, <2>16
<1> QED
  BY <1>2, <1>3

-----------------------------------------------------------------------------
(* Every stage leaves what the next one takes. *)
Untouched ==
    /\ stage \in {"loading", "composing"} => relations = {}
    /\ stage \in {"loading", "composing", "events"} => events = <<>>
    /\ stage # "encoding" => runs = <<>>
Loaded ==
    stage # "loading" =>
        A = LoadedSide(left) /\ B = LoadedSide(right) /\ org = LoadedOrg(root)
Composed == stage = "events" => relations = compose_schemes(A, B, org)
EventsBuilt ==
    stage \in {"runs", "encoding"} =>
        /\ Told(events, compose_schemes(A, B, org))
        /\ Drafted(relations, compose_schemes(A, B, org))
LaidOut == stage = "encoding" => runs = build_runs
Silent == stage \in {"runs", "encoding"} /\ left = right => NoneOf(events)

EngineInv ==
    /\ left \in Sides /\ right \in Sides /\ root \in Orgs /\ stage \in STAGES
    /\ (stage = "loading" => A = NoScheme /\ B = NoScheme /\ org = NoScheme)
    /\ Untouched /\ Loaded /\ Composed /\ EventsBuilt /\ LaidOut /\ Silent

(* Once loaded, the schemes are schemes until the report is done. *)
LEMMA LoadedFits ==
    ASSUME EngineInv, stage # "loading"
    PROVE  /\ SchemeOK(A) /\ SchemeOK(B) /\ SchemeOK(org)
           /\ EdgesFit(A) /\ EdgesFit(B) /\ EdgesFit(org)
<1>1. A = LoadedSide(left) /\ B = LoadedSide(right) /\ org = LoadedOrg(root)
      /\ left \in Sides /\ right \in Sides /\ root \in Orgs
  BY DEF EngineInv, Loaded
<1> QED
  BY <1>1, LoadedIsScheme, OrgIsScheme, SideEdges, OrgEdges

(* The relations of a report are finitely many, of finitely many verses. *)
LEMMA DraftIsSound ==
    ASSUME EngineInv, stage \in {"runs", "encoding"}
    PROVE  /\ Bedded(relations) /\ \A q \in relations : Sound(q)
           /\ \A q \in relations : {q.type, q.etype} \subseteq TYPE_IDS \cup {Same}
<1> DEFINE R == compose_schemes(A, B, org)
<1>1. SchemeOK(A) /\ SchemeOK(B) /\ SchemeOK(org) /\ Drafted(relations, R)
  BY LoadedFits DEF EngineInv, EventsBuilt
<1>2. Related(R, A, B)
  BY <1>1, ComposedIs
<1>3. \A r \in R : IsFiniteSet(r.O) /\ r.O \subseteq Verse
  BY <1>1, RelationsAreRooted DEF Rooted
<1>4. \A r \in R : r.type \in TYPE_IDS \cup {Same}
  BY <1>2, TypesAre
<1> HIDE DEF R
<1>5. Bedded(relations)
  BY <1>1 DEF Drafted
<1>6. ASSUME NEW q \in relations
      PROVE  Sound(q) /\ {q.type, q.etype} \subseteq TYPE_IDS \cup {Same}
  <2>1. PICK r \in R : \E x \in TYPE_IDS \cup {Same} : DrawnAs(q, r, x)
    BY <1>1 DEF Drafted
  <2>2. q.O = r.O /\ q.type = r.type /\ q.etype \in TYPE_IDS \cup {Same}
    BY <2>1 DEF DrawnAs, Like
  <2>3. IsFiniteSet(q.A) /\ IsFiniteSet(q.B) /\ q.A \subseteq Verse /\ q.B \subseteq Verse
    BY <1>5 DEF Bedded
  <2> QED
    BY <1>3, <1>4, <2>1, <2>2, <2>3 DEF Sound
<1> QED
  BY <1>5, <1>6

(* The invariant holds the type invariant. *)
LEMMA InvTypes ==
    ASSUME EngineInv
    PROVE  TypeOK
<1>1. /\ left \in Sides /\ right \in Sides /\ root \in Orgs /\ stage \in STAGES
  BY DEF EngineInv
<1>2. ASSUME stage = "composing"
      PROVE  \A s \in {A, B, org} : \A e \in s.edges :
                e[2][3] # 0 /\ (e[1][3] = 0 \/ _exists(s.max, e[1]) \/ e[1][1] \notin DOMAIN s.max)
  <2>1. \A s \in {A, B, org} : EdgesFit(s)
    BY <1>2, LoadedFits
  <2> QED
    BY <2>1 DEF EdgesFit
<1>3. \A r \in relations : {r.type, r.etype} \subseteq TYPE_IDS \cup {Same}
  <2>1. CASE stage \in {"loading", "composing"}
    BY <2>1 DEF EngineInv, Untouched
  <2>2. CASE stage = "events"
    <3>1. SchemeOK(A) /\ SchemeOK(B) /\ relations = compose_schemes(A, B, org)
      BY <2>2, LoadedFits DEF EngineInv, Composed
    <3>2. Related(relations, A, B)
      BY <3>1, ComposedIs
    <3> QED
      BY <3>2, TypesAre
  <2>3. CASE stage \in {"runs", "encoding"}
    BY <2>3, DraftIsSound
  <2> QED
    BY <1>1, <2>1, <2>2, <2>3 DEF STAGES
<1>4. ASSUME NEW e \in ToSet(events)
      PROVE  e.type \in TYPE_IDS /\ e.n > 0 /\ {e.a, e.b} # {<<>>}
  <2>1. CASE stage \in {"loading", "composing", "events"}
    <3>1. events = <<>>
      BY <2>1 DEF EngineInv, Untouched
    <3> QED
      BY <1>4, <3>1 DEF ToSet
  <2>2. CASE stage \in {"runs", "encoding"}
    <3>1. PICK R : IsRow(events) /\ Fits(events, R)
      BY <2>2 DEF EngineInv, EventsBuilt, Told
    <3>2. PICK i \in 1 .. Len(events) : e = events[i]
      BY <1>4, <3>1 DEF ToSet, IsRow
    <3>3. EventFits(e, R)
      BY <3>1, <3>2 DEF Fits
    <3>4. e.n \in Nat \ {0}
      BY <3>3 DEF EventFits
    <3>5. e.n > 0
      BY <3>4
    <3> QED
      BY <3>3, <3>5 DEF EventFits
  <2> QED
    BY <1>1, <2>1, <2>2 DEF STAGES
<1>5. ASSUME NEW row \in ToSet(runs)
      PROVE  row.t \in TYPE_IDS \cup {Same} /\ {row.a, row.b} # {<<>>}
  <2>1. CASE stage # "encoding"
    <3>1. runs = <<>>
      BY <2>1 DEF EngineInv, Untouched
    <3> QED
      BY <1>5, <3>1 DEF ToSet
  <2>2. CASE stage = "encoding"
    <3>1. runs = build_runs
      BY <2>2 DEF EngineInv, LaidOut
    <3>2. Bedded(relations) /\ (\A q \in relations : Sound(q))
          /\ \A q \in relations : q.etype \in TYPE_IDS \cup {Same}
      BY <2>2, DraftIsSound
    <3> QED
      BY <1>5, <3>1, <3>2, RunsTell
  <2> QED
    BY <2>1, <2>2
<1> QED
  BY <1>1, <1>2, <1>3, <1>4, <1>5 DEF TypeOK

(* The events told are those of the relations drawn. *)
LEMMA InvReports ==
    ASSUME EngineInv
    PROVE  EveryDivergenceReported
<1>1. CASE stage # "runs"
  BY <1>1 DEF EveryDivergenceReported
<1>2. CASE stage = "runs"
  <2> DEFINE R == compose_schemes(A, B, org)
  <2>1. SchemeOK(A) /\ SchemeOK(B) /\ Told(events, R) /\ Drafted(relations, R)
    BY <1>2, LoadedFits DEF EngineInv, EventsBuilt
  <2>2. Related(R, A, B)
    BY <2>1, ComposedIs
  <2> HIDE DEF R
  <2>3. Reported(events, relations)
    BY <2>1, <2>2, ReportsAll
  <2> QED
    BY <2>3 DEF Reported, EveryDivergenceReported
<1> QED
  BY <1>1, <1>2

(* The runs built are those of the relations drawn. *)
LEMMA InvDecodes ==
    ASSUME EngineInv
    PROVE  RunsDecode
<1>1. CASE stage # "encoding"
  BY <1>1 DEF RunsDecode
<1>2. CASE stage = "encoding"
  <2>1. runs = build_runs
    BY <1>2 DEF EngineInv, LaidOut
  <2>2. Bedded(relations) /\ (\A q \in relations : Sound(q))
        /\ \A q \in relations : q.etype \in TYPE_IDS \cup {Same}
    BY <1>2, DraftIsSound
  <2>3. \A r \in relations : Cardinality({i \in DOMAIN runs : Tells(runs[i], r)}) = 1
    BY <2>1, <2>2, RunsTell
  <2> QED
    BY <2>3 DEF RunsDecode
<1> QED
  BY <1>1, <1>2

(* The relations composed lose no verse and have the fewest inversions. *)
LEMMA InvComposes ==
    ASSUME EngineInv
    PROVE  NoVerseLost /\ InversionsAreFewest
<1>1. CASE stage # "events"
  BY <1>1 DEF NoVerseLost, InversionsAreFewest
<1>2. CASE stage = "events"
  <2>1. SchemeOK(A) /\ SchemeOK(B) /\ relations = compose_schemes(A, B, org)
    BY <1>2, LoadedFits DEF EngineInv, Composed
  <2> QED
    BY <2>1, NoVerseIsLost, InversionsFew
<1> QED
  BY <1>1, <1>2

(* The events of a side and itself are bridges and parts. *)
LEMMA InvSilent ==
    ASSUME EngineInv
    PROVE  SelfComparisonIsSilent
<1> SUFFICES ASSUME left = right, NEW e \in ToSet(events)
             PROVE  e.type \in {"BRIDGE", "SEGMENT"} /\ e.of = {}
  BY DEF SelfComparisonIsSilent
<1>1. stage \in STAGES
  BY DEF EngineInv
<1>2. CASE stage \in {"loading", "composing", "events"}
  <2>1. events = <<>>
    BY <1>2 DEF EngineInv, Untouched
  <2> QED
    BY <2>1 DEF ToSet
<1>3. CASE stage \in {"runs", "encoding"}
  <2>1. NoneOf(events)
    BY <1>3 DEF EngineInv, Silent
  <2>2. PICK i \in 1 .. Len(events) : e = events[i]
    BY <2>1 DEF NoneOf, ToSet, IsRow
  <2> QED
    BY <2>1, <2>2 DEF NoneOf
<1> QED
  BY <1>1, <1>2, <1>3 DEF STAGES

(* Both directions of the sides that are loaded agree. *)
LEMMA InvMirrors ==
    ASSUME EngineInv
    PROVE  MirrorAgrees
<1>1. CASE stage # "events"
  BY <1>1 DEF MirrorAgrees
<1>2. CASE stage = "events"
  <2>1. SchemeOK(A) /\ SchemeOK(B)
    BY <1>2, LoadedFits
  <2>2. ASSUME \A c \in Components(A, B, org) : ~ Crossed(c),
               NEW there, there = FirstPass(A, B, org), NEW back, back = FirstPass(B, A, org)
        PROVE  /\ {Mirrored(r) : r \in there} = back
               /\ (\A r \in there : Cardinality(BooksOf(r.Ap \cup r.Bp)) <= 1)
                    => Inversions(classify(there)) = Inversions(classify(back))
    BY <2>1, <2>2, DirectionsAgree
  <2> QED
    BY <2>2 DEF MirrorAgrees
<1> QED
  BY <1>1, <1>2

-----------------------------------------------------------------------------
(* A report starts with nothing loaded. *)
LEMMA InitInv == Init => EngineInv
BY DEF Init, EngineInv, Untouched, Loaded, Composed, EventsBuilt, LaidOut, Silent, STAGES

(* Every stage leaves what the next one takes. *)
LEMMA NextInv == EngineInv /\ [Next]_vars => EngineInv'
<1> SUFFICES ASSUME EngineInv, [Next]_vars PROVE EngineInv'
  OBVIOUS
<1>1. CASE Load
  BY <1>1 DEF Load, EngineInv, Untouched, Loaded, Composed, EventsBuilt, LaidOut, Silent, STAGES,
              inputs, LoadedSide, LoadedOrg
<1>2. CASE Compose
  BY <1>2 DEF Compose, EngineInv, Untouched, Loaded, Composed, EventsBuilt, LaidOut, Silent, STAGES,
              inputs, schemes
<1>3. CASE BuildEvents
  <2>1. /\ stage = "events" /\ stage' = "runs" /\ events' = EVENTS
        /\ relations' = {[r EXCEPT !.etype = Etype(r)] : r \in relations}
        /\ UNCHANGED <<inputs, schemes, runs>>
    BY <1>3 DEF BuildEvents, EVENTS, Etype
  <2>2. SchemeOK(A) /\ SchemeOK(B) /\ relations = compose_schemes(A, B, org)
    BY <2>1, LoadedFits DEF EngineInv, Composed
  <2>3. Related(relations, A, B)
    BY <2>2, ComposedIs
  <2>4. PICK Q : Q = {[r EXCEPT !.etype = Etype(r)] : r \in relations}
    OBVIOUS
  <2>5. Told(EVENTS, relations) /\ Fits(RelationEvents, relations)
    BY <2>2, <2>3, EventsTell
  <2>6. Drafted(Q, relations)
    BY <2>3, <2>4, <2>5, DraftIs
  <2>7. EventsBuilt'
    BY <2>1, <2>2, <2>4, <2>5, <2>6 DEF EventsBuilt, schemes
  <2>8. ASSUME left = right
        PROVE  NoneOf(EVENTS)
    <3>1. A = B
      BY <2>1, <2>8 DEF EngineInv, Loaded
    <3>2. TypedOf(relations) = {}
      BY <2>2, <3>1, TwinsAgree
    <3> QED
      BY <2>2, <2>3, <3>1, <3>2, TwinsAreSilent
  <2>9. Silent'
    BY <2>1, <2>8 DEF Silent, inputs
  <2> QED
    BY <2>1, <2>7, <2>9 DEF EngineInv, Untouched, Loaded, Composed, LaidOut, STAGES, inputs,
                            schemes
<1>4. CASE BuildRuns
  <2>1. /\ stage = "runs" /\ stage' = "encoding" /\ runs' = build_runs
        /\ left' = left /\ right' = right /\ root' = root
        /\ A' = A /\ B' = B /\ org' = org
        /\ relations' = relations /\ events' = events
    BY <1>4 DEF BuildRuns, inputs, schemes
  <2>2. Untouched' /\ Loaded' /\ Composed'
    BY <2>1 DEF EngineInv, Untouched, Loaded, Composed
  <2>3. EventsBuilt'
    BY <2>1 DEF EngineInv, EventsBuilt
  <2>4. LaidOut'
    <3>1. Rows' = Rows
      BY <2>1 DEF Rows
    <3>2. build_runs' = build_runs
      BY <2>1, <3>1 DEF build_runs
    <3> QED
      BY <2>1, <3>2 DEF LaidOut
  <2>5. Silent'
    BY <2>1 DEF EngineInv, Silent
  <2> QED
    BY <2>1, <2>2, <2>3, <2>4, <2>5 DEF EngineInv, STAGES
<1>5. CASE UNCHANGED vars
  <2>1. /\ left' = left /\ right' = right /\ root' = root /\ stage' = stage
        /\ A' = A /\ B' = B /\ org' = org
        /\ relations' = relations /\ events' = events /\ runs' = runs
    BY <1>5 DEF vars, inputs, schemes
  <2>2. Untouched' /\ Loaded' /\ Composed'
    BY <2>1 DEF EngineInv, Untouched, Loaded, Composed
  <2>3. EventsBuilt'
    BY <2>1 DEF EngineInv, EventsBuilt
  <2>4. LaidOut'
    <3>1. Rows' = Rows
      BY <2>1 DEF Rows
    <3>2. build_runs' = build_runs
      BY <2>1, <3>1 DEF build_runs
    <3> QED
      BY <2>1, <3>2 DEF EngineInv, LaidOut
  <2>5. Silent'
    BY <2>1 DEF EngineInv, Silent
  <2> QED
    BY <2>1, <2>2, <2>3, <2>4, <2>5 DEF EngineInv
<1> QED
  BY <1>1, <1>2, <1>3, <1>4, <1>5 DEF Next

(* The invariant of the stages holds for every two sides and every root. *)
THEOREM EngineStays == Spec => []EngineInv
BY InitInv, NextInv, PTL DEF Spec

(* TypeOK for all documents and texts: what load_scheme, compose_schemes,     *)
(* build_events and build_runs return is well formed.                         *)
THEOREM TypeCorrect == Spec => []TypeOK
BY EngineStays, InvTypes, PTL

(* NoVerseLost for all documents and texts: neither the union of              *)
(* compose_schemes nor split_alternates leaves a verse out that another       *)
(* does not replace.                                                          *)
THEOREM NoVerseIsLeftOut == Spec => []NoVerseLost
BY EngineStays, InvComposes, PTL

(* InversionsAreFewest for all documents and texts: what _lis_keep keeps is   *)
(* in order and no larger choice is (doc/divergence-engine.md:46).            *)
THEOREM InversionsStayFewest == Spec => []InversionsAreFewest
BY EngineStays, InvComposes, PTL

(* EveryDivergenceReported for all documents and texts: grouping and          *)
(* folding in build_events tell each relation that differs once.              *)
THEOREM DivergencesAreReported == Spec => []EveryDivergenceReported
BY EngineStays, InvReports, PTL

(* RunsDecode for all documents and texts: the rows build_runs makes tell     *)
(* each relation once and the reader can decode them.                         *)
THEOREM RunsAreDecoded == Spec => []RunsDecode
BY EngineStays, InvDecodes, PTL

(* SelfComparisonIsSilent for all documents and texts: no map, exclusion or   *)
(* text makes a side differ from itself.                                      *)
THEOREM SelfComparisonStaysSilent == Spec => []SelfComparisonIsSilent
BY EngineStays, InvSilent, PTL

(* MirrorAgrees for all documents and texts: split_alternates and classify    *)
(* make the same relations of a pair and of the pair the other way round      *)
(* (schedule_precompute stores both) unless a component is crossed, and mark  *)
(* as many as out of order if none is left for another book.                  *)
THEOREM DirectionsMirror == Spec => []MirrorAgrees
BY EngineStays, InvMirrors, PTL
==============================================================================
