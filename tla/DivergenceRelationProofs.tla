----------------------- MODULE DivergenceRelationProofs -----------------------
(* What compose_schemes returns, for any two schemes and any root: relations  *)
(* that lie beside each other, of verses of their side, none of which is left *)
(* out without one in its place (ComposedIs, ComposedLosesNone).              *)
(*                                                                            *)
(* The code is loops over sorted lists, the model recursive functions, and no *)
(* induction over an operator is at hand: what a loop computes is proved from *)
(* the least number at which it would fail (LeastIsOne, StaysUpTo), and what  *)
(* a sorted list holds from the place of an element, the number of those      *)
(* before it (PlacesNumber, Listing).  On these rest the union of links       *)
(* (PartsJoin, JoiningIsUnique: the order of the unions does not matter) and  *)
(* the longest subsequence (KeepIsLongest, by the invariant of patience       *)
(* sorting).                                                                  *)
EXTENDS DivergenceRelations, FiniteSetTheorems, FunctionTheorems, TLAPS

-----------------------------------------------------------------------------
(* ------------------------ least numbers, induction ----------------------- *)

(* The least of some numbers is one of them.  The numbers below them all are *)
(* 0 .. c - 1, if there are c of them, so that c is such a number.           *)
LEMMA LeastIsOne ==
    ASSUME NEW numbers, numbers \subseteq Nat, numbers # {}
    PROVE  /\ Min(numbers) \in numbers
           /\ \A i \in numbers : Min(numbers) =< i
<1>0. PICK n \in numbers : n \in Nat
  OBVIOUS
<1> DEFINE Sooner == {i \in 0 .. n : \A j \in numbers : i < j}
           c == Cardinality(Sooner)
<1>1. IsFiniteSet(Sooner) /\ c \in Nat
  <2>1. IsFiniteSet(0 .. n)
    BY <1>0, FS_Interval
  <2> QED
    BY <2>1, FS_Subset, FS_CardinalityType
<1>2. n \notin Sooner
  BY <1>0
<1>3. \A i \in Sooner : 0 .. i \subseteq Sooner
  BY <1>0
<1>4. \A k \in Nat : Cardinality(0 .. k) = k + 1 /\ IsFiniteSet(0 .. k)
  BY FS_Interval
<1> HIDE DEF Sooner
<1>5. c \notin Sooner
  <2> SUFFICES ASSUME c \in Sooner PROVE FALSE
    OBVIOUS
  <2>1. Cardinality(0 .. c) =< c
    BY <1>1, <1>3, FS_Subset
  <2> QED
    BY <1>1, <1>4, <2>1
<1>6. c # 0 => c - 1 \in Sooner
  <2> SUFFICES ASSUME c # 0, c - 1 \notin Sooner PROVE FALSE
    OBVIOUS
  <2>1. Sooner \subseteq 0 .. c - 2
    <3> SUFFICES ASSUME NEW i \in Sooner PROVE i \in 0 .. c - 2
      OBVIOUS
    <3>1. i \in Nat
      BY DEF Sooner
    <3>2. c - 1 \notin 0 .. i
      BY <1>3
    <3> QED
      BY <1>1, <3>1, <3>2
  <2>2. CASE c = 1
    <3>1. Sooner = {}
      BY <2>1, <2>2
    <3> QED
      BY <3>1, <2>2, FS_EmptySet
  <2>3. CASE c # 1
    <3>1. c - 2 \in Nat
      BY <1>1, <2>3
    <3>2. c =< Cardinality(0 .. c - 2)
      BY <1>4, <2>1, <3>1, FS_Subset
    <3>3. Cardinality(0 .. c - 2) = c - 2 + 1
      BY <1>4, <3>1
    <3> QED
      BY <1>1, <3>2, <3>3
  <2> QED
    BY <2>2, <2>3
<1>7. c \in 0 .. n /\ \A j \in numbers : c =< j
  <2>1. CASE c = 0
    BY <1>0, <2>1
  <2>2. CASE c # 0
    <3>1. c - 1 \in Sooner
      BY <1>6, <2>2
    <3>2. c - 1 \in 0 .. n /\ \A j \in numbers : c - 1 < j
      BY <3>1 DEF Sooner
    <3>3. \A j \in numbers : c =< j
      BY <1>1, <3>2
    <3> QED
      BY <1>0, <1>1, <3>2, <3>3
  <2> QED
    BY <2>1, <2>2
<1>8. c \in numbers
  BY <1>5, <1>7 DEF Sooner
<1> HIDE DEF c
<1> QED
  BY <1>7, <1>8 DEF Min

(* Induction on the natural numbers, over a set instead of an operator. *)
LEMMA Induction ==
    ASSUME NEW S, 0 \in S, \A k \in Nat : k \in S => k + 1 \in S
    PROVE  Nat \subseteq S
<1> SUFFICES ASSUME Nat \ S # {} PROVE FALSE
  OBVIOUS
<1> DEFINE m == Min(Nat \ S)
<1>1. m \in Nat \ S /\ \A i \in Nat \ S : m =< i
  BY LeastIsOne
<1> HIDE DEF m
<1>2. m # 0 /\ m - 1 \in Nat /\ m - 1 \in S
  BY <1>1
<1> QED
  BY <1>1, <1>2

-----------------------------------------------------------------------------
(* ------------------------------- recursion ------------------------------- *)

(* Functions defined by recursion on a number, with values in a set. *)
Steps(n, S) == [1 .. n -> [S -> S]]

(* What a recursion from a by step gives: step[k] leads from k - 1 to k. *)
Recursions(n, S, a, step) ==
    {f \in [0 .. n -> S] : /\ f[0] = a
                           /\ \A k \in 1 .. n : f[k] = step[k][f[k - 1]]}

(* A recursion defines a function, so that CHOOSE finds it. *)
LEMMA RecursionDefines ==
    ASSUME NEW n, n \in Nat, NEW S, NEW a, a \in S,
           NEW step, step \in Steps(n, S)
    PROVE  Recursions(n, S, a, step) # {}
<1> DEFINE D == {m \in Nat : m <= n =>
                    \E f \in [0 .. m -> S] :
                        f[0] = a /\ \A k \in 1 .. m : f[k] = step[k][f[k - 1]]}
<1>1. 0 \in D
  <2> DEFINE f == [k \in 0 .. 0 |-> a]
  <2>1. f \in [0 .. 0 -> S] /\ f[0] = a /\ 1 .. 0 = {}
    OBVIOUS
  <2> HIDE DEF f
  <2> QED
    BY <2>1
<1>2. ASSUME NEW m \in Nat, m \in D PROVE m + 1 \in D
  <2> SUFFICES ASSUME m + 1 <= n
               PROVE  \E f \in [0 .. m + 1 -> S] :
                        /\ f[0] = a
                        /\ \A k \in 1 .. m + 1 : f[k] = step[k][f[k - 1]]
    OBVIOUS
  <2>1. PICK f \in [0 .. m -> S] :
            f[0] = a /\ \A k \in 1 .. m : f[k] = step[k][f[k - 1]]
    BY <1>2
  <2> DEFINE g == [k \in 0 .. m + 1 |->
                        IF k = m + 1 THEN step[m + 1][f[m]] ELSE f[k]]
  <2>2. step[m + 1][f[m]] \in S
    <3>1. m + 1 \in 1 .. n /\ f[m] \in S
      BY <2>1
    <3> QED
      BY <3>1 DEF Steps
  <2>3. g \in [0 .. m + 1 -> S]
    BY <2>1, <2>2
  <2>4. g[0] = a
    BY <2>1
  <2>5. ASSUME NEW k \in 1 .. m + 1 PROVE g[k] = step[k][g[k - 1]]
    <3>1. CASE k = m + 1
      <4>1. g[k] = step[m + 1][f[m]] /\ g[m] = f[m] /\ k - 1 = m
        BY <3>1
      <4> HIDE DEF g
      <4> QED
        BY <3>1, <4>1
    <3>2. CASE k # m + 1
      <4>1. k \in 1 .. m /\ g[k] = f[k] /\ g[k - 1] = f[k - 1]
        BY <3>2
      <4> HIDE DEF g
      <4> QED
        BY <2>1, <4>1
    <3> QED
      BY <3>1, <3>2
  <2> HIDE DEF g
  <2> QED
    BY <2>3, <2>4, <2>5
<1>3. n \in D
  <2> HIDE DEF D
  <2> QED
    BY <1>1, <1>2, Induction
<1>4. PICK f \in [0 .. n -> S] :
            f[0] = a /\ \A k \in 1 .. n : f[k] = step[k][f[k - 1]]
  BY <1>3
<1> QED
  BY <1>4 DEF Recursions

(* What holds at 0 and is handed on holds up to n. *)
LEMMA StaysUpTo ==
    ASSUME NEW n \in Nat, NEW good, 0 \in good,
           \A k \in 1 .. n : k - 1 \in good => k \in good
    PROVE  0 .. n \subseteq good
<1> DEFINE D == {m \in Nat : m <= n => m \in good}
<1>1. 0 \in D
  OBVIOUS
<1>2. ASSUME NEW m \in Nat, m \in D PROVE m + 1 \in D
  <2> SUFFICES ASSUME m + 1 <= n PROVE m + 1 \in good
    OBVIOUS
  <2>1. m \in good /\ m + 1 \in 1 .. n /\ m + 1 - 1 = m
    BY <1>2
  <2> QED
    BY <2>1
<1> HIDE DEF D
<1>3. Nat \subseteq D
  BY <1>1, <1>2, Induction
<1> QED
  BY <1>3 DEF D

-----------------------------------------------------------------------------
(* --------------------- sets listed in an order --------------------------- *)

(* A strict total order, as the pairs the first of which comes sooner. *)
Orders(R, S) ==
    /\ \A x \in S : <<x, x>> \notin R
    /\ \A x, y \in S : x # y => <<x, y>> \in R \/ <<y, x>> \in R
    /\ \A x, y, z \in S : <<x, y>> \in R /\ <<y, z>> \in R => <<x, z>> \in R

(* How many come before an element. *)
Place(R, S, x) == Cardinality({y \in S : <<y, x>> \in R})

(* How many come before it numbers the elements without a gap. *)
LEMMA PlacesNumber ==
    ASSUME NEW S, IsFiniteSet(S), NEW R, Orders(R, S)
    PROVE  /\ \A x, y \in S : <<x, y>> \in R => Place(R, S, x) < Place(R, S, y)
           /\ \A x, y \in S : Place(R, S, x) = Place(R, S, y) => x = y
           /\ \A k \in 1 .. Cardinality(S) : \E x \in S : Place(R, S, x) = k - 1
           /\ \A x \in S : Place(R, S, x) \in 0 .. Cardinality(S) - 1
<1> DEFINE n == Cardinality(S)
           g == [x \in S |-> Place(R, S, x) + 1]
<1>1. IsFiniteSet(S) /\ n \in Nat
  BY FS_CardinalityType
<1>2. ASSUME NEW x \in S PROVE Place(R, S, x) \in 0 .. n - 1
  <2> DEFINE B == {y \in S : <<y, x>> \in R}
  <2>1. B \in SUBSET S /\ x \notin B
    BY DEF Orders
  <2>2. Cardinality(B) <= n /\ Cardinality(B) # n /\ Cardinality(B) \in Nat
    BY <1>1, <2>1, FS_Subset, FS_CardinalityType
  <2> HIDE DEF n, B
  <2>3. Cardinality(B) \in 0 .. n - 1
    BY <1>1, <2>2
  <2> QED
    BY <2>3 DEF Place, B
<1>3. ASSUME NEW x \in S, NEW y \in S, <<x, y>> \in R
      PROVE  Place(R, S, x) < Place(R, S, y)
  <2> DEFINE A == {z \in S : <<z, x>> \in R}
             B == {z \in S : <<z, y>> \in R}
  <2>1. A \in SUBSET B /\ x \in B /\ x \notin A
    BY <1>3 DEF Orders
  <2>2. IsFiniteSet(B) /\ IsFiniteSet(A)
    BY <1>1, FS_Subset
  <2> HIDE DEF A, B
  <2>3. Cardinality(A) # Cardinality(B) /\ Cardinality(A) <= Cardinality(B)
    BY <2>1, <2>2, FS_Subset
  <2>4. Cardinality(A) \in Nat /\ Cardinality(B) \in Nat
    BY <2>2, FS_CardinalityType
  <2>5. Cardinality(A) < Cardinality(B)
    BY <2>3, <2>4
  <2> QED
    BY <2>5 DEF Place, A, B
<1>4. ASSUME NEW x \in S, NEW y \in S, Place(R, S, x) = Place(R, S, y) PROVE x = y
  <2> SUFFICES ASSUME x # y PROVE FALSE
    OBVIOUS
  <2>1. <<x, y>> \in R \/ <<y, x>> \in R
    BY DEF Orders
  <2>2. Place(R, S, x) \in Int
    BY <1>1, <1>2
  <2> QED
    BY <1>3, <1>4, <2>1, <2>2
<1>5. g \in Injection(S, 1 .. n)
  <2>1. g \in [S -> 1 .. n]
    <3> HIDE DEF n
    <3> QED BY <1>1, <1>2
  <2>2. ASSUME NEW x \in S, NEW y \in S, g[x] = g[y] PROVE x = y
    <3>1. Place(R, S, x) + 1 = Place(R, S, y) + 1
      BY <2>2
    <3>2. Place(R, S, x) \in Int /\ Place(R, S, y) \in Int
      BY <1>1, <1>2
    <3>3. Place(R, S, x) = Place(R, S, y)
      BY <3>1, <3>2
    <3> QED BY <3>3, <1>4
  <2> HIDE DEF g, n
  <2> QED
    BY <2>1, <2>2, Fun_IsInj
<1>6. IsFiniteSet(1 .. n) /\ Cardinality(1 .. n) = n
  <2> HIDE DEF n
  <2> QED BY <1>1, FS_Interval
<1>7. g \in Surjection(S, 1 .. n)
  <2> HIDE DEF g
  <2> QED BY <1>5, <1>6, FS_Injection
<1>8. ASSUME NEW k \in 1 .. n PROVE \E x \in S : Place(R, S, x) = k - 1
  <2>1. PICK x \in S : g[x] = k
    BY <1>7 DEF Surjection
  <2>2. Place(R, S, x) + 1 = k /\ Place(R, S, x) \in Int /\ k \in Int
    BY <1>1, <1>2, <2>1
  <2> QED
    BY <2>2
<1> QED
  BY <1>2, <1>3, <1>4, <1>8

(* A function on 1 .. n is a sequence of length n. *)
LEMMA NumberedIsSeq ==
    ASSUME NEW n \in Nat, NEW S, NEW s \in [1 .. n -> S]
    PROVE  s \in Seq(S) /\ Len(s) = n
  OBVIOUS

-----------------------------------------------------------------------------
(* --- What is listed, sorted and numbered --- *)

(* The image of a finite set is finite. *)
LEMMA ImageIsFinite ==
    ASSUME NEW S, IsFiniteSet(S), NEW f, NEW I, \A t \in I : \E x \in S : t = f[x]
    PROVE  IsFiniteSet(I) /\ Cardinality(I) <= Cardinality(S)
<1> DEFINE D == {x \in S : f[x] \in I}
           g == [x \in D |-> f[x]]
<1>1. D \in SUBSET S
  OBVIOUS
<1>2. g \in [D -> I] /\ \A t \in I : \E x \in D : g[x] = t
  OBVIOUS
<1> HIDE DEF g, D
<1>3. g \in Surjection(D, I)
  BY <1>2, Fun_IsSurj
<1>4. IsFiniteSet(D) /\ Cardinality(D) <= Cardinality(S)
  BY <1>1, FS_Subset
<1>5. IsFiniteSet(I) /\ Cardinality(I) <= Cardinality(D)
  BY <1>3, <1>4, FS_Surjection
<1>6. Cardinality(I) \in Nat /\ Cardinality(D) \in Nat /\ Cardinality(S) \in Nat
  BY <1>4, <1>5, FS_CardinalityType
<1> QED
  BY <1>4, <1>5, <1>6

(* An injection finds no more elements than there are. *)
LEMMA InjectionCounts ==
    ASSUME NEW S, NEW I, IsFiniteSet(I), NEW f, \A x \in S : f[x] \in I,
           \A x, y \in S : f[x] = f[y] => x = y
    PROVE  IsFiniteSet(S) /\ Cardinality(S) <= Cardinality(I)
<1> DEFINE g == [x \in S |-> f[x]]
<1>1. g \in [S -> I] /\ \A x, y \in S : g[x] = g[y] => x = y
  OBVIOUS
<1> HIDE DEF g
<1>2. g \in Injection(S, I)
  BY <1>1, Fun_IsInj
<1> QED
  BY <1>2, FS_Injection

-----------------------------------------------------------------------------
Verse == Nat \X Nat \X Nat

(* Verses are strictly and totally ordered. *)
LEMMA VerseOrder ==
    /\ \A x \in Verse : ~ Before(x, x)
    /\ \A x, y \in Verse : x # y => Before(x, y) \/ Before(y, x)
    /\ \A x, y, z \in Verse : Before(x, y) /\ Before(y, z) => Before(x, z)
<1>1. ASSUME NEW x \in Verse PROVE x = <<x[1], x[2], x[3]>> /\ x[1] \in Nat /\ x[2] \in Nat /\ x[3] \in Nat
  BY DEF Verse
<1>2. \A x \in Verse : ~ Before(x, x)
  BY <1>1 DEF Before
<1>3. ASSUME NEW x \in Verse, NEW y \in Verse, x # y PROVE Before(x, y) \/ Before(y, x)
  <2>1. x[1] # y[1] \/ x[2] # y[2] \/ x[3] # y[3]
    BY <1>1, <1>3
  <2> QED
    BY <1>1, <2>1 DEF Before
<1>4. ASSUME NEW x \in Verse, NEW y \in Verse, NEW z \in Verse, Before(x, y), Before(y, z)
      PROVE  Before(x, z)
  BY <1>1, <1>4 DEF Before
<1> QED
  BY <1>2, <1>3, <1>4

(* Among some verses there is a first one. *)
LEMMA FirstIsOne ==
    ASSUME NEW S, S \subseteq Verse, S # {}
    PROVE  /\ FirstOf(S) \in S
           /\ \A y \in S : y = FirstOf(S) \/ Before(FirstOf(S), y)
           /\ \A x \in S : (\A y \in S \ {x} : Before(x, y)) => x = FirstOf(S)
<1> DEFINE b == Min({x[1] : x \in S})
           Sb == {x \in S : x[1] = b}
           c == Min({x[2] : x \in Sb})
           Sc == {x \in Sb : x[2] = c}
           v == Min({x[3] : x \in Sc})
<1>0. \A x \in S : x = <<x[1], x[2], x[3]>> /\ x[1] \in Nat /\ x[2] \in Nat /\ x[3] \in Nat
  BY DEF Verse
<1>1. b \in {x[1] : x \in S} /\ \A x \in S : b <= x[1]
  <2>1. {x[1] : x \in S} \subseteq Nat /\ {x[1] : x \in S} # {}
    BY <1>0
  <2> QED
    BY <2>1, LeastIsOne
<1>2. Sb # {} /\ Sb \subseteq S
  BY <1>1
<1>3. c \in {x[2] : x \in Sb} /\ \A x \in Sb : c <= x[2]
  <2> HIDE DEF Sb
  <2>1. {x[2] : x \in Sb} \subseteq Nat /\ {x[2] : x \in Sb} # {}
    BY <1>0, <1>2
  <2> QED
    BY <2>1, LeastIsOne
<1>4. Sc # {} /\ Sc \subseteq Sb
  BY <1>3
<1>5. v \in {x[3] : x \in Sc} /\ \A x \in Sc : v <= x[3]
  <2> HIDE DEF Sb, Sc
  <2>1. {x[3] : x \in Sc} \subseteq Nat /\ {x[3] : x \in Sc} # {}
    BY <1>0, <1>2, <1>4
  <2> QED
    BY <2>1, LeastIsOne
<1>6. PICK x \in Sc : x[3] = v
  BY <1>5
<1>7. x \in S /\ x[1] = b /\ x[2] = c
  BY <1>6
<1>8. ASSUME NEW y \in S, y # x PROVE Before(x, y)
  <2>1. y[1] # x[1] \/ y[2] # x[2] \/ y[3] # x[3]
    BY <1>0, <1>7, <1>8
  <2>2. b <= y[1]
    BY <1>1
  <2>3. y[1] = b => c <= y[2]
    BY <1>3
  <2>4. y[1] = b /\ y[2] = c => v <= y[3]
    BY <1>5
  <2> HIDE DEF b, c, v
  <2> QED
    BY <1>0, <1>6, <1>7, <2>1, <2>2, <2>3, <2>4 DEF Before
<1>9. FirstOf(S) \in S /\ \A y \in S \ {FirstOf(S)} : Before(FirstOf(S), y)
  BY <1>7, <1>8 DEF FirstOf
<1>10. ASSUME NEW z \in S, \A y \in S \ {z} : Before(z, y) PROVE z = FirstOf(S)
  <2> SUFFICES ASSUME z # FirstOf(S) PROVE FALSE
    OBVIOUS
  <2>1. Before(z, FirstOf(S)) /\ Before(FirstOf(S), z)
    BY <1>9, <1>10
  <2>2. z \in Verse /\ FirstOf(S) \in Verse
    BY <1>9
  <2> QED
    BY <2>1, <2>2, VerseOrder
<1> QED
  BY <1>9, <1>10

(* Taking the element of every place in turn lists each of them, in order.   *)
Lists(s, S, R, n) ==
    /\ n \in Nat /\ s \in [1 .. n -> S] /\ s \in Seq(S) /\ Len(s) = n
    /\ \A x \in S : \E i \in 1 .. n : s[i] = x
    /\ \A i, j \in 1 .. n : i < j => <<s[i], s[j]>> \in R
    /\ \A i, j \in 1 .. n : s[i] = s[j] => i = j

(* A finite set, laid out in one of its orders, is a list of it. *)
LEMMA Listing ==
    ASSUME NEW S, IsFiniteSet(S), NEW R, Orders(R, S)
    PROVE  Lists(InOrder(S, R), S, R, Cardinality(S))
<1> DEFINE n == Cardinality(S)
           s == InOrder(S, R)
<1>1. n \in Nat
  BY FS_CardinalityType
<1>2. ASSUME NEW i \in 1 .. n PROVE s[i] \in S /\ Place(R, S, s[i]) = i - 1
  <2>1. \E x \in S : Place(R, S, x) = i - 1
    BY PlacesNumber
  <2>2. s[i] = CHOOSE x \in S : Place(R, S, x) = i - 1
    BY DEF InOrder, Place
  <2> QED
    BY <2>1, <2>2
<1>3. s \in [1 .. n -> S]
  BY <1>2 DEF InOrder
<1>4. s \in Seq(S) /\ Len(s) = n
  BY <1>1, <1>3, NumberedIsSeq
<1>5. ASSUME NEW x \in S PROVE \E i \in 1 .. n : s[i] = x
  <2> DEFINE r == Place(R, S, x)
  <2>1. r \in 0 .. n - 1
    BY PlacesNumber
  <2>2. PICK i \in 1 .. n : i - 1 = r
    <3> HIDE DEF r, n
    <3> QED
      BY <1>1, <2>1
  <2>3. s[i] \in S /\ Place(R, S, s[i]) = Place(R, S, x)
    BY <1>2, <2>2
  <2> QED
    BY <2>2, <2>3, PlacesNumber
<1>6. ASSUME NEW i \in 1 .. n, NEW j \in 1 .. n
      PROVE  /\ i < j => <<s[i], s[j]>> \in R
             /\ s[i] = s[j] => i = j
  <2>1. /\ s[i] \in S /\ Place(R, S, s[i]) = i - 1
        /\ s[j] \in S /\ Place(R, S, s[j]) = j - 1
    BY <1>2
  <2>2. s[i] = s[j] => i = j
    BY <1>1, <2>1
  <2>3. i < j => <<s[i], s[j]>> \in R
    <3> SUFFICES ASSUME i < j PROVE <<s[i], s[j]>> \in R
      OBVIOUS
    <3>1. s[i] # s[j] /\ ~ (j - 1 < i - 1)
      BY <1>1, <2>2
    <3>2. <<s[j], s[i]>> \notin R
      BY <2>1, <3>1, PlacesNumber
    <3> QED
      BY <2>1, <3>1, <3>2 DEF Orders
  <2> QED
    BY <2>2, <2>3
<1> HIDE DEF s, n
<1> QED
  BY <1>1, <1>3, <1>4, <1>5, <1>6 DEF Lists, s, n

(* Sorting some verses lists each of them in turn. *)
LEMMA SortsVerses ==
    ASSUME NEW S, S \subseteq Verse, IsFiniteSet(S)
    PROVE  /\ Sorted(S) \in Seq(S) /\ ToSet(Sorted(S)) = S
           /\ DOMAIN Sorted(S) = 1 .. Cardinality(S) /\ Cardinality(S) \in Nat
<1> DEFINE R == {p \in S \X S : Before(p[1], p[2])}
           s == Sorted(S)
<1>1. \A x, y \in S : <<x, y>> \in R <=> Before(x, y)
  OBVIOUS
<1>2. Orders(R, S)
  <2> HIDE DEF R
  <2> QED
    BY <1>1, VerseOrder DEF Orders
<1>3. s = InOrder(S, R)
  BY DEF Sorted
<1> HIDE DEF R, s
<1>4. Lists(s, S, R, Cardinality(S))
  BY <1>2, <1>3, Listing
<1> QED
  BY <1>4 DEF Lists, s, ToSet

-----------------------------------------------------------------------------
(* --- What is joined (union, Parts) --- *)

(* Sets of nodes that links join, and nothing else. *)
Disjoint(P) == \A p, q \in P : p # q => p \cap q = {}
Closed(C, L) == \A l \in L : l \cap C # {} => l \subseteq C
Joined(P, L, N) ==
    /\ UNION P = N /\ {} \notin P /\ Disjoint(P)
    /\ \A p \in P : Closed(p, L)
    /\ \A C \in SUBSET N : Closed(C, L) => \A p \in P : p \cap C # {} => p \subseteq C

(* One more union: what the link touches becomes one part, the others stay. *)
LEMMA UnionJoins ==
    ASSUME NEW N, NEW L, NEW l, l \subseteq N, l # {}, NEW P, Joined(P, L, N)
    PROVE  Joined(union(P, l), L \cup {l}, N)
<1> DEFINE touched == {p \in P : p \cap l # {}}
           U == UNION touched
           Q == union(P, l)
<1>1. Q = (P \ touched) \cup {U}
  BY DEF union
<1>2. UNION P = N /\ {} \notin P /\ Disjoint(P)
      /\ \A p \in P : Closed(p, L)
  BY DEF Joined
<1>3. l \subseteq U /\ U \subseteq N /\ U # {}
  BY <1>2
<1>4. \A p \in P \ touched : p \cap U = {}
  BY <1>2 DEF Disjoint
<1>5. \A p \in P : p \in touched => p \subseteq U
  OBVIOUS
<1>6. \A x \in U : \E p \in touched : x \in p
  OBVIOUS
<1>7. \A p \in P : p \notin touched => p \cap l = {}
  OBVIOUS
<1>8. touched \subseteq P
  OBVIOUS
<1> HIDE DEF touched, U, Q
<1>9. UNION Q = N /\ {} \notin Q
  BY <1>1, <1>2, <1>3, <1>5, <1>6, <1>8
<1>10. Disjoint(Q)
  BY <1>1, <1>2, <1>4 DEF Disjoint
<1>11. \A p \in Q : Closed(p, L \cup {l})
  <2>1. ASSUME NEW p \in P \ touched PROVE Closed(p, L \cup {l})
    BY <1>2, <1>7 DEF Closed
  <2>2. Closed(U, L \cup {l})
    <3> SUFFICES ASSUME NEW k \in L, k \cap U # {} PROVE k \subseteq U
      BY <1>3 DEF Closed
    <3>1. PICK p \in touched : p \cap k # {}
      BY <1>6
    <3>2. k \subseteq p
      BY <1>2, <1>8, <3>1 DEF Closed
    <3> QED
      BY <1>5, <1>8, <3>2
  <2> QED
    BY <1>1, <2>1, <2>2
<1>12. ASSUME NEW C \in SUBSET N, Closed(C, L \cup {l}), NEW p \in Q, p \cap C # {}
       PROVE  p \subseteq C
  <2>1. Closed(C, L)
    BY <1>12 DEF Closed
  <2>2. \A q \in P : q \cap C # {} => q \subseteq C
    BY <2>1 DEF Joined
  <2>3. CASE p \in P
    BY <1>12, <2>2, <2>3
  <2>4. CASE p = U
    <3>1. PICK q \in touched : q \cap C # {}
      BY <1>6, <1>12, <2>4
    <3>2. q \subseteq C
      BY <1>8, <2>2, <3>1
    <3>3. l \cap C # {}
      <4>1. q \cap l # {}
        BY <1>8, <3>1 DEF touched
      <4> QED
        BY <3>2, <4>1
    <3>4. l \subseteq C
      BY <1>12, <3>3 DEF Closed
    <3>5. ASSUME NEW q_ \in touched PROVE q_ \subseteq C
      <4>1. q_ \cap l # {}
        BY DEF touched
      <4> QED
        BY <1>8, <2>2, <3>4, <4>1
    <3> QED
      BY <1>6, <2>4, <3>5
  <2> QED
    BY <1>1, <1>12, <2>3, <2>4
<1> QED
  BY <1>9, <1>10, <1>11, <1>12 DEF Joined, Q

(* All links together. *)
LEMMA PartsJoin ==
    ASSUME NEW links, NEW N, N = UNION ToSet(links),
           links \in Seq(SUBSET N), \A i \in 1 .. Len(links) : links[i] # {}
    PROVE  Joined(Parts(links), ToSet(links), N)
<1> DEFINE n == Len(links)
           S == SUBSET SUBSET N
           a == {{x} : x \in N}
           step == [k \in 1 .. n |-> [P \in S |-> union(P, links[k])]]
           parts == CHOOSE f : f = [k \in 0 .. n |->
                        IF k = 0 THEN {{x} : x \in UNION ToSet(links)}
                        ELSE union(f[k - 1], links[k])]
           L(k) == {links[i] : i \in 1 .. k}
<1>0. n \in Nat /\ DOMAIN links = 1 .. n /\ \A k \in 1 .. n : links[k] \in SUBSET N
  OBVIOUS
<1>1. \A P \in S, k \in 1 .. n : union(P, links[k]) \in S
  <2> SUFFICES ASSUME NEW P \in S, NEW k \in 1 .. n PROVE union(P, links[k]) \in S
    OBVIOUS
  <2> QED
    BY <1>0 DEF union
<1>2. step \in Steps(n, S) /\ a \in S
  <2>1. a \in S
    OBVIOUS
  <2> HIDE DEF S, n, a
  <2>2. \A k \in 1 .. n : [P \in S |-> union(P, links[k])] \in [S -> S]
    BY <1>1
  <2> QED
    BY <2>1, <2>2 DEF Steps
<1>3. \A P \in S, k \in 1 .. n : step[k][P] = union(P, links[k])
  OBVIOUS
<1>4. PICK f : f \in Recursions(n, S, a, step)
  <2> HIDE DEF n, S, a, step
  <2> QED
    BY <1>0, <1>2, RecursionDefines
<1>5. f \in [0 .. n -> S] /\ f[0] = a /\ \A k \in 1 .. n : f[k] = union(f[k - 1], links[k])
  <2>1. f \in [0 .. n -> S] /\ f[0] = a /\ \A k \in 1 .. n : f[k] = step[k][f[k - 1]]
    BY <1>4 DEF Recursions
  <2>2. \A k \in 1 .. n : k - 1 \in 0 .. n
    BY <1>0
  <2> HIDE DEF step, n, S
  <2> QED
    BY <1>3, <2>1, <2>2
<1>6. f = [k \in 0 .. n |-> IF k = 0 THEN {{x} : x \in UNION ToSet(links)}
                            ELSE union(f[k - 1], links[k])]
  <2> HIDE DEF n, S
  <2> QED
    BY <1>0, <1>5
<1>7. parts = [k \in 0 .. n |-> IF k = 0 THEN {{x} : x \in UNION ToSet(links)}
                                ELSE union(parts[k - 1], links[k])]
  <2> HIDE DEF n
  <2> QED
    BY <1>6
<1>8. /\ parts[0] = {{x} : x \in N}
      /\ \A k \in 1 .. n : parts[k] = union(parts[k - 1], links[k])
  <2> HIDE DEF parts, n
  <2>1. 0 \in 0 .. n /\ \A k \in 1 .. n : k \in 0 .. n /\ k # 0
    BY <1>0
  <2>2. \A k \in 0 .. n : parts[k] = IF k = 0 THEN {{x} : x \in N}
                                     ELSE union(parts[k - 1], links[k])
    BY <1>7
  <2> QED
    BY <2>1, <2>2
<1>9. Parts(links) = parts[n]
  BY DEF Parts
<1> HIDE DEF parts
<1> DEFINE good == {k \in 0 .. n : Joined(parts[k], L(k), N)}
<1>10. 0 \in good
  <2>1. L(0) = {}
    OBVIOUS
  <2>2. Joined({{x} : x \in N}, {}, N)
    <3>1. UNION {{x} : x \in N} = N /\ {} \notin {{x} : x \in N}
      OBVIOUS
    <3>2. Disjoint({{x} : x \in N})
      BY ZenonT(40) DEF Disjoint
    <3>3. \A p \in {{x} : x \in N} : Closed(p, {})
      BY DEF Closed
    <3>4. \A C \in SUBSET N, p \in {{x} : x \in N} : p \cap C # {} => p \subseteq C
      OBVIOUS
    <3> QED
      BY <3>1, <3>2, <3>3, <3>4 DEF Joined
  <2> HIDE DEF L, n
  <2>3. Joined(parts[0], L(0), N)
    BY <1>8, <2>1, <2>2
  <2> QED
    BY <1>0, <2>3
<1>11. ASSUME NEW k \in 1 .. n, k - 1 \in good PROVE k \in good
  <2>1. Joined(parts[k - 1], L(k - 1), N)
    BY <1>11
  <2>2. L(k) = L(k - 1) \cup {links[k]}
    <3>1. 1 .. k = (1 .. k - 1) \cup {k}
      BY <1>0
    <3> QED
      BY <3>1
  <2>3. links[k] \subseteq N /\ links[k] # {}
    BY <1>0
  <2> HIDE DEF n, L
  <2>4. Joined(union(parts[k - 1], links[k]), L(k - 1) \cup {links[k]}, N)
    BY <2>1, <2>3, UnionJoins
  <2>5. parts[k] = union(parts[k - 1], links[k])
    BY <1>8
  <2>6. Joined(parts[k], L(k), N)
    BY ONLY <2>2, <2>4, <2>5
  <2>7. k \in 0 .. n
    BY <1>0
  <2> QED
    BY <2>6, <2>7
<1>12. n \in good
  <2> HIDE DEF good, n
  <2>1. 0 .. n \subseteq good
    BY <1>0, <1>10, <1>11, StaysUpTo
  <2> QED
    BY <1>0, <2>1
<1>13. L(n) = ToSet(links)
  BY <1>0 DEF ToSet
<1> QED
  BY <1>9, <1>12, <1>13

(* There is only one way to join. *)
LEMMA JoiningIsUnique ==
    ASSUME NEW N, NEW L, NEW P, NEW Q, Joined(P, L, N), Joined(Q, L, N)
    PROVE  P = Q
<1>1. ASSUME NEW P1, NEW Q1, Joined(P1, L, N), Joined(Q1, L, N), NEW p \in P1 PROVE p \in Q1
  <2>0. UNION P1 = N /\ {} \notin P1
    BY <1>1 DEF Joined
  <2>1. PICK x \in p : x \in N
    BY <2>0
  <2>2. PICK q \in Q1 : x \in q
    BY <1>1, <2>1 DEF Joined
  <2>3. p \in SUBSET N /\ q \in SUBSET N /\ Closed(p, L) /\ Closed(q, L)
    BY <1>1, <2>2 DEF Joined
  <2>4. p \subseteq q
    BY <1>1, <2>1, <2>2, <2>3 DEF Joined
  <2>5. q \subseteq p
    BY <1>1, <2>1, <2>2, <2>3 DEF Joined
  <2> QED
    BY <2>2, <2>4, <2>5
<1> QED
  BY <1>1

-----------------------------------------------------------------------------
(* --- Schemes as they are loaded --- *)

(* Picking some places of a sequence picks each of them once, in order.      *)
Picks(s, seq, places, n, f) ==
    /\ n = Cardinality(places) /\ n \in Nat
    /\ s \in [1 .. n -> {seq[i] : i \in places}]
    /\ s \in Seq({seq[i] : i \in places}) /\ Len(s) = n
    /\ f \in [1 .. n -> places]
    /\ \A j, k \in 1 .. n : f[j] = f[k] => j = k
    /\ \A i \in places : \E k \in 1 .. n : f[k] = i
    /\ \A k \in 1 .. n : s[k] = seq[f[k]]

(* Pick takes the elements at its places, each once, in their order. *)
LEMMA PicksPlaces ==
    ASSUME NEW places, IsFiniteSet(places), places \subseteq Nat, NEW seq
    PROVE  \E f : Picks(Pick(seq, places), seq, places, Cardinality(places), f)
<1> DEFINE R == {p \in places \X places : p[1] < p[2]}
           f == Increasing(places)
           n == Cardinality(places)
           s == Pick(seq, places)
<1>1. Orders(R, places)
  <2>1. \A x, y \in places : <<x, y>> \in R <=> x < y
    OBVIOUS
  <2> HIDE DEF R
  <2> QED
    BY <2>1 DEF Orders
<1>2. f = InOrder(places, R)
  BY DEF Increasing
<1> HIDE DEF R, f
<1>3. Lists(f, places, R, n)
  BY <1>1, <1>2, Listing
<1>4. s = [i \in 1 .. n |-> seq[f[i]]]
  BY DEF Pick, f
<1> HIDE DEF s, n
<1>5. s \in [1 .. n -> {seq[i] : i \in places}]
  BY ZenonT(40), <1>3, <1>4 DEF Lists
<1>6. s \in Seq({seq[i] : i \in places}) /\ Len(s) = n
  BY <1>3, <1>5, NumberedIsSeq DEF Lists
<1>7. \A k \in 1 .. n : s[k] = seq[f[k]]
  BY <1>4
<1> QED
  BY <1>3, <1>5, <1>6, <1>7 DEF s, n, Lists, Picks

(* A scheme the engine can work on. *)
Bridged(r) == {r.book, r.chapter, r.lo, r.hi} \subseteq Nat /\ r.lo < r.hi
EdgesOK(edges) == IsFiniteSet(edges) /\ edges \subseteq Verse \X Verse
MaxOK(max) ==
    /\ DOMAIN max \subseteq Nat /\ IsFiniteSet(DOMAIN max)
    /\ \A book \in DOMAIN max : max[book] \in Seq(Nat)
BridgesOK(bridges) ==
    /\ bridges \in Seq(ToSet(bridges)) /\ \A r \in ToSet(bridges) : Bridged(r)
SchemeOK(scheme) ==
    /\ MaxOK(scheme.max) /\ EdgesOK(scheme.edges) /\ BridgesOK(scheme.bridges)
    /\ scheme.has_vrs \in BOOLEAN

(* The pairs of a line are finitely many pairs of verses. *)
LEMMA PairsAreVerses ==
    ASSUME NEW max, NEW line, RefOK(line.from), RefOK(line.to)
    PROVE  EdgesOK(_add(max, line))
<1>1. CASE Reversed(line)
  <2>1. _add(max, line) = {}
    BY <1>1 DEF _add
  <2> QED
    BY <2>1, FS_EmptySet DEF EdgesOK
<1>2. CASE ~ Reversed(line)
  <2> DEFINE VerseOf(r, i) == <<r.book, r.chapter, Min({r.lo + i, r.hi})>>
             All(r) == {VerseOf(r, i) : i \in 0 .. (Width(r) - 1)}
  <2>1. Width(line.from) \in Nat /\ Width(line.to) \in Nat
    BY <1>2 DEF Reversed, Width, RefOK
  <2>2. ASSUME NEW r, RefOK(r), NEW i \in Nat PROVE VerseOf(r, i) \in Verse
    <3>1. {r.lo + i, r.hi} \subseteq Nat /\ {r.lo + i, r.hi} # {}
      BY <2>2 DEF RefOK
    <3>2. Min({r.lo + i, r.hi}) \in Nat
      BY <3>1, LeastIsOne
    <3> QED
      BY <2>2, <3>2 DEF RefOK, Verse
  <2>3. ASSUME NEW r, RefOK(r), Width(r) \in Nat
        PROVE  IsFiniteSet(All(r)) /\ All(r) \subseteq Verse
    <3> DEFINE I == 0 .. (Width(r) - 1)
               f == [i \in I |-> VerseOf(r, i)]
    <3>1. IsFiniteSet(I)
      BY <2>3, FS_Interval
    <3>2. f \in [I -> Verse]
      BY <2>2, <2>3
    <3>3. \A x \in All(r) : \E i \in I : x = f[i]
      OBVIOUS
    <3> HIDE DEF f, I, VerseOf, All
    <3>4. IsFiniteSet(All(r))
      BY <3>1, <3>3, ImageIsFinite
    <3> QED
      BY <3>2, <3>3, <3>4
  <2>4. EdgesOK(All(line.from) \X All(line.to))
    <3>1. /\ IsFiniteSet(All(line.from)) /\ All(line.from) \subseteq Verse
          /\ IsFiniteSet(All(line.to)) /\ All(line.to) \subseteq Verse
      BY <2>1, <2>3
    <3> HIDE DEF All
    <3> QED
      BY <3>1, FS_Product DEF EdgesOK
  <2> DEFINE m == Max({Width(line.from), Width(line.to)})
             I == 0 .. m - 1
             P == {<<VerseOf(line.from, i), VerseOf(line.to, i)>> : i \in I}
  <2>5. m \in Nat
    BY <2>1 DEF Max
  <2>6. EdgesOK(P)
    <3> DEFINE f == [i \in I |-> <<VerseOf(line.from, i), VerseOf(line.to, i)>>]
    <3>1. IsFiniteSet(I)
      <4> HIDE DEF m
      <4> QED BY <2>5, FS_Interval
    <3>2. f \in [I -> Verse \X Verse]
      <4> HIDE DEF VerseOf, m
      <4>1. \A i \in I : i \in Nat
        BY <2>5
      <4> QED
        BY <2>2, <4>1
    <3>3. \A x \in P : \E i \in I : x = f[i]
      <4> HIDE DEF VerseOf, I
      <4> QED OBVIOUS
    <3> HIDE DEF f, I, P
    <3>4. IsFiniteSet(P)
      BY <3>1, <3>3, ImageIsFinite
    <3> QED
      BY <3>2, <3>3, <3>4 DEF EdgesOK
  <2>7. EdgesOK(PairsOf(line))
    <3>1. PairsOf(line) = P \/ PairsOf(line) = All(line.from) \X All(line.to)
      BY DEF PairsOf
    <3> QED
      BY <2>4, <2>6, <3>1
  <2>8. _add(max, line) \in SUBSET PairsOf(line)
    BY DEF _add
  <2> QED
    BY <2>7, <2>8, FS_Subset DEF EdgesOK
<1> QED
  BY <1>1, <1>2

(* Some verses of a chapter, of a book, of a scheme are finitely many. *)
LEMMA VersesAreFinite ==
    ASSUME NEW scheme, MaxOK(scheme.max), EdgesOK(scheme.edges)
    PROVE  IsFiniteSet(verses(scheme)) /\ verses(scheme) \subseteq Verse
<1> DEFINE max == scheme.max
           books == DOMAIN max
           Of(b) == {<<b, c>> : c \in DOMAIN max[b]}
           chapters == UNION {Of(b) : b \in books}
           In(bc) == {<<bc[1], bc[2], v>> : v \in 1 .. max[bc[1]][bc[2]]}
           zeros == {e \in scheme.edges : e[1][3] = 0 /\ <<e[1][1], e[1][2]>> \in chapters}
<1>1. \A b \in books : b \in Nat /\ DOMAIN max[b] = 1 .. Len(max[b]) /\ Len(max[b]) \in Nat
                       /\ \A c \in DOMAIN max[b] : max[b][c] \in Nat
  BY DEF MaxOK
<1>2. ASSUME NEW b \in books PROVE IsFiniteSet(Of(b))
  <2> DEFINE f == [c \in DOMAIN max[b] |-> <<b, c>>]
  <2>1. IsFiniteSet(DOMAIN max[b])
    BY <1>1, FS_Interval
  <2>2. \A x \in Of(b) : \E c \in DOMAIN max[b] : x = f[c]
    OBVIOUS
  <2> HIDE DEF f, Of
  <2> QED
    BY <2>1, <2>2, ImageIsFinite
<1>3. IsFiniteSet(chapters)
  <2> DEFINE f == [b \in books |-> Of(b)]
             all == {Of(b) : b \in books}
  <2>1. IsFiniteSet(books)
    BY DEF MaxOK
  <2>2. \A x \in all : \E b \in books : x = f[b]
    OBVIOUS
  <2>3. \A T \in all : IsFiniteSet(T)
    BY <1>2
  <2>4. chapters = UNION all
    OBVIOUS
  <2> HIDE DEF f, all, books, chapters
  <2>5. IsFiniteSet(all)
    BY <2>1, <2>2, ImageIsFinite
  <2> QED
    BY <2>3, <2>4, <2>5, FS_UNION
<1>4. \A bc \in chapters : /\ bc = <<bc[1], bc[2]>> /\ bc[1] \in Nat /\ bc[2] \in Nat
                           /\ max[bc[1]][bc[2]] \in Nat
  BY <1>1
<1> HIDE DEF chapters
<1>5. ASSUME NEW bc \in chapters PROVE IsFiniteSet(In(bc)) /\ In(bc) \subseteq Verse
  <2> DEFINE I == 1 .. max[bc[1]][bc[2]]
             f == [v \in I |-> <<bc[1], bc[2], v>>]
  <2>0. max[bc[1]][bc[2]] \in Int
    BY <1>4
  <2>1. IsFiniteSet(I)
    BY SMTT(40), <2>0, FS_Interval
  <2>2. f \in [I -> Verse]
    BY <1>4 DEF Verse
  <2>3. \A x \in In(bc) : \E v \in I : x = f[v]
    OBVIOUS
  <2> HIDE DEF f, I, In
  <2>4. IsFiniteSet(In(bc))
    BY <2>1, <2>3, ImageIsFinite
  <2> QED
    BY <2>2, <2>3, <2>4
<1> DEFINE V == UNION {In(bc) : bc \in chapters}
           Z == {e[1] : e \in zeros}
<1>6. IsFiniteSet(V) /\ V \subseteq Verse
  <2> DEFINE f == [bc \in chapters |-> In(bc)]
             all == {In(bc) : bc \in chapters}
  <2>1. \A x \in all : \E bc \in chapters : x = f[bc]
    OBVIOUS
  <2>2. \A T \in all : IsFiniteSet(T) /\ T \subseteq Verse
    BY <1>5
  <2>3. V = UNION all
    OBVIOUS
  <2> HIDE DEF f, all, V
  <2>4. IsFiniteSet(all)
    BY <1>3, <2>1, ImageIsFinite
  <2> QED
    BY <2>2, <2>3, <2>4, FS_UNION
<1>7. IsFiniteSet(Z) /\ Z \subseteq Verse
  <2> DEFINE f == [e \in zeros |-> e[1]]
  <2>1. zeros \in SUBSET scheme.edges /\ IsFiniteSet(scheme.edges)
    BY DEF EdgesOK
  <2>2. \A x \in Z : \E e \in zeros : x = f[e]
    OBVIOUS
  <2>3. Z \subseteq Verse
    BY DEF EdgesOK
  <2> HIDE DEF f, zeros, Z
  <2>4. IsFiniteSet(zeros)
    BY <2>1, FS_Subset
  <2> QED
    BY <2>2, <2>3, <2>4, ImageIsFinite
<1>8. verses(scheme) = Z \cup V
  BY DEF verses, chapters
<1> HIDE DEF V, Z
<1> QED
  BY <1>6, <1>7, <1>8, FS_Union

-----------------------------------------------------------------------------
(* A loaded document is a scheme. *)
LEMMA LoadsScheme ==
    ASSUME NEW doc, DocOK(doc)
    PROVE  SchemeOK(load_scheme(doc))
<1> DEFINE s == load_scheme(doc)
           lines == doc.mapped \cup doc.vrs
           places == {i \in DOMAIN doc.merged : doc.merged[i].hi > doc.merged[i].lo}
<1>1. /\ s.max = doc.max /\ s.has_vrs = doc.has_vrs
      /\ s.edges = UNION {_add(doc.max, line) : line \in lines}
      /\ s.bridges = Pick(doc.merged, places)
  BY DEF load_scheme
<1> HIDE DEF s
<1>2. MaxOK(s.max) /\ s.has_vrs \in BOOLEAN
  BY <1>1 DEF MaxOK, DocOK
<1>3. EdgesOK(s.edges)
  <2> DEFINE f == [line \in lines |-> _add(doc.max, line)]
             E == {_add(doc.max, line) : line \in lines}
  <2>1. \A line \in lines : EdgesOK(_add(doc.max, line))
    BY PairsAreVerses DEF DocOK
  <2>2. IsFiniteSet(lines) /\ \A T \in E : \E line \in lines : T = f[line]
    BY DEF DocOK
  <2>3. \A T \in E : IsFiniteSet(T) /\ T \subseteq Verse \X Verse
    BY <2>1 DEF EdgesOK
  <2>4. s.edges = UNION E
    BY <1>1
  <2> HIDE DEF f, E, lines
  <2>6. IsFiniteSet(E)
    BY <2>2, ImageIsFinite
  <2>7. IsFiniteSet(UNION E)
    BY <2>3, <2>6, FS_UNION
  <2> QED
    BY <2>3, <2>4, <2>7 DEF EdgesOK
<1>4. BridgesOK(s.bridges)
  <2>1. doc.merged \in Seq(ToSet(doc.merged)) /\ \A r \in ToSet(doc.merged) : RefOK(r)
    BY DEF DocOK
  <2>2. places \subseteq 1 .. Len(doc.merged) /\ Len(doc.merged) \in Nat
    BY <2>1
  <2>3. IsFiniteSet(places) /\ places \subseteq Nat
    <3>1. IsFiniteSet(1 .. Len(doc.merged)) /\ places \in SUBSET (1 .. Len(doc.merged))
      BY <2>2, FS_Interval
    <3>2. 1 .. Len(doc.merged) \subseteq Nat
      BY <2>2
    <3> HIDE DEF places
    <3>3. IsFiniteSet(places)
      BY <3>1, FS_Subset
    <3> QED
      BY <3>1, <3>2, <3>3
  <2>4. \A i \in places : Bridged(doc.merged[i])
    BY <2>1 DEF Bridged, RefOK, ToSet
  <2> HIDE DEF places
  <2> DEFINE t == Pick(doc.merged, places)
  <2>5. PICK f : Picks(t, doc.merged, places, Cardinality(places), f)
    BY <2>3, PicksPlaces
  <2> HIDE DEF t
  <2>6. \A r \in ToSet(t) : \E i \in places : r = doc.merged[i]
    BY SMTT(40), <2>5 DEF ToSet, Picks
  <2>7. t \in Seq(ToSet(t))
    BY <2>5 DEF ToSet, Picks
  <2>8. BridgesOK(t)
    BY <2>4, <2>6, <2>7 DEF BridgesOK
  <2> QED
    BY <1>1, <2>8 DEF t
<1> QED
  BY <1>2, <1>3, <1>4 DEF SchemeOK, s

(* So is what the stored text leaves of it. *)
LEMMA TextKeepsScheme ==
    ASSUME NEW doc, DocOK(doc), NEW spans, IsFiniteSet(spans),
           \A s \in spans : {s.book, s.chapter, s.verse, s.hi} \subseteq Nat
    PROVE  SchemeOK(apply_text_facts(load_scheme(doc), spans))
<1> DEFINE s == load_scheme(doc)
           t == apply_text_facts(s, spans)
           max == [b \in DOMAIN s.max \cap {x.book : x \in spans} |-> s.max[b]]
           At(x) == <<x.book, x.chapter, x.verse>>
           inside == {x \in spans : _exists(max, At(x)) }
           far == {x \in inside : x.hi > x.verse}
           Combined(x) == [book |-> x.book, chapter |-> x.chapter, lo |-> x.verse, hi |-> x.hi]
           new == {Combined(x) : x \in far}
<1>1. SchemeOK(s)
  BY LoadsScheme
<1>2. CASE spans = {}
  BY <1>1, <1>2 DEF apply_text_facts
<1>3. CASE spans # {}
  <2>1. /\ t.max = max /\ t.has_vrs = s.has_vrs /\ t.edges = s.edges
        /\ t.bridges = s.bridges \o SetToSeq(new)
    BY <1>3 DEF apply_text_facts, load_scheme
  <2> HIDE DEF s, t
  <2>2. MaxOK(max)
    <3>1. DOMAIN max \in SUBSET DOMAIN s.max /\ \A b \in DOMAIN max : max[b] = s.max[b]
      OBVIOUS
    <3> HIDE DEF max
    <3> QED
      BY <1>1, <3>1, FS_Subset DEF MaxOK, SchemeOK
  <2>3. IsFiniteSet(new) /\ \A r \in new : Bridged(r)
    <3> DEFINE f == [x \in far |-> Combined(x)]
    <3>1. far \in SUBSET spans
      OBVIOUS
    <3>2. IsFiniteSet(far)
      <4> HIDE DEF far
      <4> QED BY <3>1, FS_Subset
    <3>3. \A r \in new : \E x \in far : r = f[x]
      <4> HIDE DEF far
      <4> QED OBVIOUS
    <3>4. ASSUME NEW x \in far PROVE Bridged(Combined(x))
      <4>1. x \in spans /\ x.hi > x.verse
        BY DEF far
      <4>2. {x.book, x.chapter, x.verse, x.hi} \subseteq Nat
        BY <4>1
      <4> HIDE DEF far
      <4> QED
        BY <4>1, <4>2 DEF Bridged
    <3> HIDE DEF far
    <3>5. \A r \in new : Bridged(r)
      <4> HIDE DEF Combined
      <4> QED BY <3>4
    <3> HIDE DEF f, new
    <3> QED
      BY <3>2, <3>3, <3>5, ImageIsFinite
  <2> HIDE DEF new
  <2>4. SetToSeq(new) \in Seq(new)
    <3>1. Cardinality(new) \in Nat /\ ExistsBijection(1 .. Cardinality(new), new)
      BY <2>3, FS_CardinalityType
    <3>2. PICK g : g \in Bijection(1 .. Cardinality(new), new)
      BY <3>1 DEF ExistsBijection
    <3>3. g \in [1 .. Cardinality(new) -> new] /\ IsInjective(g)
      BY <3>2 DEF Bijection, Injection, IsInjective
    <3>4. SetToSeq(new) \in [1 .. Cardinality(new) -> new]
      BY <3>3 DEF SetToSeq
    <3> QED
      BY <3>1, <3>4, NumberedIsSeq
  <2>5. BridgesOK(s.bridges \o SetToSeq(new))
    <3> DEFINE S == ToSet(s.bridges) \cup new
               all == s.bridges \o SetToSeq(new)
    <3>1. s.bridges \in Seq(S) /\ SetToSeq(new) \in Seq(S)
      BY <1>1, <2>4 DEF SchemeOK, BridgesOK
    <3>2. all \in Seq(S) /\ \A r \in S : Bridged(r)
      BY <1>1, <2>3, <3>1 DEF SchemeOK, BridgesOK
    <3> HIDE DEF all, S
    <3>3. all \in Seq(ToSet(all)) /\ ToSet(all) \subseteq S
      BY <3>2 DEF ToSet
    <3>4. BridgesOK(all)
      BY <3>2, <3>3 DEF BridgesOK
    <3> QED
      BY <3>4 DEF all
  <2>6. SchemeOK(t)
    BY <1>1, <2>1, <2>2, <2>5 DEF SchemeOK
  <2> QED
    BY <2>6 DEF s, t
<1> QED
  BY <1>2, <1>3

-----------------------------------------------------------------------------
(* --- Components --- *)

(* The link of a verse, of every verse of a side; the nodes they join. *)
LinkOf(side, scheme, o, x) == {<<side, x>>} \cup {<<"O", y>> : y \in OrgOf(scheme, o, x)}
LinksOf(side, scheme, o) == {LinkOf(side, scheme, o, x) : x \in verses(scheme)}
AllLinks(a, b, o) == LinksOf("A", a, o) \cup LinksOf("B", b, o)
Nodes(a, b, o) == UNION AllLinks(a, b, o)

(* The links of a side are a sequence of the links of its verses. *)
LEMMA LinksAreListed ==
    ASSUME NEW scheme, SchemeOK(scheme), NEW o, NEW side
    PROVE  /\ Links(side, scheme, o) \in Seq(LinksOf(side, scheme, o))
           /\ ToSet(Links(side, scheme, o)) = LinksOf(side, scheme, o)
<1> DEFINE V == verses(scheme)
           s == Sorted(V)
           links == Links(side, scheme, o)
           n == Cardinality(V)
<1>1. IsFiniteSet(V) /\ V \subseteq Verse
  BY VersesAreFinite DEF SchemeOK
<1>2. s \in Seq(V) /\ ToSet(s) = V /\ DOMAIN s = 1 .. n /\ n \in Nat
  <2> HIDE DEF V
  <2> QED
    BY <1>1, SortsVerses
<1>3. links = [i \in 1 .. n |-> LinkOf(side, scheme, o, s[i])]
  BY <1>2 DEF Links, LinkOf
<1> HIDE DEF links, s, n
<1>4. \A i \in 1 .. n : s[i] \in V
  BY <1>2
<1>5. links \in [1 .. n -> LinksOf(side, scheme, o)]
  <2>1. \A i \in 1 .. n : links[i] = LinkOf(side, scheme, o, s[i])
    BY <1>3
  <2> QED
    BY <1>3, <1>4, <2>1 DEF LinksOf
<1>6. links \in Seq(LinksOf(side, scheme, o)) /\ Len(links) = n
  BY <1>2, <1>5, NumberedIsSeq
<1>7. \A x \in V : \E i \in 1 .. n : s[i] = x
  BY <1>2 DEF ToSet
<1>8. \A l \in LinksOf(side, scheme, o) : \E i \in 1 .. n : links[i] = l
  BY <1>3, <1>7 DEF LinksOf
<1>9. ToSet(links) = LinksOf(side, scheme, o)
  BY <1>5, <1>8 DEF ToSet
<1> QED
  BY <1>6, <1>9 DEF links

(* The components are what is joined by the links of both sides. *)
LEMMA ComponentsJoin ==
    ASSUME NEW a, SchemeOK(a), NEW b, SchemeOK(b), NEW o
    PROVE  Joined(Components(a, b, o), AllLinks(a, b, o), Nodes(a, b, o))
<1> DEFINE la == Links("A", a, o)
           lb == Links("B", b, o)
           links == la \o lb
           N == Nodes(a, b, o)
<1>1. /\ la \in Seq(LinksOf("A", a, o)) /\ ToSet(la) = LinksOf("A", a, o)
      /\ lb \in Seq(LinksOf("B", b, o)) /\ ToSet(lb) = LinksOf("B", b, o)
  BY LinksAreListed
<1> HIDE DEF la, lb
<1>2. la \in Seq(AllLinks(a, b, o)) /\ lb \in Seq(AllLinks(a, b, o))
  BY <1>1 DEF AllLinks
<1>3. links \in Seq(AllLinks(a, b, o)) /\ ToSet(links) = AllLinks(a, b, o)
  <2>1. /\ links \in Seq(AllLinks(a, b, o)) /\ Len(links) = Len(la) + Len(lb)
        /\ Len(la) \in Nat /\ Len(lb) \in Nat
    BY <1>2
  <2>2. \A i \in 1 .. Len(la) : links[i] = la[i] /\ i \in 1 .. Len(links)
    BY <1>2, <2>1
  <2>3. \A i \in 1 .. Len(lb) : links[Len(la) + i] = lb[i] /\ Len(la) + i \in 1 .. Len(links)
    BY <1>2, <2>1
  <2>4. ToSet(links) \subseteq AllLinks(a, b, o)
    <3> HIDE DEF links
    <3> QED BY <2>1 DEF ToSet
  <2> HIDE DEF links
  <2>5. DOMAIN links = 1 .. Len(links) /\ DOMAIN la = 1 .. Len(la) /\ DOMAIN lb = 1 .. Len(lb)
    BY <1>2, <2>1
  <2>6. ToSet(la) \subseteq ToSet(links) /\ ToSet(lb) \subseteq ToSet(links)
    BY <2>2, <2>3, <2>5 DEF ToSet
  <2> QED
    BY <1>1, <2>1, <2>4, <2>6 DEF AllLinks
<1> HIDE DEF links
<1>4. AllLinks(a, b, o) \subseteq SUBSET N
  BY DEF Nodes
<1>5. links \in Seq(SUBSET N) /\ N = UNION ToSet(links)
  BY <1>3, <1>4 DEF Nodes
<1>6. \A l \in AllLinks(a, b, o) : l # {}
  BY DEF AllLinks, LinksOf, LinkOf
<1>7. \A i \in 1 .. Len(links) : links[i] # {}
  BY <1>3, <1>6
<1> HIDE DEF N
<1>8. Joined(Parts(links), ToSet(links), N)
  BY <1>5, <1>7, PartsJoin
<1>9. Components(a, b, o) = Parts(links)
  BY DEF Components, links, la, lb
<1> QED
  BY <1>3, <1>8, <1>9 DEF N

(* What a component is, in terms of verses. *)
Meets(c, side, scheme, o) ==
    /\ \A x : <<side, x>> \in c =>
            x \in verses(scheme) /\ LinkOf(side, scheme, o, x) \subseteq c
    /\ \A x \in verses(scheme) : \A y \in OrgOf(scheme, o, x) :
            <<"O", y>> \in c => <<side, x>> \in c

(* Every verse has an org verse. *)
LEMMA OrgIsSome ==
    ASSUME NEW scheme, NEW o, NEW x PROVE OrgOf(scheme, o, x) # {}
<1>1. to_org(scheme, x) # {}
  BY DEF to_org, IsDefault
<1> QED
  BY <1>1 DEF OrgOf

(* A link holds its verse, the org verses of it, and nothing else. *)
LEMMA LinkHolds ==
    ASSUME NEW side, side # "O", NEW scheme, NEW o, NEW x
    PROVE  /\ <<side, x>> \in LinkOf(side, scheme, o, x)
           /\ \A y : <<"O", y>> \in LinkOf(side, scheme, o, x) <=> y \in OrgOf(scheme, o, x)
           /\ \A t, z : t # "O" /\ <<t, z>> \in LinkOf(side, scheme, o, x) => t = side /\ z = x
           /\ \A n \in LinkOf(side, scheme, o, x) : n = <<n[1], n[2]>> /\ n[1] \in {side, "O"}
<1>1. \A n : n \in LinkOf(side, scheme, o, x) <=>
                n = <<side, x>> \/ \E y \in OrgOf(scheme, o, x) : n = <<"O", y>>
  BY DEF LinkOf
<1>2. ASSUME NEW y PROVE <<"O", y>> \in LinkOf(side, scheme, o, x) <=> y \in OrgOf(scheme, o, x)
  <2>1. <<"O", y>> # <<side, x>>
    OBVIOUS
  <2>2. \A y_ : <<"O", y>> = <<"O", y_>> => y = y_
    OBVIOUS
  <2> QED
    BY <1>1, <2>1, <2>2
<1>3. ASSUME NEW t, NEW z, t # "O", <<t, z>> \in LinkOf(side, scheme, o, x) PROVE t = side /\ z = x
  <2>1. \A y_ : <<t, z>> # <<"O", y_>>
    BY <1>3
  <2>2. <<t, z>> = <<side, x>>
    BY <1>1, <1>3, <2>1
  <2> QED
    BY <2>2
<1>4. ASSUME NEW n \in LinkOf(side, scheme, o, x) PROVE n = <<n[1], n[2]>> /\ n[1] \in {side, "O"}
  BY <1>1
<1> QED
  BY <1>1, <1>2, <1>3, <1>4

(* Every verse is in one component, with its org verses; a component holds    *)
(* an org verse, and each of its org verses is that of a verse in it.         *)
LEMMA ComponentsMeet ==
    ASSUME NEW a, SchemeOK(a), NEW b, SchemeOK(b), NEW o
    PROVE  /\ \A c \in Components(a, b, o) :
                /\ Meets(c, "A", a, o) /\ Meets(c, "B", b, o)
                /\ \A n \in c : n = <<n[1], n[2]>> /\ n[1] \in {"A", "B", "O"}
                /\ \E y : <<"O", y>> \in c
                /\ \A y : <<"O", y>> \in c =>
                    \/ \E x \in verses(a) : y \in OrgOf(a, o, x) /\ <<"A", x>> \in c
                    \/ \E x \in verses(b) : y \in OrgOf(b, o, x) /\ <<"B", x>> \in c
           /\ \A x \in verses(a) : \E c \in Components(a, b, o) : <<"A", x>> \in c
           /\ \A x \in verses(b) : \E c \in Components(a, b, o) : <<"B", x>> \in c
           /\ \A c, d \in Components(a, b, o) : c # d => c \cap d = {}
<1> DEFINE L == AllLinks(a, b, o)
           C == Components(a, b, o)
<1>1. /\ UNION C = UNION L /\ {} \notin C /\ Disjoint(C)
      /\ \A c \in C : Closed(c, L)
  BY ComponentsJoin DEF Joined, Nodes
<1> HIDE DEF C
<1>2. /\ \A x \in verses(a) : LinkOf("A", a, o, x) \in L
      /\ \A x \in verses(b) : LinkOf("B", b, o, x) \in L
      /\ \A l \in L : \/ \E x \in verses(a) : l = LinkOf("A", a, o, x)
                      \/ \E x \in verses(b) : l = LinkOf("B", b, o, x)
  BY DEF AllLinks, LinksOf
<1> HIDE DEF L
<1>3. \A c \in C : \A n \in c : \E l \in L : n \in l
  BY <1>1
<1>4. \A c \in C, l \in L : \A n \in l : n \in c => l \subseteq c
  BY <1>1 DEF Closed
<1>5. \A side \in {"A", "B"} : \A s, x :
            /\ <<side, x>> \in LinkOf(side, s, o, x)
            /\ \A y : <<"O", y>> \in LinkOf(side, s, o, x) <=> y \in OrgOf(s, o, x)
            /\ \A t, z : t # "O" /\ <<t, z>> \in LinkOf(side, s, o, x) => t = side /\ z = x
            /\ \A n \in LinkOf(side, s, o, x) : n = <<n[1], n[2]>> /\ n[1] \in {"A", "B", "O"}
  <2> SUFFICES ASSUME NEW side \in {"A", "B"}, NEW s, NEW x
      PROVE /\ <<side, x>> \in LinkOf(side, s, o, x)
            /\ \A y : <<"O", y>> \in LinkOf(side, s, o, x) <=> y \in OrgOf(s, o, x)
            /\ \A t, z : t # "O" /\ <<t, z>> \in LinkOf(side, s, o, x) => t = side /\ z = x
            /\ \A n \in LinkOf(side, s, o, x) : n = <<n[1], n[2]>> /\ n[1] \in {"A", "B", "O"}
    OBVIOUS
  <2>1. side # "O"
    OBVIOUS
  <2> QED
    BY <2>1, LinkHolds
<1>6. ASSUME NEW c \in C PROVE Meets(c, "A", a, o)
  <2>1. ASSUME NEW x, <<"A", x>> \in c
        PROVE  x \in verses(a) /\ LinkOf("A", a, o, x) \subseteq c
    <3>1. PICK l \in L : <<"A", x>> \in l
      BY <1>3, <2>1
    <3>2. l \subseteq c
      BY <1>4, <2>1, <3>1
    <3>3. x \in verses(a) /\ l = LinkOf("A", a, o, x)
      <4>1. CASE \E z \in verses(a) : l = LinkOf("A", a, o, z)
        <5>1. PICK z \in verses(a) : l = LinkOf("A", a, o, z)
          BY <4>1
        <5>2. x = z
          BY <1>5, <3>1, <5>1
        <5> QED
          BY <5>1, <5>2
      <4>2. CASE \E z \in verses(b) : l = LinkOf("B", b, o, z)
        <5>1. PICK z \in verses(b) : l = LinkOf("B", b, o, z)
          BY <4>2
        <5>2. "A" = "B"
          BY <1>5, <3>1, <5>1
        <5> QED
          BY <5>2
      <4> QED
        BY <1>2, <4>1, <4>2
    <3> QED
      BY <3>2, <3>3
  <2>2. ASSUME NEW x \in verses(a), NEW y \in OrgOf(a, o, x), <<"O", y>> \in c
        PROVE  <<"A", x>> \in c
    <3>1. LinkOf("A", a, o, x) \subseteq c
      <4>1. LinkOf("A", a, o, x) \in L
        BY <1>2
      <4>2. <<"O", y>> \in LinkOf("A", a, o, x)
        BY <1>5
      <4> QED
        BY <1>4, <2>2, <4>1, <4>2
    <3> QED
      BY <1>5, <3>1
  <2> QED
    BY <2>1, <2>2 DEF Meets
<1>7. ASSUME NEW c \in C PROVE Meets(c, "B", b, o)
  <2>1. ASSUME NEW x, <<"B", x>> \in c
        PROVE  x \in verses(b) /\ LinkOf("B", b, o, x) \subseteq c
    <3>1. PICK l \in L : <<"B", x>> \in l
      BY <1>3, <2>1
    <3>2. l \subseteq c
      BY <1>4, <2>1, <3>1
    <3>3. x \in verses(b) /\ l = LinkOf("B", b, o, x)
      <4>1. CASE \E z \in verses(b) : l = LinkOf("B", b, o, z)
        <5>1. PICK z \in verses(b) : l = LinkOf("B", b, o, z)
          BY <4>1
        <5>2. x = z
          BY ZenonT(40), <1>5, <3>1, <5>1
        <5> QED
          BY <5>1, <5>2
      <4>2. CASE \E z \in verses(a) : l = LinkOf("A", a, o, z)
        <5>1. PICK z \in verses(a) : l = LinkOf("A", a, o, z)
          BY <4>2
        <5>2. "B" = "A"
          BY <1>5, <3>1, <5>1
        <5> QED
          BY <5>2
      <4> QED
        BY <1>2, <4>1, <4>2
    <3> QED
      BY <3>2, <3>3
  <2>2. ASSUME NEW x \in verses(b), NEW y \in OrgOf(b, o, x), <<"O", y>> \in c
        PROVE  <<"B", x>> \in c
    <3>1. LinkOf("B", b, o, x) \subseteq c
      <4>1. LinkOf("B", b, o, x) \in L
        BY <1>2
      <4>2. <<"O", y>> \in LinkOf("B", b, o, x)
        BY <1>5
      <4> QED
        BY <1>4, <2>2, <4>1, <4>2
    <3> QED
      BY <1>5, <3>1
  <2> QED
    BY <2>1, <2>2 DEF Meets
<1>8. ASSUME NEW c \in C, NEW n \in c
      PROVE  n = <<n[1], n[2]>> /\ n[1] \in {"A", "B", "O"}
  <2>1. PICK l \in L : n \in l
    BY <1>3
  <2>2. CASE \E x \in verses(a) : l = LinkOf("A", a, o, x)
    <3>1. PICK x \in verses(a) : l = LinkOf("A", a, o, x)
      BY <2>2
    <3>2. n \in LinkOf("A", a, o, x)
      BY <2>1, <3>1
    <3> QED
      BY <1>5, <3>2
  <2>3. CASE \E x \in verses(b) : l = LinkOf("B", b, o, x)
    <3>1. PICK x \in verses(b) : l = LinkOf("B", b, o, x)
      BY <2>3
    <3>2. n \in LinkOf("B", b, o, x)
      BY <2>1, <3>1
    <3> QED
      BY <1>5, <3>2
  <2> QED
    BY <1>2, <2>1, <2>2, <2>3
<1>9. ASSUME NEW c \in C PROVE \E y : <<"O", y>> \in c
  <2>1. PICK n : n \in c
    BY <1>1
  <2>2. PICK l \in L : n \in l
    BY <1>3, <2>1
  <2>3. l \subseteq c
    BY <1>4, <2>1, <2>2
  <2>4. \E y : <<"O", y>> \in l
    <3>1. CASE \E x \in verses(a) : l = LinkOf("A", a, o, x)
      <4>1. PICK x \in verses(a) : l = LinkOf("A", a, o, x)
        BY <3>1
      <4>2. PICK y : y \in OrgOf(a, o, x)
        BY OrgIsSome
      <4> QED
        BY <1>5, <4>1, <4>2
    <3>2. CASE \E x \in verses(b) : l = LinkOf("B", b, o, x)
      <4>1. PICK x \in verses(b) : l = LinkOf("B", b, o, x)
        BY <3>2
      <4>2. PICK y : y \in OrgOf(b, o, x)
        BY OrgIsSome
      <4> QED
        BY <1>5, <4>1, <4>2
    <3> QED
      BY <1>2, <2>2, <3>1, <3>2
  <2> QED
    BY <2>3, <2>4
<1>10. ASSUME NEW c \in C, NEW y, <<"O", y>> \in c
       PROVE  \/ \E x \in verses(a) : y \in OrgOf(a, o, x) /\ <<"A", x>> \in c
              \/ \E x \in verses(b) : y \in OrgOf(b, o, x) /\ <<"B", x>> \in c
  <2>1. PICK l \in L : <<"O", y>> \in l
    BY <1>3, <1>10
  <2>2. l \subseteq c
    BY <1>4, <1>10, <2>1
  <2>3. CASE \E x \in verses(a) : l = LinkOf("A", a, o, x)
    BY <1>5, <2>1, <2>2, <2>3
  <2>4. CASE \E x \in verses(b) : l = LinkOf("B", b, o, x)
    BY <1>5, <2>1, <2>2, <2>4
  <2> QED
    BY <1>2, <2>3, <2>4
<1>11. ASSUME NEW l \in L, NEW n \in l PROVE \E c \in C : n \in c
  BY <1>1
<1>12. /\ \A x \in verses(a) : \E c \in C : <<"A", x>> \in c
       /\ \A x \in verses(b) : \E c \in C : <<"B", x>> \in c
  BY <1>2, <1>5, <1>11
<1>13. \A c, d \in C : c # d => c \cap d = {}
  BY <1>1 DEF Disjoint
<1> QED
  BY <1>6, <1>7, <1>8, <1>9, <1>10, <1>12, <1>13 DEF C

-----------------------------------------------------------------------------
(* --- Pieces of a relation (split_alternates) --- *)

(* A relation before and after the first pass. *)
RAW == {"A", "O", "B", "flags", "warn"}
FULL == RAW \cup {"Ap", "Bp", "rel", "type", "etype"}
Record(r, F) == r = [x \in F |-> r[x]]
Raw(r) == Record(r, RAW)
Full(r) == Record(r, FULL)

(* The relation of a component has the verses in it, each on its side. *)
LEMMA RelationHas ==
    ASSUME NEW c, \A n \in c : n = <<n[1], n[2]>> /\ n[1] \in {"A", "B", "O"},
           NEW a, NEW b, NEW o
    PROVE  /\ Raw(RelationOf(c, a, b, o))
           /\ \A x : /\ x \in RelationOf(c, a, b, o).A <=> <<"A", x>> \in c
                     /\ x \in RelationOf(c, a, b, o).B <=> <<"B", x>> \in c
                     /\ x \in RelationOf(c, a, b, o).O <=> <<"O", x>> \in c
<1> DEFINE r == RelationOf(c, a, b, o)
           At(side) == {n[2] : n \in {x \in c : x[1] = side}}
<1>1. Raw(r) /\ r.A = At("A") /\ r.B = At("B") /\ r.O = At("O")
  BY DEF RelationOf, Raw, Record, RAW
<1>2. ASSUME NEW side, NEW x PROVE x \in At(side) <=> <<side, x>> \in c
  <2>1. ASSUME x \in At(side) PROVE <<side, x>> \in c
    <3>1. PICK n \in c : n[1] = side /\ n[2] = x
      BY <2>1
    <3>2. n = <<n[1], n[2]>>
      OBVIOUS
    <3> QED
      BY <3>1, <3>2
  <2>2. ASSUME <<side, x>> \in c PROVE x \in At(side)
    <3>1. <<side, x>>[1] = side /\ <<side, x>>[2] = x
      OBVIOUS
    <3> QED
      BY <2>2, <3>1
  <2> QED
    BY <2>1, <2>2
<1> HIDE DEF r, At
<1> QED
  BY <1>1, <1>2 DEF r

(* Two sets of verses in one book each, another one each. *)
OneBook(S) == \A x, y \in S : x[1] = y[1]
Apart(S, T) == /\ {} \notin {S, T} /\ OneBook(S) /\ OneBook(T)
               /\ \A x \in S, y \in T : x[1] # y[1]

(* Two relations share no verse, or all of one side and no book of the other. *)
Beside(r, s) ==
    \/ r.A \cap s.A = {} /\ r.B \cap s.B = {}
    \/ r.A = s.A /\ r.A # {} /\ Apart(r.B, s.B)
    \/ r.B = s.B /\ r.B # {} /\ Apart(r.A, s.A)
Laid(rs) == \A r, s \in rs : r # s => Beside(r, s)

CopyOf(c, r, as, bs, w) ==
    /\ Raw(c) /\ c.A = as /\ c.B = bs /\ c.warn = w /\ c.O = r.O /\ c.flags = r.flags

(* A copy has the verses given and the rest of the relation. *)
LEMMA CopyHas ==
    ASSUME NEW r, Raw(r), NEW as, NEW bs, NEW w
    PROVE  CopyOf(Copy(r, as, bs, w), r, as, bs, w)
<1> DEFINE c == Copy(r, as, bs, w)
<1>1. c = [x \in RAW |-> IF x = "warn" THEN w ELSE IF x = "B" THEN bs
                        ELSE IF x = "A" THEN as ELSE r[x]]
  BY DEF Copy, Raw, Record
<1> HIDE DEF c
<1>2. Raw(c) /\ \A x \in RAW : c[x] = IF x = "warn" THEN w ELSE IF x = "B" THEN bs
                                    ELSE IF x = "A" THEN as ELSE r[x]
  BY <1>1 DEF Raw, Record
<1>3. "A" \in RAW /\ "B" \in RAW /\ "warn" \in RAW /\ "O" \in RAW /\ "flags" \in RAW
  BY DEF RAW
<1>4. c.A = as /\ c.B = bs /\ c.O = r.O /\ c.flags = r.flags /\ c.warn = w
  BY <1>2, <1>3
<1> QED
  BY <1>2, <1>4 DEF c, CopyOf

HalfOf(s, r, k, side) ==
    /\ Raw(s) /\ s.O = r.O /\ s.flags = r.flags
    /\ side = "A" => /\ s.A \subseteq r.A /\ s.B = r.B /\ s.A # {}
                     /\ \A x \in s.A : x[1] = k
    /\ side = "B" => /\ s.B \subseteq r.B /\ s.A = r.A /\ s.B # {}
                     /\ \A x \in s.B : x[1] = k

(* The pieces of a relation lie beside each other: no two share a verse of    *)
(* the same side or the same books on both.                                   *)
LEMMA SplitsLaid ==
    ASSUME NEW r, Raw(r), r.A # {} \/ r.B # {}
    PROVE  /\ Laid(split_alternates(r))
           /\ \A s \in split_alternates(r) :
                /\ Raw(s) /\ s.A \subseteq r.A /\ s.B \subseteq r.B /\ s.O = r.O
                /\ s.flags = r.flags /\ (s.A # {} \/ s.B # {})
                /\ {} \notin {r.A, r.B} => {} \notin {s.A, s.B}
<1> DEFINE common == BooksOf(r.A) \cap BooksOf(r.B)
           leftA == {x \in r.A : x[1] \notin common}
           leftB == {x \in r.B : x[1] \notin common}
           paired == {Copy(r, InBook(r.A, k), InBook(r.B, k), FALSE) : k \in common}
           left_ == Copy(r, leftA, leftB, r.warn)
           split == split_alternates(r)
<1>1. \A as, bs, w : CopyOf(Copy(r, as, bs, w), r, as, bs, w)
  BY CopyHas
<1>2. ASSUME NEW S, NEW k \in BooksOf(S)
      PROVE  InBook(S, k) # {} /\ InBook(S, k) \subseteq S /\ \A x \in InBook(S, k) : x[1] = k
  BY DEF BooksOf, InBook
<1>3. CASE split = {r}
  BY <1>3 DEF Laid
<1>4. CASE {} \notin {r.A, r.B} /\ common # {}
           /\ split = paired \cup {left_ : x \in IF {} \in {leftA, leftB} THEN {} ELSE {0}}
  <2>1. ASSUME NEW s \in split
        PROVE  \/ \E k \in common : s = Copy(r, InBook(r.A, k), InBook(r.B, k), FALSE)
               \/ s = left_ /\ {} \notin {leftA, leftB}
    <3>1. s \in paired \/ s \in {left_ : x \in IF {} \in {leftA, leftB} THEN {} ELSE {0}}
      BY <1>4
    <3>2. CASE s \in paired
      BY <3>2
    <3>3. CASE s \in {left_ : x \in IF {} \in {leftA, leftB} THEN {} ELSE {0}}
      BY <3>3
    <3> QED
      BY <3>1, <3>2, <3>3
  <2>2. \A k \in common : k \in BooksOf(r.A) /\ k \in BooksOf(r.B)
    OBVIOUS
  <2>3. /\ leftA \subseteq r.A /\ leftB \subseteq r.B
        /\ \A x \in leftA : x[1] \notin common
        /\ \A x \in leftB : x[1] \notin common
    OBVIOUS
  <2> HIDE DEF common, leftA, leftB, split
  <2>4. ASSUME NEW s \in split
        PROVE  /\ Raw(s) /\ s.A \subseteq r.A /\ s.B \subseteq r.B /\ s.O = r.O
               /\ s.flags = r.flags /\ {} \notin {s.A, s.B}
    <3>1. CASE \E k \in common : s = Copy(r, InBook(r.A, k), InBook(r.B, k), FALSE)
      <4>1. PICK k \in common : s = Copy(r, InBook(r.A, k), InBook(r.B, k), FALSE)
        BY <3>1
      <4>3. CopyOf(s, r, InBook(r.A, k), InBook(r.B, k), FALSE)
        BY <1>1, <4>1
      <4>2. s.A = InBook(r.A, k) /\ s.B = InBook(r.B, k) /\ Raw(s) /\ s.O = r.O /\ s.flags = r.flags
        BY <4>3 DEF CopyOf
      <4> QED
        BY <1>2, <2>2, <4>2
    <3>2. CASE s = left_ /\ {} \notin {leftA, leftB}
      <4>3. CopyOf(s, r, leftA, leftB, r.warn)
        BY <1>1, <3>2
      <4>1. s.A = leftA /\ s.B = leftB /\ Raw(s) /\ s.O = r.O /\ s.flags = r.flags
        BY <4>3 DEF CopyOf
      <4> QED
        BY <2>3, <3>2, <4>1
    <3> QED
      BY <2>1, <3>1, <3>2
  <2>5. ASSUME NEW s \in split, NEW t \in split, s # t
        PROVE  s.A \cap t.A = {} /\ s.B \cap t.B = {}
    <3>1. ASSUME NEW k \in common, NEW p, p = Copy(r, InBook(r.A, k), InBook(r.B, k), FALSE)
          PROVE  /\ \A x \in p.A : x[1] = k
                 /\ \A x \in p.B : x[1] = k
      <4>2. CopyOf(p, r, InBook(r.A, k), InBook(r.B, k), FALSE)
        BY <1>1, <3>1
      <4>1. p.A = InBook(r.A, k) /\ p.B = InBook(r.B, k)
        BY <4>2 DEF CopyOf
      <4> QED
        BY <1>2, <2>2, <4>1
    <3>2. ASSUME NEW p, p = left_
          PROVE  /\ \A x \in p.A : x[1] \notin common
                 /\ \A x \in p.B : x[1] \notin common
      <4>2. CopyOf(p, r, leftA, leftB, r.warn)
        BY <1>1, <3>2
      <4>1. p.A = leftA /\ p.B = leftB
        BY <4>2 DEF CopyOf
      <4> QED
        BY <2>3, <4>1
    <3>3. CASE \E k, l \in common : /\ s = Copy(r, InBook(r.A, k), InBook(r.B, k), FALSE)
                                    /\ t = Copy(r, InBook(r.A, l), InBook(r.B, l), FALSE)
      <4>1. PICK k, l \in common : /\ s = Copy(r, InBook(r.A, k), InBook(r.B, k), FALSE)
                                   /\ t = Copy(r, InBook(r.A, l), InBook(r.B, l), FALSE)
        BY <3>3
      <4>2. k # l
        BY <2>5, <4>1
      <4>3. /\ \A x \in s.A : x[1] = k
            /\ \A x \in s.B : x[1] = k
            /\ \A x \in t.A : x[1] = l
            /\ \A x \in t.B : x[1] = l
        BY <3>1, <4>1
      <4> QED
        BY <4>2, <4>3
    <3>4. CASE t = left_ /\ \E k \in common : s = Copy(r, InBook(r.A, k), InBook(r.B, k), FALSE)
      <4>1. PICK k \in common : s = Copy(r, InBook(r.A, k), InBook(r.B, k), FALSE)
        BY <3>4
      <4>2. (\A x \in s.A : x[1] = k) /\ \A x \in s.B : x[1] = k
        BY <3>1, <4>1
      <4>3. (\A x \in t.A : x[1] \notin common) /\ \A x \in t.B : x[1] \notin common
        BY <3>2, <3>4
      <4> QED
        BY <4>2, <4>3
    <3>5. CASE s = left_ /\ \E k \in common : t = Copy(r, InBook(r.A, k), InBook(r.B, k), FALSE)
      <4>1. PICK k \in common : t = Copy(r, InBook(r.A, k), InBook(r.B, k), FALSE)
        BY <3>5
      <4>2. (\A x \in t.A : x[1] = k) /\ \A x \in t.B : x[1] = k
        BY <3>1, <4>1
      <4>3. (\A x \in s.A : x[1] \notin common) /\ \A x \in s.B : x[1] \notin common
        BY <3>2, <3>5
      <4> QED
        BY <4>2, <4>3
    <3> QED
      BY <2>1, <2>5, <3>3, <3>4, <3>5
  <2> QED
    BY <2>4, <2>5 DEF Laid, Beside, split
<1>5. CASE {} \notin {r.A, r.B}
           /\ split = {Copy(r, InBook(r.A, k), r.B, FALSE) : k \in BooksOf(r.A)}
  <2>1. ASSUME NEW s \in split
        PROVE  \E k \in BooksOf(r.A) : s = Copy(r, InBook(r.A, k), r.B, FALSE)
    BY <1>5
  <2>2. ASSUME NEW k \in BooksOf(r.A) PROVE HalfOf(Copy(r, InBook(r.A, k), r.B, FALSE), r, k, "A")
    <3> DEFINE s == Copy(r, InBook(r.A, k), r.B, FALSE)
    <3>1. CopyOf(s, r, InBook(r.A, k), r.B, FALSE)
      BY <1>1
    <3>2. InBook(r.A, k) # {} /\ InBook(r.A, k) \subseteq r.A /\ \A x \in InBook(r.A, k) : x[1] = k
      BY <1>2
    <3> HIDE DEF s
    <3>3. HalfOf(s, r, k, "A")
      BY <3>1, <3>2 DEF CopyOf, HalfOf
    <3> QED
      BY <3>3 DEF s
  <2> HIDE DEF split
  <2>3. ASSUME NEW s \in split, NEW t \in split, s # t
        PROVE  s.B = t.B /\ s.B # {} /\ Apart(s.A, t.A)
    <3>1. PICK k \in BooksOf(r.A) : s = Copy(r, InBook(r.A, k), r.B, FALSE)
      BY <2>1
    <3>2. PICK l \in BooksOf(r.A) : t = Copy(r, InBook(r.A, l), r.B, FALSE)
      BY <2>1
    <3>3. k # l
      BY <2>3, <3>1, <3>2
    <3>7. HalfOf(s, r, k, "A") /\ HalfOf(t, r, l, "A")
      BY <2>2, <3>1, <3>2
    <3>4. /\ s.B = r.B /\ s.A # {} /\ \A x \in s.A : x[1] = k
          /\ t.B = r.B /\ t.A # {} /\ \A x \in t.A : x[1] = l
      BY <3>7 DEF HalfOf
    <3> QED
      BY <1>5, <3>3, <3>4 DEF Apart, OneBook
  <2>4. ASSUME NEW s \in split
        PROVE  /\ Raw(s) /\ s.A \subseteq r.A /\ s.B = r.B /\ s.O = r.O
               /\ s.flags = r.flags /\ s.A # {}
    <3>1. PICK k \in BooksOf(r.A) : s = Copy(r, InBook(r.A, k), r.B, FALSE)
      BY <2>1
    <3>2. HalfOf(s, r, k, "A")
      BY <2>2, <3>1
    <3> QED
      BY <3>2 DEF HalfOf
  <2> QED
    BY <1>5, <2>3, <2>4 DEF Laid, Beside, split
<1>6. CASE {} \notin {r.A, r.B}
           /\ split = {Copy(r, r.A, InBook(r.B, k), FALSE) : k \in BooksOf(r.B)}
  <2>1. ASSUME NEW s \in split
        PROVE  \E k \in BooksOf(r.B) : s = Copy(r, r.A, InBook(r.B, k), FALSE)
    BY <1>6
  <2>2. ASSUME NEW k \in BooksOf(r.B) PROVE HalfOf(Copy(r, r.A, InBook(r.B, k), FALSE), r, k, "B")
    <3> DEFINE s == Copy(r, r.A, InBook(r.B, k), FALSE)
    <3>1. CopyOf(s, r, r.A, InBook(r.B, k), FALSE)
      BY <1>1
    <3>2. InBook(r.B, k) # {} /\ InBook(r.B, k) \subseteq r.B /\ \A x \in InBook(r.B, k) : x[1] = k
      BY <1>2
    <3> HIDE DEF s
    <3>3. HalfOf(s, r, k, "B")
      BY <3>1, <3>2 DEF CopyOf, HalfOf
    <3> QED
      BY <3>3 DEF s
  <2> HIDE DEF split
  <2>3. ASSUME NEW s \in split, NEW t \in split, s # t
        PROVE  s.A = t.A /\ s.A # {} /\ Apart(s.B, t.B)
    <3>1. PICK k \in BooksOf(r.B) : s = Copy(r, r.A, InBook(r.B, k), FALSE)
      BY <2>1
    <3>2. PICK l \in BooksOf(r.B) : t = Copy(r, r.A, InBook(r.B, l), FALSE)
      BY <2>1
    <3>3. k # l
      BY <2>3, <3>1, <3>2
    <3>7. HalfOf(s, r, k, "B") /\ HalfOf(t, r, l, "B")
      BY <2>2, <3>1, <3>2
    <3>4. /\ s.A = r.A /\ s.B # {} /\ \A x \in s.B : x[1] = k
          /\ t.A = r.A /\ t.B # {} /\ \A x \in t.B : x[1] = l
      BY <3>7 DEF HalfOf
    <3> QED
      BY <1>6, <3>3, <3>4 DEF Apart, OneBook
  <2>4. ASSUME NEW s \in split
        PROVE  /\ Raw(s) /\ s.B \subseteq r.B /\ s.A = r.A /\ s.O = r.O
               /\ s.flags = r.flags /\ s.B # {}
    <3>1. PICK k \in BooksOf(r.B) : s = Copy(r, r.A, InBook(r.B, k), FALSE)
      BY <2>1
    <3>2. HalfOf(s, r, k, "B")
      BY <2>2, <3>1
    <3> QED
      BY <3>2 DEF HalfOf
  <2> QED
    BY <1>6, <2>3, <2>4 DEF Laid, Beside, split
<1>7. \/ split = {r}
      \/ {} \notin {r.A, r.B} /\ common # {}
         /\ split = paired \cup {left_ : x \in IF {} \in {leftA, leftB} THEN {} ELSE {0}}
      \/ {} \notin {r.A, r.B}
         /\ split = {Copy(r, InBook(r.A, k), r.B, FALSE) : k \in BooksOf(r.A)}
      \/ {} \notin {r.A, r.B}
         /\ split = {Copy(r, r.A, InBook(r.B, k), FALSE) : k \in BooksOf(r.B)}
  BY DEF split_alternates
<1> QED
  BY <1>3, <1>4, <1>5, <1>6, <1>7

(* What a split leaves out. *)
LeavesOut(split, r, x, side) ==
    \E s \in split :
        /\ {} \notin {s.A, s.B} /\ s.O = r.O
        /\ \A y \in IF side = "A" THEN r.B ELSE r.A :
                /\ y[1] # x[1]
                /\ \E t \in split : y \in IF side = "A" THEN t.B ELSE t.A

(* A split leaves out a verse only when the other side has none over for      *)
(* it.                                                                        *)
LEMMA SplitLoses ==
    ASSUME NEW r, Raw(r)
    PROVE  /\ \A x \in r.A : \/ \E s \in split_alternates(r) : x \in s.A
                             \/ LeavesOut(split_alternates(r), r, x, "A")
           /\ \A x \in r.B : \/ \E s \in split_alternates(r) : x \in s.B
                             \/ LeavesOut(split_alternates(r), r, x, "B")
<1> DEFINE common == BooksOf(r.A) \cap BooksOf(r.B)
           leftA == {x \in r.A : x[1] \notin common}
           leftB == {x \in r.B : x[1] \notin common}
           paired == {Copy(r, InBook(r.A, k), InBook(r.B, k), FALSE) : k \in common}
           left_ == Copy(r, leftA, leftB, r.warn)
           split == split_alternates(r)
<1>1. \A as, bs, w : CopyOf(Copy(r, as, bs, w), r, as, bs, w)
  BY CopyHas
<1>2. \A S : \A x \in S : x \in InBook(S, x[1]) /\ x[1] \in BooksOf(S)
  BY DEF BooksOf, InBook
<1>3. CASE split = {r}
  BY <1>3
<1>4. CASE {} \notin {r.A, r.B} /\ common # {}
           /\ split = paired \cup {left_ : x \in IF {} \in {leftA, leftB} THEN {} ELSE {0}}
  <2>1. ASSUME NEW k \in common
        PROVE  \E s \in split : CopyOf(s, r, InBook(r.A, k), InBook(r.B, k), FALSE)
    <3>1. Copy(r, InBook(r.A, k), InBook(r.B, k), FALSE) \in split
      BY <1>4
    <3> QED
      BY <1>1, <3>1
  <2>2. {} \notin {leftA, leftB} => \E s \in split : CopyOf(s, r, leftA, leftB, r.warn)
    <3> SUFFICES ASSUME {} \notin {leftA, leftB}
                 PROVE  \E s \in split : CopyOf(s, r, leftA, leftB, r.warn)
      OBVIOUS
    <3>1. left_ \in split
      BY <1>4
    <3> QED
      BY <1>1, <3>1
  <2>3. /\ \A x \in r.A : x[1] \notin common => x \in leftA
        /\ \A x \in r.B : x[1] \notin common => x \in leftB
        /\ \A x \in leftA : x \in r.A /\ x[1] \notin common
        /\ \A x \in leftB : x \in r.B /\ x[1] \notin common
    OBVIOUS
  <2>4. \A k \in common : k \in BooksOf(r.A) /\ k \in BooksOf(r.B)
    OBVIOUS
  <2>5. PICK k0 : k0 \in common
    BY <1>4
  <2>6. PICK s0 \in split : CopyOf(s0, r, InBook(r.A, k0), InBook(r.B, k0), FALSE)
    BY <2>1, <2>5
  <2>7. {} \notin {s0.A, s0.B} /\ s0.O = r.O
    <3>1. s0.A = InBook(r.A, k0) /\ s0.B = InBook(r.B, k0) /\ s0.O = r.O
      BY <2>6 DEF CopyOf
    <3>2. InBook(r.A, k0) # {} /\ InBook(r.B, k0) # {}
      BY <2>4, <2>5 DEF InBook, BooksOf
    <3> QED
      BY <3>1, <3>2
  <2> HIDE DEF common, leftA, leftB, split
  <2>8. ASSUME NEW x \in r.A PROVE (\E s \in split : x \in s.A) \/ LeavesOut(split, r, x, "A")
    <3>1. CASE x[1] \in common
      <4>1. PICK s \in split : CopyOf(s, r, InBook(r.A, x[1]), InBook(r.B, x[1]), FALSE)
        BY <2>1, <3>1
      <4>2. s.A = InBook(r.A, x[1])
        BY <4>1 DEF CopyOf
      <4> QED
        BY <1>2, <4>2
    <3>2. CASE x[1] \notin common /\ leftB # {}
      <4>1. x \in leftA
        BY <2>3, <3>2
      <4>2. PICK s \in split : CopyOf(s, r, leftA, leftB, r.warn)
        BY <2>2, <3>2, <4>1
      <4>3. s.A = leftA
        BY <4>2 DEF CopyOf
      <4> QED
        BY <4>1, <4>3
    <3>3. CASE x[1] \notin common /\ leftB = {}
      <4>1. ASSUME NEW y \in r.B PROVE y[1] # x[1] /\ \E t \in split : y \in t.B
        <5>1. y[1] \in common
          BY <2>3, <3>3
        <5>2. PICK s \in split : CopyOf(s, r, InBook(r.A, y[1]), InBook(r.B, y[1]), FALSE)
          BY <2>1, <5>1
        <5>3. s.B = InBook(r.B, y[1])
          BY <5>2 DEF CopyOf
        <5> QED
          BY <1>2, <3>3, <5>1, <5>3
      <4> QED
        BY <2>7, <4>1 DEF LeavesOut
    <3> QED
      BY <3>1, <3>2, <3>3
  <2>9. ASSUME NEW x \in r.B PROVE (\E s \in split : x \in s.B) \/ LeavesOut(split, r, x, "B")
    <3>1. CASE x[1] \in common
      <4>1. PICK s \in split : CopyOf(s, r, InBook(r.A, x[1]), InBook(r.B, x[1]), FALSE)
        BY <2>1, <3>1
      <4>2. s.B = InBook(r.B, x[1])
        BY <4>1 DEF CopyOf
      <4> QED
        BY <1>2, <4>2
    <3>2. CASE x[1] \notin common /\ leftA # {}
      <4>1. x \in leftB
        BY <2>3, <3>2
      <4>2. PICK s \in split : CopyOf(s, r, leftA, leftB, r.warn)
        BY <2>2, <3>2, <4>1
      <4>3. s.B = leftB
        BY <4>2 DEF CopyOf
      <4> QED
        BY <4>1, <4>3
    <3>3. CASE x[1] \notin common /\ leftA = {}
      <4>1. ASSUME NEW y \in r.A PROVE y[1] # x[1] /\ \E t \in split : y \in t.A
        <5>1. y[1] \in common
          BY <2>3, <3>3
        <5>2. PICK s \in split : CopyOf(s, r, InBook(r.A, y[1]), InBook(r.B, y[1]), FALSE)
          BY <2>1, <5>1
        <5>3. s.A = InBook(r.A, y[1])
          BY <5>2 DEF CopyOf
        <5> QED
          BY <1>2, <3>3, <5>1, <5>3
      <4> QED
        BY <2>7, <4>1 DEF LeavesOut
    <3> QED
      BY <3>1, <3>2, <3>3
  <2> QED
    BY <2>8, <2>9 DEF split
<1>5. CASE {} \notin {r.A, r.B}
           /\ split = {Copy(r, InBook(r.A, k), r.B, FALSE) : k \in BooksOf(r.A)}
  <2>1. ASSUME NEW k \in BooksOf(r.A)
        PROVE  \E s \in split : CopyOf(s, r, InBook(r.A, k), r.B, FALSE)
    BY <1>1, <1>5
  <2> HIDE DEF split
  <2>2. ASSUME NEW x \in r.A PROVE \E s \in split : x \in s.A
    <3>1. PICK s \in split : CopyOf(s, r, InBook(r.A, x[1]), r.B, FALSE)
      BY <1>2, <2>1
    <3>2. s.A = InBook(r.A, x[1])
      BY <3>1 DEF CopyOf
    <3> QED
      BY <1>2, <3>2
  <2>3. ASSUME NEW x \in r.B PROVE \E s \in split : x \in s.B
    <3>1. PICK z \in r.A : TRUE
      BY <1>5
    <3>2. PICK s \in split : CopyOf(s, r, InBook(r.A, z[1]), r.B, FALSE)
      BY <1>2, <2>1
    <3>3. s.B = r.B
      BY <3>2 DEF CopyOf
    <3> QED
      BY <3>3
  <2> QED
    BY <2>2, <2>3 DEF split
<1>6. CASE {} \notin {r.A, r.B}
           /\ split = {Copy(r, r.A, InBook(r.B, k), FALSE) : k \in BooksOf(r.B)}
  <2>1. ASSUME NEW k \in BooksOf(r.B)
        PROVE  \E s \in split : CopyOf(s, r, r.A, InBook(r.B, k), FALSE)
    BY <1>1, <1>6
  <2> HIDE DEF split
  <2>2. ASSUME NEW x \in r.B PROVE \E s \in split : x \in s.B
    <3>1. PICK s \in split : CopyOf(s, r, r.A, InBook(r.B, x[1]), FALSE)
      BY <1>2, <2>1
    <3>2. s.B = InBook(r.B, x[1])
      BY <3>1 DEF CopyOf
    <3> QED
      BY <1>2, <3>2
  <2>3. ASSUME NEW x \in r.A PROVE \E s \in split : x \in s.A
    <3>1. PICK z \in r.B : TRUE
      BY <1>6
    <3>2. PICK s \in split : CopyOf(s, r, r.A, InBook(r.B, z[1]), FALSE)
      BY <1>2, <2>1
    <3>3. s.A = r.A
      BY <3>2 DEF CopyOf
    <3> QED
      BY <3>3
  <2> QED
    BY <2>2, <2>3 DEF split
<1>7. \/ split = {r}
      \/ {} \notin {r.A, r.B} /\ common # {}
         /\ split = paired \cup {left_ : x \in IF {} \in {leftA, leftB} THEN {} ELSE {0}}
      \/ {} \notin {r.A, r.B}
         /\ split = {Copy(r, InBook(r.A, k), r.B, FALSE) : k \in BooksOf(r.A)}
      \/ {} \notin {r.A, r.B}
         /\ split = {Copy(r, r.A, InBook(r.B, k), FALSE) : k \in BooksOf(r.B)}
  BY DEF split_alternates
<1> QED
  BY <1>3, <1>4, <1>5, <1>6, <1>7

(* The relations of the components, before and after the split. *)
Whole(a, b, o) == {RelationOf(c, a, b, o) : c \in Components(a, b, o)}
Pieces(a, b, o) == UNION {split_alternates(r) : r \in Whole(a, b, o)}

WholeHas(r, a, b, o) ==
    /\ Raw(r) /\ r.A \subseteq verses(a) /\ r.B \subseteq verses(b)
    /\ (r.A # {} \/ r.B # {}) /\ r.O # {}
    /\ \A x \in r.A : OrgOf(a, o, x) \subseteq r.O
    /\ \A x \in r.B : OrgOf(b, o, x) \subseteq r.O
    /\ \A x \in verses(a) : OrgOf(a, o, x) \cap r.O # {} => x \in r.A
    /\ \A x \in verses(b) : OrgOf(b, o, x) \cap r.O # {} => x \in r.B

WholeOf(r, c) ==
    \A x : /\ x \in r.A <=> <<"A", x>> \in c
           /\ x \in r.B <=> <<"B", x>> \in c
           /\ x \in r.O <=> <<"O", x>> \in c

(* The relations before they are split: one for each component, every verse   *)
(* in one of them, none in two.                                               *)
LEMMA WholesAre ==
    ASSUME NEW a, SchemeOK(a), NEW b, SchemeOK(b), NEW o
    PROVE  /\ \A r \in Whole(a, b, o) : WholeHas(r, a, b, o)
           /\ \A r \in Whole(a, b, o) : \E c \in Components(a, b, o) :
                r = RelationOf(c, a, b, o) /\ WholeOf(r, c)
           /\ \A c \in Components(a, b, o) : WholeOf(RelationOf(c, a, b, o), c)
           /\ \A x \in verses(a) : \E r \in Whole(a, b, o) : x \in r.A
           /\ \A x \in verses(b) : \E r \in Whole(a, b, o) : x \in r.B
           /\ \A r, s \in Whole(a, b, o) : r # s => r.A \cap s.A = {} /\ r.B \cap s.B = {}
<1> DEFINE C == Components(a, b, o)
<1>1. /\ \A c \in C :
                /\ Meets(c, "A", a, o) /\ Meets(c, "B", b, o)
                /\ \A n \in c : n = <<n[1], n[2]>> /\ n[1] \in {"A", "B", "O"}
                /\ \E y : <<"O", y>> \in c
                /\ \A y : <<"O", y>> \in c =>
                    \/ \E x \in verses(a) : y \in OrgOf(a, o, x) /\ <<"A", x>> \in c
                    \/ \E x \in verses(b) : y \in OrgOf(b, o, x) /\ <<"B", x>> \in c
      /\ \A x \in verses(a) : \E c \in C : <<"A", x>> \in c
      /\ \A x \in verses(b) : \E c \in C : <<"B", x>> \in c
      /\ \A c, d \in C : c # d => c \cap d = {}
  BY ComponentsMeet
<1> HIDE DEF C
<1>2. ASSUME NEW c \in C
      PROVE  Raw(RelationOf(c, a, b, o)) /\ WholeOf(RelationOf(c, a, b, o), c)
  <2>1. \A n \in c : n = <<n[1], n[2]>> /\ n[1] \in {"A", "B", "O"}
    BY <1>1
  <2> DEFINE r == RelationOf(c, a, b, o)
  <2>2. /\ Raw(RelationOf(c, a, b, o))
        /\ \A x : /\ x \in RelationOf(c, a, b, o).A <=> <<"A", x>> \in c
                  /\ x \in RelationOf(c, a, b, o).B <=> <<"B", x>> \in c
                  /\ x \in RelationOf(c, a, b, o).O <=> <<"O", x>> \in c
    BY <2>1, RelationHas
  <2> QED
    BY <2>2 DEF WholeOf
<1>3. ASSUME NEW c \in C, NEW r, Raw(r), WholeOf(r, c) PROVE WholeHas(r, a, b, o)
  <2>1. /\ \A x : <<"A", x>> \in c =>
                x \in verses(a) /\ LinkOf("A", a, o, x) \subseteq c
        /\ \A x \in verses(a) : \A y \in OrgOf(a, o, x) : <<"O", y>> \in c => <<"A", x>> \in c
        /\ \A x : <<"B", x>> \in c =>
                x \in verses(b) /\ LinkOf("B", b, o, x) \subseteq c
        /\ \A x \in verses(b) : \A y \in OrgOf(b, o, x) : <<"O", y>> \in c => <<"B", x>> \in c
    BY <1>1 DEF Meets
  <2>2. \A x : \A y \in OrgOf(a, o, x) : <<"O", y>> \in LinkOf("A", a, o, x)
    BY DEF LinkOf
  <2>3. \A x : \A y \in OrgOf(b, o, x) : <<"O", y>> \in LinkOf("B", b, o, x)
    BY DEF LinkOf
  <2>4. r.A \subseteq verses(a) /\ r.B \subseteq verses(b)
    BY <1>3, <2>1 DEF WholeOf
  <2>5. /\ \A x \in r.A : OrgOf(a, o, x) \subseteq r.O
        /\ \A x \in r.B : OrgOf(b, o, x) \subseteq r.O
    BY <1>3, <2>1, <2>2, <2>3 DEF WholeOf
  <2>6. /\ \A x \in verses(a) : OrgOf(a, o, x) \cap r.O # {} => x \in r.A
        /\ \A x \in verses(b) : OrgOf(b, o, x) \cap r.O # {} => x \in r.B
    BY <1>3, <2>1 DEF WholeOf
  <2>7. PICK y : <<"O", y>> \in c
    BY <1>1
  <2>8. r.O # {} /\ (r.A # {} \/ r.B # {})
    <3>1. y \in r.O
      BY <1>3, <2>7 DEF WholeOf
    <3>2. (\E x : <<"A", x>> \in c) \/ \E x : <<"B", x>> \in c
      <4>1. \/ \E x \in verses(a) : y \in OrgOf(a, o, x) /\ <<"A", x>> \in c
            \/ \E x \in verses(b) : y \in OrgOf(b, o, x) /\ <<"B", x>> \in c
        BY <1>1, <2>7
      <4> QED
        BY <4>1
    <3>3. (\E x : x \in r.A) \/ \E x : x \in r.B
      BY <1>3, <3>2 DEF WholeOf
    <3> QED
      BY <3>1, <3>3
  <2> QED
    BY <1>3, <2>4, <2>5, <2>6, <2>8 DEF WholeHas
<1>4. \A r : r \in Whole(a, b, o) <=> \E c \in C : r = RelationOf(c, a, b, o)
  BY DEF Whole, C
<1>5. \A r \in Whole(a, b, o) : WholeHas(r, a, b, o)
  BY <1>2, <1>3, <1>4
<1>6. \A r \in Whole(a, b, o) : \E c \in C : r = RelationOf(c, a, b, o) /\ WholeOf(r, c)
  BY <1>2, <1>4
<1>7. ASSUME NEW x \in verses(a) PROVE \E r \in Whole(a, b, o) : x \in r.A
  <2>1. PICK c \in C : <<"A", x>> \in c
    BY <1>1
  <2> DEFINE r == RelationOf(c, a, b, o)
  <2>2. r \in Whole(a, b, o) /\ WholeOf(r, c)
    BY <1>2, <1>4
  <2> HIDE DEF r
  <2> QED
    BY <2>1, <2>2 DEF WholeOf
<1>8. ASSUME NEW x \in verses(b) PROVE \E r \in Whole(a, b, o) : x \in r.B
  <2>1. PICK c \in C : <<"B", x>> \in c
    BY <1>1
  <2> DEFINE r == RelationOf(c, a, b, o)
  <2>2. r \in Whole(a, b, o) /\ WholeOf(r, c)
    BY <1>2, <1>4
  <2> HIDE DEF r
  <2> QED
    BY <2>1, <2>2 DEF WholeOf
<1>9. ASSUME NEW r \in Whole(a, b, o), NEW s \in Whole(a, b, o), r # s
      PROVE  r.A \cap s.A = {} /\ r.B \cap s.B = {}
  <2>1. PICK c \in C : r = RelationOf(c, a, b, o) /\ WholeOf(r, c)
    BY <1>6
  <2>2. PICK d \in C : s = RelationOf(d, a, b, o) /\ WholeOf(s, d)
    BY <1>6
  <2>3. c \cap d = {}
    BY <1>1, <1>9, <2>1, <2>2
  <2>4. WholeOf(r, c) /\ WholeOf(s, d)
    BY <2>1, <2>2
  <2> QED
    BY <2>3, <2>4 DEF WholeOf
<1> QED
  BY <1>2, <1>5, <1>6, <1>7, <1>8, <1>9 DEF C

-----------------------------------------------------------------------------
PieceHas(s, a, b) ==
    /\ Raw(s) /\ s.A \subseteq verses(a) /\ s.B \subseteq verses(b)
    /\ (s.A # {} \/ s.B # {}) /\ s.O # {}

(* What a verse no piece lists has in its place. *)
Replaced(P, mine, other, o, x, side) ==
    \E s \in P :
        /\ {} \notin {s.A, s.B} /\ s.O \cap OrgOf(mine, o, x) # {}
        /\ \A y \in verses(other) : OrgOf(other, o, y) \cap s.O # {} =>
                /\ y[1] # x[1]
                /\ \E t \in P : y \in IF side = "A" THEN t.B ELSE t.A

(* The relations after they are split: beside each other, and without a       *)
(* verse only where others take its place.                                    *)
LEMMA PiecesAre ==
    ASSUME NEW a, SchemeOK(a), NEW b, SchemeOK(b), NEW o
    PROVE  /\ Laid(Pieces(a, b, o))
           /\ \A s \in Pieces(a, b, o) : PieceHas(s, a, b)
           /\ \A x \in verses(a) : \/ \E s \in Pieces(a, b, o) : x \in s.A
                                   \/ Replaced(Pieces(a, b, o), a, b, o, x, "A")
           /\ \A x \in verses(b) : \/ \E s \in Pieces(a, b, o) : x \in s.B
                                   \/ Replaced(Pieces(a, b, o), b, a, o, x, "B")
<1> DEFINE W == Whole(a, b, o)
           P == Pieces(a, b, o)
<1>1. /\ \A r \in W : WholeHas(r, a, b, o)
      /\ \A x \in verses(a) : \E r \in W : x \in r.A
      /\ \A x \in verses(b) : \E r \in W : x \in r.B
      /\ \A r, s \in W : r # s => r.A \cap s.A = {} /\ r.B \cap s.B = {}
  BY WholesAre
<1>2. \A s : s \in P <=> \E r \in W : s \in split_alternates(r)
  BY DEF Pieces
<1> HIDE DEF W, P
<1>3. ASSUME NEW r \in W
      PROVE  /\ Laid(split_alternates(r))
             /\ \A s \in split_alternates(r) :
                /\ Raw(s) /\ s.A \subseteq r.A /\ s.B \subseteq r.B /\ s.O = r.O
                /\ s.flags = r.flags /\ (s.A # {} \/ s.B # {})
                /\ {} \notin {r.A, r.B} => {} \notin {s.A, s.B}
  <2>1. Raw(r) /\ (r.A # {} \/ r.B # {})
    BY <1>1 DEF WholeHas
  <2> QED
    BY <2>1, SplitsLaid
<1>4. ASSUME NEW s \in P PROVE PieceHas(s, a, b)
  <2>1. PICK r \in W : s \in split_alternates(r)
    BY <1>2
  <2>2. /\ Raw(s) /\ s.A \subseteq r.A /\ s.B \subseteq r.B /\ s.O = r.O
        /\ (s.A # {} \/ s.B # {})
    BY <1>3, <2>1
  <2>3. r.A \subseteq verses(a) /\ r.B \subseteq verses(b) /\ r.O # {}
    BY <1>1 DEF WholeHas
  <2> QED
    BY <2>2, <2>3 DEF PieceHas
<1>5. ASSUME NEW s \in P, NEW t \in P, s # t PROVE Beside(s, t)
  <2>1. PICK r \in W : s \in split_alternates(r)
    BY <1>2
  <2>2. PICK q \in W : t \in split_alternates(q)
    BY <1>2
  <2>3. CASE r = q
    BY <1>3, <1>5, <2>1, <2>2, <2>3 DEF Laid
  <2>4. CASE r # q
    <3>1. r.A \cap q.A = {} /\ r.B \cap q.B = {}
      BY <1>1, <2>4
    <3>2. s.A \subseteq r.A /\ s.B \subseteq r.B /\ t.A \subseteq q.A /\ t.B \subseteq q.B
      BY <1>3, <2>1, <2>2
    <3> QED
      BY <3>1, <3>2 DEF Beside
  <2> QED
    BY <2>3, <2>4
<1>6. ASSUME NEW x \in verses(a), \A s \in P : x \notin s.A
      PROVE  Replaced(P, a, b, o, x, "A")
  <2>1. PICK r \in W : x \in r.A
    BY <1>1
  <2>2. WholeHas(r, a, b, o)
    BY <1>1
  <2>3. LeavesOut(split_alternates(r), r, x, "A")
    <3>1. \A s \in split_alternates(r) : x \notin s.A
      BY <1>2, <1>6
    <3>2. Raw(r)
      BY <2>2 DEF WholeHas
    <3> QED
      BY <2>1, <3>1, <3>2, SplitLoses
  <2>4. PICK s \in split_alternates(r) :
            /\ {} \notin {s.A, s.B} /\ s.O = r.O
            /\ \A y \in r.B : y[1] # x[1] /\ \E t \in split_alternates(r) : y \in t.B
    BY <2>3 DEF LeavesOut
  <2>5. s \in P /\ \A t \in split_alternates(r) : t \in P
    BY <1>2
  <2>6. r.O \cap OrgOf(a, o, x) # {}
    BY <2>1, <2>2, OrgIsSome DEF WholeHas
  <2>7. \A y \in verses(b) : OrgOf(b, o, y) \cap r.O # {} => y \in r.B
    BY <2>2 DEF WholeHas
  <2>8. ASSUME NEW y \in verses(b), OrgOf(b, o, y) \cap s.O # {}
        PROVE  y[1] # x[1] /\ \E t \in P : y \in t.B
    <3>1. y \in r.B
      BY <2>4, <2>7, <2>8
    <3> QED
      BY <2>4, <2>5, <3>1
  <2> QED
    BY <2>4, <2>5, <2>6, <2>8 DEF Replaced
<1>7. ASSUME NEW x \in verses(b), \A s \in P : x \notin s.B
      PROVE  Replaced(P, b, a, o, x, "B")
  <2>1. PICK r \in W : x \in r.B
    BY <1>1
  <2>2. WholeHas(r, a, b, o)
    BY <1>1
  <2>3. LeavesOut(split_alternates(r), r, x, "B")
    <3>1. \A s \in split_alternates(r) : x \notin s.B
      BY <1>2, <1>7
    <3>2. Raw(r)
      BY <2>2 DEF WholeHas
    <3> QED
      BY <2>1, <3>1, <3>2, SplitLoses
  <2>4. PICK s \in split_alternates(r) :
            /\ {} \notin {s.A, s.B} /\ s.O = r.O
            /\ \A y \in r.A : y[1] # x[1] /\ \E t \in split_alternates(r) : y \in t.A
    BY <2>3 DEF LeavesOut
  <2>5. s \in P /\ \A t \in split_alternates(r) : t \in P
    BY <1>2
  <2>6. r.O \cap OrgOf(b, o, x) # {}
    BY <2>1, <2>2, OrgIsSome DEF WholeHas
  <2>7. \A y \in verses(a) : OrgOf(a, o, y) \cap r.O # {} => y \in r.A
    BY <2>2 DEF WholeHas
  <2>8. ASSUME NEW y \in verses(a), OrgOf(a, o, y) \cap s.O # {}
        PROVE  y[1] # x[1] /\ \E t \in P : y \in t.A
    <3>1. y \in r.A
      BY <2>4, <2>7, <2>8
    <3> QED
      BY <2>4, <2>5, <3>1
  <2> QED
    BY <2>4, <2>5, <2>6, <2>8 DEF Replaced
<1> QED
  BY <1>4, <1>5, <1>6, <1>7 DEF Laid, P

-----------------------------------------------------------------------------
(* --- The first pass --- *)

(* What the first pass makes of a piece. *)
PassHas(q, a, b) ==
    /\ Full(q) /\ q.A \subseteq verses(a) /\ q.B \subseteq verses(b)
    /\ (q.A # {} \/ q.B # {}) /\ q.O # {}
    /\ q.Ap = q.A \ a.excluded /\ q.Bp = q.B \ b.excluded
    /\ q.rel = <<Few(q.Ap), Few(q.Bp)>> /\ q.etype = q.type

PASSTYPES == {"VERSE0_TITLE", "RENUMBER", "MERGE", "SPLIT", "SEGMENT",
              "CHAPTER_MOVE", "CROSS_BOOK"}
TypeFits(q) ==
    /\ q.Ap = {} /\ q.Bp = {} => q.type = Same
    /\ q.Ap # {} /\ q.Bp # {} => q.type \in PASSTYPES \cup {Same}
    /\ (q.Ap = {}) # (q.Bp = {}) => q.type \in {"EXCLUDED", "ONE_SIDED"}
    /\ q.type = "ONE_SIDED" => \/ q.A = {} /\ q.Bp # {}
                               \/ q.B = {} /\ q.Ap # {}

(* The first pass keeps the verses of a piece and gives it a type that its    *)
(* present verses allow.                                                      *)
LEMMA Classifies ==
    ASSUME NEW s, NEW a, NEW b, PieceHas(s, a, b)
    PROVE  /\ PassHas(Classified(s, a, b), a, b) /\ TypeFits(Classified(s, a, b))
           /\ Classified(s, a, b).A = s.A /\ Classified(s, a, b).B = s.B
           /\ Classified(s, a, b).O = s.O
<1> DEFINE q == Classified(s, a, b)
           ap == s.A \ a.excluded
           bp == s.B \ b.excluded
           type == TypeOf(s, ap, bp)
<1>1. /\ Full(q) /\ q.A = s.A /\ q.O = s.O /\ q.B = s.B /\ q.Ap = ap /\ q.Bp = bp
      /\ q.rel = <<Few(ap), Few(bp)>> /\ q.type = type /\ q.etype = type
  BY DEF Classified, Full, Record, FULL, RAW
<1>2. PairedType(s, ap, bp) \in PASSTYPES \cup {Same}
  BY DEF PairedType, PASSTYPES
<1>3. /\ ap = {} /\ bp = {} => type = Same
      /\ ap = {} /\ bp # {} => type = IF s.A # {} THEN "EXCLUDED" ELSE "ONE_SIDED"
      /\ ap # {} /\ bp = {} => type = IF s.B # {} THEN "EXCLUDED" ELSE "ONE_SIDED"
      /\ ap # {} /\ bp # {} => type = PairedType(s, ap, bp)
  <2> HIDE DEF ap, bp
  <2> QED BY DEF TypeOf
<1> HIDE DEF q, ap, bp, type
<1>4. TypeFits(q)
  <2>1. CASE ap = {} /\ bp = {}
    BY <1>1, <1>3, <2>1 DEF TypeFits, Same
  <2>2. CASE ap = {} /\ bp # {}
    BY <1>1, <1>3, <2>2 DEF TypeFits, Same
  <2>3. CASE ap # {} /\ bp = {}
    BY <1>1, <1>3, <2>3 DEF TypeFits, Same
  <2>4. CASE ap # {} /\ bp # {}
    BY <1>1, <1>2, <1>3, <2>4 DEF TypeFits, Same, PASSTYPES
  <2> QED
    BY <2>1, <2>2, <2>3, <2>4
<1>5. PassHas(q, a, b)
  BY <1>1 DEF PassHas, PieceHas, ap, bp
<1> QED
  BY <1>1, <1>4, <1>5 DEF q

-----------------------------------------------------------------------------
(* Relations that share nothing, each with verses of its own. *)
Bedded(rs) ==
    /\ IsFiniteSet(rs) /\ Laid(rs)
    /\ \A r \in rs : /\ r.A \subseteq Verse /\ r.B \subseteq Verse
                     /\ IsFiniteSet(r.A) /\ IsFiniteSet(r.B) /\ (r.A # {} \/ r.B # {})

(* Relations that share nothing differ in their verses. *)
LEMMA BesideDiffers ==
    ASSUME NEW r, NEW s, Beside(r, s), r.A # {} \/ r.B # {}
    PROVE  r.A # s.A \/ r.B # s.B
<1>1. CASE r.A \cap s.A = {} /\ r.B \cap s.B = {}
  BY <1>1
<1>2. CASE Apart(r.B, s.B)
  <2>1. \A x \in r.B, y \in s.B : x[1] # y[1]
    BY <1>2 DEF Apart
  <2>2. r.B # {} /\ s.B # {}
    BY <1>2 DEF Apart
  <2> QED
    BY <2>1, <2>2
<1>3. CASE Apart(r.A, s.A)
  <2>1. \A x \in r.A, y \in s.A : x[1] # y[1]
    BY <1>3 DEF Apart
  <2>2. r.A # {} /\ s.A # {}
    BY <1>3 DEF Apart
  <2> QED
    BY <2>1, <2>2
<1> QED
  BY <1>1, <1>2, <1>3 DEF Beside

(* Verses of a scheme are finitely many triples of natural numbers. *)
LEMMA SubsetsAreFinite ==
    ASSUME NEW scheme, SchemeOK(scheme), NEW S, S \subseteq verses(scheme)
    PROVE  IsFiniteSet(S) /\ S \subseteq Verse
<1>1. IsFiniteSet(verses(scheme)) /\ verses(scheme) \subseteq Verse
  BY VersesAreFinite DEF SchemeOK
<1> QED
  BY <1>1, FS_Subset

(* Relations that are laid out are finitely many. *)
LEMMA LaidIsFinite ==
    ASSUME NEW a, SchemeOK(a), NEW b, SchemeOK(b), NEW rs, Laid(rs),
           \A r \in rs : /\ r.A \subseteq verses(a) /\ r.B \subseteq verses(b)
                        /\ (r.A # {} \/ r.B # {})
    PROVE  Bedded(rs)
<1> DEFINE SA == SUBSET verses(a)
           SB == SUBSET verses(b)
           f == [r \in rs |-> <<r.A, r.B>>]
<1>1. IsFiniteSet(verses(a)) /\ IsFiniteSet(verses(b))
  BY VersesAreFinite DEF SchemeOK
<1>2. IsFiniteSet(SA) /\ IsFiniteSet(SB)
  BY <1>1, FS_SUBSET
<1>3. IsFiniteSet(SA \X SB)
  <2> HIDE DEF SA, SB
  <2> QED BY <1>2, FS_Product
<1>4. \A r \in rs : f[r] \in SA \X SB
  OBVIOUS
<1>5. ASSUME NEW r \in rs, NEW s \in rs, f[r] = f[s] PROVE r = s
  <2>1. r.A = s.A /\ r.B = s.B
    BY <1>5
  <2>2. r # s => Beside(r, s)
    BY DEF Laid
  <2> QED
    BY <2>1, <2>2, BesideDiffers
<1> HIDE DEF f, SA, SB
<1>6. IsFiniteSet(rs)
  BY <1>3, <1>4, <1>5, InjectionCounts
<1>7. ASSUME NEW r \in rs
      PROVE  /\ r.A \subseteq Verse /\ r.B \subseteq Verse
             /\ IsFiniteSet(r.A) /\ IsFiniteSet(r.B)
  BY SubsetsAreFinite
<1> QED
  BY <1>6, <1>7 DEF Bedded

(* What the first pass returns: relations beside each other, of verses of     *)
(* both sides, that leave out none without replacement.                       *)
LEMMA FirstPassIs ==
    ASSUME NEW a, SchemeOK(a), NEW b, SchemeOK(b), NEW o
    PROVE  /\ Bedded(FirstPass(a, b, o))
           /\ \A q \in FirstPass(a, b, o) : PassHas(q, a, b) /\ TypeFits(q)
           /\ \A x \in verses(a) : \/ \E s \in FirstPass(a, b, o) : x \in s.A
                                   \/ Replaced(FirstPass(a, b, o), a, b, o, x, "A")
           /\ \A x \in verses(b) : \/ \E s \in FirstPass(a, b, o) : x \in s.B
                                   \/ Replaced(FirstPass(a, b, o), b, a, o, x, "B")
<1> DEFINE P == Pieces(a, b, o)
           F == FirstPass(a, b, o)
<1>1. /\ Laid(P) /\ \A s \in P : PieceHas(s, a, b)
      /\ \A x \in verses(a) : (\E s \in P : x \in s.A) \/ Replaced(P, a, b, o, x, "A")
      /\ \A x \in verses(b) : (\E s \in P : x \in s.B) \/ Replaced(P, b, a, o, x, "B")
  BY PiecesAre
<1>2. F = {Classified(s, a, b) : s \in P}
  BY DEF FirstPass, Pieces, Whole
<1> HIDE DEF P, F
<1>3. ASSUME NEW s \in P
      PROVE  /\ PassHas(Classified(s, a, b), a, b) /\ TypeFits(Classified(s, a, b))
             /\ Classified(s, a, b).A = s.A /\ Classified(s, a, b).B = s.B
             /\ Classified(s, a, b).O = s.O
  <2>1. PieceHas(s, a, b)
    BY <1>1
  <2> QED
    BY <2>1, Classifies
<1> DEFINE Made(q, s) == /\ PassHas(q, a, b) /\ TypeFits(q)
                         /\ q.A = s.A /\ q.B = s.B /\ q.O = s.O
<1>4. \A s \in P : Made(Classified(s, a, b), s) /\ Classified(s, a, b) \in F
  BY <1>2, <1>3
<1>5. \A q \in F : \E s \in P : q = Classified(s, a, b) /\ Made(q, s)
  BY <1>2, <1>4
<1>6. \A q \in F : PassHas(q, a, b) /\ TypeFits(q)
  BY <1>5
<1>7. ASSUME NEW q \in F, NEW r \in F, q # r PROVE Beside(q, r)
  <2>1. PICK s \in P : q = Classified(s, a, b) /\ Made(q, s)
    BY <1>5
  <2>2. PICK t \in P : r = Classified(t, a, b) /\ Made(r, t)
    BY <1>5
  <2>3. Beside(s, t)
    BY <1>1, <1>7, <2>1, <2>2 DEF Laid
  <2> QED
    BY <2>1, <2>2, <2>3 DEF Beside
<1>8. Bedded(F)
  <2>1. \A r \in F : /\ r.A \subseteq verses(a) /\ r.B \subseteq verses(b)
                     /\ (r.A # {} \/ r.B # {})
    BY <1>6 DEF PassHas
  <2>2. Laid(F)
    BY <1>7 DEF Laid
  <2> QED
    BY <2>1, <2>2, LaidIsFinite
<1>9. \A s \in P : \E q \in F : q.A = s.A /\ q.B = s.B /\ q.O = s.O
  BY <1>4
<1>10. ASSUME NEW x \in verses(a)
       PROVE  (\E s \in F : x \in s.A) \/ Replaced(F, a, b, o, x, "A")
  <2>1. CASE \E s \in P : x \in s.A
    BY <1>9, <2>1
  <2>2. CASE Replaced(P, a, b, o, x, "A")
    <3>1. PICK s \in P :
            /\ {} \notin {s.A, s.B} /\ s.O \cap OrgOf(a, o, x) # {}
            /\ \A y \in verses(b) : OrgOf(b, o, y) \cap s.O # {} =>
                    y[1] # x[1] /\ \E t \in P : y \in t.B
      BY <2>2 DEF Replaced
    <3>2. PICK q \in F : q.A = s.A /\ q.B = s.B /\ q.O = s.O
      BY <1>9
    <3>3. \A y \in verses(b) : OrgOf(b, o, y) \cap q.O # {} =>
                    y[1] # x[1] /\ \E t \in F : y \in t.B
      BY <1>9, <3>1, <3>2
    <3>4. {} \notin {q.A, q.B} /\ q.O \cap OrgOf(a, o, x) # {}
      BY <3>1, <3>2
    <3> QED
      BY <3>3, <3>4 DEF Replaced
  <2> QED
    BY <1>1, <2>1, <2>2
<1>11. ASSUME NEW x \in verses(b)
       PROVE  (\E s \in F : x \in s.B) \/ Replaced(F, b, a, o, x, "B")
  <2>1. CASE \E s \in P : x \in s.B
    BY <1>9, <2>1
  <2>2. CASE Replaced(P, b, a, o, x, "B")
    <3>1. PICK s \in P :
            /\ {} \notin {s.A, s.B} /\ s.O \cap OrgOf(b, o, x) # {}
            /\ \A y \in verses(a) : OrgOf(a, o, y) \cap s.O # {} =>
                    y[1] # x[1] /\ \E t \in P : y \in t.A
      BY <2>2 DEF Replaced
    <3>2. PICK q \in F : q.A = s.A /\ q.B = s.B /\ q.O = s.O
      BY <1>9
    <3>3. \A y \in verses(a) : OrgOf(a, o, y) \cap q.O # {} =>
                    y[1] # x[1] /\ \E t \in F : y \in t.A
      BY <1>9, <3>1, <3>2
    <3>4. {} \notin {q.A, q.B} /\ q.O \cap OrgOf(b, o, x) # {}
      BY <3>1, <3>2
    <3> QED
      BY <3>3, <3>4 DEF Replaced
  <2> QED
    BY <1>1, <2>1, <2>2
<1> QED
  BY <1>6, <1>8, <1>10, <1>11 DEF F

-----------------------------------------------------------------------------
(* --- Relations in order --- *)

(* The order in which relations are taken, as the pairs of it. *)
Sooner(S, key) ==
    {p \in S \X S :
        \/ Before(key[p[1]], key[p[2]])
        \/ /\ key[p[1]] = key[p[2]]
           /\ \/ p[1].A # {} /\ p[2].A = {}
              \/ (p[1].A = {}) = (p[2].A = {}) /\ p[1].B # {} /\ p[2].B # {}
                    /\ Before(FirstOf(p[1].B), FirstOf(p[2].B))}

(* A key of relations is a verse of A, or of B if there is none of A. *)
Keyed(S, key) ==
    \A r \in S : (r.A # {} => key[r] \in r.A) /\ (r.A = {} => key[r] \in r.B)

(* One relation is sooner than another: by the key, else by the first         *)
(* verses.                                                                    *)
LEMMA OneBefore ==
    ASSUME NEW S, NEW key, NEW x \in S, NEW y \in S
    PROVE  <<x, y>> \in Sooner(S, key) <=>
                \/ Before(key[x], key[y])
                \/ /\ key[x] = key[y]
                   /\ \/ x.A # {} /\ y.A = {}
                      \/ (x.A = {}) = (y.A = {}) /\ x.B # {} /\ y.B # {}
                            /\ Before(FirstOf(x.B), FirstOf(y.B))
<1> DEFINE p == <<x, y>>
<1>1. p \in S \X S /\ p[1] = x /\ p[2] = y
  OBVIOUS
<1> HIDE DEF p
<1>2. p \in Sooner(S, key) <=>
                \/ Before(key[x], key[y])
                \/ /\ key[x] = key[y]
                   /\ \/ x.A # {} /\ y.A = {}
                      \/ (x.A = {}) = (y.A = {}) /\ x.B # {} /\ y.B # {}
                            /\ Before(FirstOf(x.B), FirstOf(y.B))
  BY <1>1 DEF Sooner
<1> QED
  BY <1>2 DEF p

(* Relations with the same key share that verse: they have it in A, and      *)
(* verses of B in books of their own.                                        *)
LEMMA TiesDiffer ==
    ASSUME NEW S, Bedded(S), NEW key, Keyed(S, key), NEW x \in S, NEW y \in S,
           x # y, key[x] = key[y]
    PROVE  \/ x.A # {} /\ y.A = {}
           \/ y.A # {} /\ x.A = {}
           \/ /\ x.A # {} /\ x.A = y.A /\ Apart(x.B, y.B)
              /\ FirstOf(x.B) \in Verse /\ FirstOf(y.B) \in Verse
              /\ FirstOf(x.B) # FirstOf(y.B)
<1>1. Beside(x, y)
  BY DEF Bedded, Laid
<1>2. /\ x.A \subseteq Verse /\ x.B \subseteq Verse /\ y.A \subseteq Verse /\ y.B \subseteq Verse
      /\ (x.A # {} => key[x] \in x.A) /\ (x.A = {} => key[x] \in x.B)
      /\ (y.A # {} => key[y] \in y.A) /\ (y.A = {} => key[y] \in y.B)
  BY DEF Bedded, Keyed
<1>3. CASE x.A # {} /\ y.A # {}
  <2>1. key[x] \in x.A \cap y.A
    BY <1>2, <1>3
  <2>2. x.A = y.A /\ Apart(x.B, y.B)
    <3>1. ~ Apart(x.A, y.A)
      BY <2>1 DEF Apart
    <3> QED
      BY <1>1, <2>1, <3>1 DEF Beside
  <2>3. x.B # {} /\ y.B # {} /\ \A s \in x.B, t \in y.B : s[1] # t[1]
    BY <2>2 DEF Apart
  <2>4. FirstOf(x.B) \in x.B /\ FirstOf(y.B) \in y.B
    BY <1>2, <2>3, FirstIsOne
  <2> QED
    BY <1>2, <1>3, <2>2, <2>3, <2>4
<1>4. CASE x.A = {} /\ y.A = {}
  <2>1. key[x] \in x.B \cap y.B
    BY <1>2, <1>4
  <2>2. ~ Apart(x.A, y.A) /\ ~ Apart(x.B, y.B)
    BY <1>4, <2>1 DEF Apart
  <2> QED
    BY <1>1, <1>4, <2>1, <2>2 DEF Beside
<1> QED
  BY <1>3, <1>4

(* The order of relations is strict and total. *)
LEMMA SoonerOrders ==
    ASSUME NEW S, Bedded(S), NEW key, Keyed(S, key)
    PROVE  Orders(Sooner(S, key), S)
<1>1. \A x \in S : key[x] \in Verse /\ (x.B # {} => FirstOf(x.B) \in Verse)
  BY FirstIsOne DEF Bedded, Keyed
<1>2. ASSUME NEW x \in S PROVE <<x, x>> \notin Sooner(S, key)
  BY <1>1, OneBefore, VerseOrder
<1>3. ASSUME NEW x \in S, NEW y \in S, x # y
      PROVE <<x, y>> \in Sooner(S, key) \/ <<y, x>> \in Sooner(S, key)
  <2>1. CASE key[x] # key[y]
    BY <1>1, <2>1, OneBefore, VerseOrder
  <2>2. CASE key[x] = key[y]
    <3>1. CASE x.A # {} /\ y.A = {}
      BY <2>2, <3>1, OneBefore
    <3>2. CASE y.A # {} /\ x.A = {}
      BY <2>2, <3>2, OneBefore
    <3>3. CASE /\ x.A # {} /\ x.A = y.A /\ Apart(x.B, y.B)
               /\ FirstOf(x.B) \in Verse /\ FirstOf(y.B) \in Verse
               /\ FirstOf(x.B) # FirstOf(y.B)
      <4>1. x.B # {} /\ y.B # {}
        BY <3>3 DEF Apart
      <4>2. Before(FirstOf(x.B), FirstOf(y.B)) \/ Before(FirstOf(y.B), FirstOf(x.B))
        BY <3>3, VerseOrder
      <4> QED
        BY <2>2, <3>3, <4>1, <4>2, OneBefore
    <3> QED
      BY <1>3, <2>2, <3>1, <3>2, <3>3, TiesDiffer
  <2> QED
    BY <2>1, <2>2
<1>4. ASSUME NEW x \in S, NEW y \in S, NEW z \in S,
             <<x, y>> \in Sooner(S, key), <<y, z>> \in Sooner(S, key)
      PROVE <<x, z>> \in Sooner(S, key)
  <2> DEFINE Tie(s, t) == \/ s.A # {} /\ t.A = {}
                          \/ (s.A = {}) = (t.A = {}) /\ s.B # {} /\ t.B # {}
                                /\ Before(FirstOf(s.B), FirstOf(t.B))
  <2>1. Before(key[x], key[y]) \/ (key[x] = key[y] /\ Tie(x, y))
    BY <1>4, OneBefore
  <2>2. Before(key[y], key[z]) \/ (key[y] = key[z] /\ Tie(y, z))
    BY <1>4, OneBefore
  <2>3. Tie(x, y) /\ Tie(y, z) => Tie(x, z)
    <3>1. x.B # {} /\ y.B # {} /\ z.B # {} /\ Before(FirstOf(x.B), FirstOf(y.B))
            /\ Before(FirstOf(y.B), FirstOf(z.B)) => Before(FirstOf(x.B), FirstOf(z.B))
      <4> HIDE DEF Tie
      <4> QED BY <1>1, VerseOrder
    <3> QED
      BY <3>1
  <2> HIDE DEF Tie
  <2>4. Before(key[x], key[z]) \/ (key[x] = key[z] /\ Tie(x, z))
    BY <1>1, <2>1, <2>2, <2>3, VerseOrder
  <2> QED
    BY <2>4, OneBefore DEF Tie
<1> QED
  BY <1>2, <1>3, <1>4 DEF Orders

(* Every relation has its place among them. *)
LEMMA OrderedLists ==
    ASSUME NEW S, Bedded(S), NEW key, Keyed(S, key)
    PROVE  Lists(Ordered(S, key), S, Sooner(S, key), Cardinality(S))
<1>1. Ordered(S, key) = InOrder(S, Sooner(S, key))
  BY DEF Ordered, Sooner
<1> QED
  BY <1>1, SoonerOrders, Listing DEF Bedded

(* Some of them are like all of them. *)
LEMMA SomeAreBedded ==
    ASSUME NEW S, Bedded(S), NEW T, T \subseteq S
    PROVE  Bedded(T)
<1>1. IsFiniteSet(T)
  BY FS_Subset DEF Bedded
<1> QED
  BY <1>1 DEF Bedded, Laid

-----------------------------------------------------------------------------
(* --- Longest subsequences (_lis_keep) --- *)

(* A verse that does not come after another one. *)
NotAfter(x, y) == ~ Before(y, x)

(* Some places of a sequence of verses that stay in order. *)
Rising(I, seq) == \A i, j \in I : i < j => NotAfter(seq[i], seq[j])

(* A subsequence of length l of the first k values, as its places. *)
ChainOf(c, seq, k, l) ==
    /\ c \in Seq(Nat) /\ Len(c) = l /\ \A i \in 1 .. l : c[i] \in 1 .. k
    /\ \A i, j \in 1 .. l : i < j => c[i] < c[j] /\ NotAfter(seq[c[i]], seq[c[j]])

End(tails, seq, l) == seq[tails[l][l]]

(* What the first k values have left: the best subsequence of every length. *)
Patience(tails, seq, k) ==
    /\ tails \in Seq(Seq(Nat))
    /\ \A l \in 1 .. Len(tails) : ChainOf(tails[l], seq, k, l)
    /\ \A l, m \in 1 .. Len(tails) : l < m => NotAfter(End(tails, seq, l), End(tails, seq, m))
    /\ \A I \in SUBSET (1 .. k) : I # {} /\ Rising(I, seq) =>
            /\ Cardinality(I) \in 1 .. Len(tails)
            /\ \E i \in I : NotAfter(End(tails, seq, Cardinality(I)), seq[i])

(* Numbers below which there is no gap are counted by the greatest. *)
LEMMA NoGap ==
    ASSUME NEW n \in Nat, NEW D, D \subseteq 1 .. n,
           \A i \in D, j \in 1 .. n : j < i => j \in D
    PROVE  /\ Cardinality(D) \in 0 .. n /\ D = 1 .. Cardinality(D)
<1> DEFINE out == (1 .. n + 1) \ D
           m == Min(out)
<1>1. out \subseteq Nat /\ n + 1 \in out
  OBVIOUS
<1>2. m \in out /\ \A i \in out : m =< i
  BY <1>1, LeastIsOne
<1> HIDE DEF m
<1>3. D = 1 .. m - 1
  <2>1. ASSUME NEW i \in 1 .. m - 1 PROVE i \in D
    BY <1>2
  <2>2. ASSUME NEW i \in D PROVE i < m
    <3>1. m # i
      BY <1>2
    <3>2. m < i => m \in D
      BY <1>2
    <3> QED
      BY <1>2, <3>1, <3>2
  <2>3. m \in Nat /\ D \subseteq Nat /\ \A i \in D : i >= 1
    BY <1>2
  <2> HIDE DEF out
  <2>4. D \subseteq 1 .. m - 1
    BY <2>2, <2>3
  <2> QED
    BY <2>1, <2>4
<1>4. Cardinality(1 .. m - 1) = m - 1
  BY <1>2, FS_Interval
<1> QED
  BY <1>2, <1>3, <1>4

(* Not after is the order of verses with equality. *)
LEMMA NotAfterOrders ==
    /\ \A x \in Verse : NotAfter(x, x)
    /\ \A x, y \in Verse : NotAfter(x, y) \/ Before(y, x)
    /\ \A x, y \in Verse : Before(x, y) => NotAfter(x, y)
    /\ \A x, y, z \in Verse : NotAfter(x, y) /\ NotAfter(y, z) => NotAfter(x, z)
BY VerseOrder DEF NotAfter

(* The subsequences the next value can follow are the shorter ones. *)
LEMMA BisectCounts ==
    ASSUME NEW seq, NEW n \in Nat, seq \in [1 .. n -> Verse], NEW k \in 1 .. n,
           NEW tails, Patience(tails, seq, k - 1)
    PROVE  LET p == bisect_right(seq, tails, k)
           IN  /\ p \in 1 .. Len(tails) + 1
               /\ \A l \in 1 .. Len(tails) :
                    l < p <=> NotAfter(End(tails, seq, l), seq[k])
<1> DEFINE D == {j \in DOMAIN tails : ~ Before(seq[k], seq[Last(tails[j])])}
<1>0. tails \in Seq(Seq(Nat)) /\ Len(tails) \in Nat /\ DOMAIN tails = 1 .. Len(tails)
  BY DEF Patience
<1>1. ASSUME NEW l \in 1 .. Len(tails)
      PROVE  /\ Last(tails[l]) = tails[l][l] /\ End(tails, seq, l) \in Verse
             /\ seq[Last(tails[l])] = End(tails, seq, l)
  <2>1. ChainOf(tails[l], seq, k - 1, l)
    BY DEF Patience
  <2>2. Len(tails[l]) = l /\ tails[l][l] \in 1 .. n
    BY <2>1 DEF ChainOf
  <2> QED
    BY <2>2 DEF Last, End
<1>2. seq[k] \in Verse
  OBVIOUS
<1>3. D = {l \in 1 .. Len(tails) : NotAfter(End(tails, seq, l), seq[k])}
  BY <1>0, <1>1 DEF NotAfter
<1>4. bisect_right(seq, tails, k) = Cardinality(D) + 1
  BY DEF bisect_right
<1> HIDE DEF D
<1>5. \A i \in D, j \in 1 .. Len(tails) : j < i => j \in D
  <2> TAKE i \in D, j \in 1 .. Len(tails)
  <2> HAVE j < i
  <2>1. NotAfter(End(tails, seq, j), End(tails, seq, i)) /\ i \in 1 .. Len(tails)
    BY <1>3 DEF Patience
  <2> QED
    BY <1>1, <1>2, <1>3, <2>1, NotAfterOrders
<1>6. Cardinality(D) \in 0 .. Len(tails) /\ D = 1 .. Cardinality(D)
  BY <1>0, <1>3, <1>5, NoGap
<1>7. \A l \in 1 .. Len(tails) : l < Cardinality(D) + 1 <=> l \in D
  BY <1>0, <1>6
<1> QED
  BY <1>0, <1>3, <1>4, <1>6, <1>7

(* The next value extends a subsequence, or ends one sooner. *)
LEMMA PutIs ==
    ASSUME NEW tails, tails \in Seq(Seq(Nat)), NEW seq, NEW k \in Nat,
           bisect_right(seq, tails, k) \in 1 .. Len(tails) + 1
    PROVE  LET p == bisect_right(seq, tails, k)
               new == Put(seq, tails, k)
           IN  /\ new \in Seq(Seq(Nat))
               /\ Len(new) = IF p > Len(tails) THEN Len(tails) + 1 ELSE Len(tails)
               /\ new[p] = IF p = 1 THEN <<k>> ELSE Append(tails[p - 1], k)
               /\ \A l \in 1 .. Len(tails) : l # p => new[l] = tails[l]
<1> DEFINE p == bisect_right(seq, tails, k)
           chain == IF p = 1 THEN <<k>> ELSE Append(tails[p - 1], k)
           new == Put(seq, tails, k)
<1>1. p \in 1 .. Len(tails) + 1
  OBVIOUS
<1>2. chain = IF p = 1 THEN <<k>> ELSE Append(tails[p - 1], k)
  OBVIOUS
<1>3. new = IF p > Len(tails) THEN Append(tails, chain) ELSE [tails EXCEPT ![p] = chain]
  BY DEF Put
<1> HIDE DEF p, chain, new
<1>4. chain \in Seq(Nat)
  <2>1. p # 1 => tails[p - 1] \in Seq(Nat)
    BY <1>1
  <2> QED
    BY <1>2, <2>1
<1>5. /\ new \in Seq(Seq(Nat))
      /\ Len(new) = IF p > Len(tails) THEN Len(tails) + 1 ELSE Len(tails)
      /\ new[p] = chain
      /\ \A l \in 1 .. Len(tails) : l # p => new[l] = tails[l]
  <2>1. CASE p > Len(tails)
    <3>1. new = Append(tails, chain) /\ p = Len(tails) + 1
      BY <1>1, <1>3, <2>1
    <3> QED
      BY <1>4, <2>1, <3>1
  <2>2. CASE ~ (p > Len(tails))
    <3>1. new = [tails EXCEPT ![p] = chain] /\ p \in 1 .. Len(tails)
      BY <1>1, <1>3, <2>2
    <3> QED
      BY <1>4, <2>2, <3>1
  <2> QED
    BY <2>1, <2>2
<1> QED
  BY <1>2, <1>5 DEF p, new

(* A subsequence that the next value follows. *)
LEMMA ChainGrows ==
    ASSUME NEW seq, NEW n \in Nat, seq \in [1 .. n -> Verse], NEW k \in 1 .. n,
           NEW c, NEW l \in Nat, l >= 1, ChainOf(c, seq, k - 1, l),
           NotAfter(seq[c[l]], seq[k])
    PROVE  ChainOf(Append(c, k), seq, k, l + 1)
<1> DEFINE d == Append(c, k)
<1>1. /\ c \in Seq(Nat) /\ Len(c) = l /\ \A i \in 1 .. l : c[i] \in 1 .. k - 1
      /\ \A i, j \in 1 .. l : i < j => c[i] < c[j] /\ NotAfter(seq[c[i]], seq[c[j]])
  BY DEF ChainOf
<1>2. /\ d \in Seq(Nat) /\ Len(d) = l + 1 /\ d[l + 1] = k
      /\ \A i \in 1 .. l : d[i] = c[i]
  BY <1>1
<1>3. \A i \in 1 .. l : c[i] < k /\ NotAfter(seq[c[i]], seq[k])
  <2> TAKE i \in 1 .. l
  <2>1. c[i] \in 1 .. k - 1 /\ c[l] \in 1 .. k - 1
    BY <1>1
  <2>2. seq[c[i]] \in Verse /\ seq[c[l]] \in Verse /\ seq[k] \in Verse
    BY <2>1
  <2>3. i = l \/ NotAfter(seq[c[i]], seq[c[l]])
    BY <1>1
  <2> QED
    BY <2>1, <2>2, <2>3, NotAfterOrders
<1> HIDE DEF d
<1>4. \A i \in 1 .. l + 1 : d[i] \in 1 .. k
  <2> TAKE i \in 1 .. l + 1
  <2>1. CASE i = l + 1
    BY <1>2, <2>1
  <2>2. CASE i \in 1 .. l
    BY <1>1, <1>2, <2>2
  <2> QED
    BY <2>1, <2>2
<1>5. ASSUME NEW i \in 1 .. l + 1, NEW j \in 1 .. l + 1, i < j
      PROVE d[i] < d[j] /\ NotAfter(seq[d[i]], seq[d[j]])
  <2>1. CASE j = l + 1
    BY SMTT(40), <1>2, <1>3, <1>5, <2>1
  <2>2. CASE j \in 1 .. l
    BY SMTT(40), <1>1, <1>2, <1>5, <2>2
  <2> QED
    BY <2>1, <2>2
<1>6. ChainOf(d, seq, k, l + 1)
  BY <1>2, <1>4, <1>5 DEF ChainOf
<1> QED
  BY <1>6 DEF d

(* The next value keeps the best subsequences. *)
LEMMA PutKeeps ==
    ASSUME NEW seq, NEW n \in Nat, seq \in [1 .. n -> Verse], NEW k \in 1 .. n,
           NEW tails, Patience(tails, seq, k - 1)
    PROVE  Patience(Put(seq, tails, k), seq, k)
<1> DEFINE p == bisect_right(seq, tails, k)
           new == Put(seq, tails, k)
<1>1. /\ tails \in Seq(Seq(Nat)) /\ Len(tails) \in Nat
      /\ \A l \in 1 .. Len(tails) : ChainOf(tails[l], seq, k - 1, l)
      /\ \A l, m \in 1 .. Len(tails) :
            l < m => NotAfter(End(tails, seq, l), End(tails, seq, m))
      /\ \A I \in SUBSET (1 .. k - 1) : I # {} /\ Rising(I, seq) =>
            /\ Cardinality(I) \in 1 .. Len(tails)
            /\ \E i \in I : NotAfter(End(tails, seq, Cardinality(I)), seq[i])
  BY DEF Patience
<1>2. /\ p \in 1 .. Len(tails) + 1
      /\ \A l \in 1 .. Len(tails) : l < p <=> NotAfter(End(tails, seq, l), seq[k])
  BY BisectCounts
<1>3. /\ new \in Seq(Seq(Nat))
      /\ Len(new) = IF p > Len(tails) THEN Len(tails) + 1 ELSE Len(tails)
      /\ new[p] = IF p = 1 THEN <<k>> ELSE Append(tails[p - 1], k)
      /\ \A l \in 1 .. Len(tails) : l # p => new[l] = tails[l]
  <2>1. k \in Nat
    OBVIOUS
  <2> QED
    BY <1>1, <1>2, <2>1, PutIs
<1> HIDE DEF p, new
<1>4. ASSUME NEW l \in 1 .. Len(tails)
      PROVE /\ tails[l][l] \in 1 .. k - 1 /\ End(tails, seq, l) \in Verse
            /\ tails[l] \in Seq(Nat) /\ Len(tails[l]) = l
  <2>1. ChainOf(tails[l], seq, k - 1, l)
    BY <1>1
  <2>2. tails[l][l] \in 1 .. k - 1
    BY <2>1 DEF ChainOf
  <2> QED
    BY <2>1, <2>2 DEF ChainOf, End
<1>5. seq[k] \in Verse
  OBVIOUS
<1>6. p \in 1 .. Len(new) /\ \A l \in 1 .. Len(new) : l # p => l \in 1 .. Len(tails)
  BY <1>1, <1>2, <1>3
<1>7. ChainOf(new[p], seq, k, p) /\ End(new, seq, p) = seq[k]
  <2>1. CASE p = 1
    <3>1. new[p] = <<k>>
      BY <1>3, <2>1
    <3> QED
      BY <2>1, <3>1 DEF ChainOf, End
  <2>2. CASE p # 1
    <3>1. p - 1 \in 1 .. Len(tails) /\ p - 1 \in Nat /\ p - 1 >= 1
      BY <1>1, <1>2, <2>2
    <3>2. ChainOf(tails[p - 1], seq, k - 1, p - 1)
      BY <1>1, <3>1
    <3>3. NotAfter(seq[tails[p - 1][p - 1]], seq[k])
      BY <1>2, <3>1 DEF End
    <3>4. ChainOf(Append(tails[p - 1], k), seq, k, p - 1 + 1)
      BY <3>1, <3>2, <3>3, ChainGrows
    <3>5. new[p] = Append(tails[p - 1], k) /\ p - 1 + 1 = p
      BY SMTT(40), <1>2, <1>3, <2>2
    <3>6. ChainOf(new[p], seq, k, p)
      BY <3>4, <3>5
    <3>7. new[p][p] = k
      BY <1>4, <3>1, <3>5
    <3> QED
      BY <3>6, <3>7 DEF End
  <2> QED
    BY <2>1, <2>2
<1>8. ASSUME NEW l \in 1 .. Len(new), l # p
      PROVE  ChainOf(new[l], seq, k, l) /\ End(new, seq, l) = End(tails, seq, l)
  <2>1. l \in 1 .. Len(tails) /\ new[l] = tails[l]
    BY <1>3, <1>6, <1>8
  <2>2. ChainOf(tails[l], seq, k - 1, l)
    BY <1>1, <2>1
  <2> QED
    BY <2>1, <2>2 DEF ChainOf, End
<1>9. \A l \in 1 .. Len(new) :
        /\ End(new, seq, l) \in Verse
        /\ l < p => NotAfter(End(new, seq, l), seq[k])
        /\ p < l => Before(seq[k], End(new, seq, l))
  <2> TAKE l \in 1 .. Len(new)
  <2>1. CASE l = p
    BY <1>1, <1>2, <1>5, <1>7, <2>1
  <2>2. CASE l # p
    <3>1. l \in 1 .. Len(tails) /\ End(new, seq, l) = End(tails, seq, l)
      BY <1>6, <1>8, <2>2
    <3>2. l < p <=> NotAfter(End(tails, seq, l), seq[k])
      BY <1>2, <3>1
    <3> QED
      BY <1>2, <1>4, <1>5, <3>1, <3>2, NotAfterOrders
  <2> QED
    BY <2>1, <2>2
<1>10. ASSUME NEW l \in 1 .. Len(new), NEW m \in 1 .. Len(new), l < m
       PROVE  NotAfter(End(new, seq, l), End(new, seq, m))
  <2>1. CASE l = p
    BY <1>5, <1>7, <1>9, <1>10, <2>1, NotAfterOrders
  <2>2. CASE m = p
    BY <1>7, <1>9, <1>10, <2>2
  <2>3. CASE l # p /\ m # p
    BY <1>1, <1>6, <1>8, <1>10, <2>3
  <2> QED
    BY <2>1, <2>2, <2>3
<1>11. ASSUME NEW I \in SUBSET (1 .. k), I # {}, Rising(I, seq)
       PROVE  /\ Cardinality(I) \in 1 .. Len(new)
              /\ \E i \in I : NotAfter(End(new, seq, Cardinality(I)), seq[i])
  <2> DEFINE J == I \ {k}
             c == Cardinality(I)
             d == Cardinality(J)
  <2>1. IsFiniteSet(I) /\ IsFiniteSet(J) /\ c = IF k \in I THEN d + 1 ELSE d
    <3>1. IsFiniteSet(1 .. k)
      BY FS_Interval
    <3>2. IsFiniteSet(I)
      BY <3>1, FS_Subset
    <3>3. c \in Nat /\ IsFiniteSet(J) /\ d = IF k \in I THEN c - 1 ELSE c
      BY <3>2, FS_RemoveElement, FS_CardinalityType
    <3> QED
      BY <3>2, <3>3
  <2>2. J \in SUBSET (1 .. k - 1) /\ Rising(J, seq)
    BY <1>11 DEF Rising
  <2>3. J # {} => /\ d \in 1 .. Len(tails)
                  /\ \E i \in J : NotAfter(End(tails, seq, d), seq[i])
    BY <1>1, <2>2
  <2>4. J = {} => d = 0
    BY FS_EmptySet
  <2>5. \A i \in J : i \in I /\ i < k /\ seq[i] \in Verse
    <3>1. \A i \in J : i \in 1 .. n
      OBVIOUS
    <3> QED
      BY <3>1
  <2>6. k \notin I => J = I
    OBVIOUS
  <2> HIDE DEF J, c, d
  <2>7. CASE k \notin I
    <3>1. c = d /\ c \in 1 .. Len(tails)
      BY <1>11, <2>1, <2>3, <2>6, <2>7
    <3>2. PICK i \in I : NotAfter(End(tails, seq, c), seq[i]) /\ seq[i] \in Verse
      BY <1>11, <2>3, <2>5, <2>6, <2>7, <3>1
    <3>3. c \in 1 .. Len(new)
      BY <1>1, <1>3, <3>1
    <3>4. NotAfter(End(new, seq, c), End(tails, seq, c))
      <4>1. CASE c = p
        BY <1>2, <1>4, <1>5, <1>7, <3>1, <4>1, NotAfterOrders
      <4>2. CASE c # p
        BY <1>4, <1>8, <3>1, <3>3, <4>2, NotAfterOrders
      <4> QED
        BY <4>1, <4>2
    <3>5. NotAfter(End(new, seq, c), seq[i])
      BY <1>4, <1>9, <3>1, <3>2, <3>3, <3>4, NotAfterOrders
    <3> QED
      BY <3>2, <3>3, <3>5 DEF c
  <2>8. CASE k \in I
    <3>1. c \in Nat /\ c >= 1 /\ c =< p
      <4>1. CASE J = {}
        BY <1>2, <2>1, <2>4, <2>8, <4>1
      <4>2. CASE J # {}
        <5>1. PICK i \in J : NotAfter(End(tails, seq, d), seq[i])
          BY <2>3, <4>2
        <5>2. NotAfter(seq[i], seq[k])
          BY <1>11, <2>5, <2>8, <5>1 DEF Rising
        <5>3. NotAfter(End(tails, seq, d), seq[k])
          BY <1>4, <1>5, <2>3, <2>5, <4>2, <5>1, <5>2, NotAfterOrders
        <5>4. d < p /\ d \in 1 .. Len(tails)
          BY <1>2, <2>3, <4>2, <5>3
        <5> QED
          BY <1>1, <1>2, <2>1, <2>8, <5>4
      <4> QED
        BY <4>1, <4>2
    <3>2. c \in 1 .. Len(new)
      BY <1>6, <3>1
    <3>3. NotAfter(End(new, seq, c), seq[k])
      <4>1. c = p \/ c < p
        BY <1>2, <3>1
      <4> QED
        BY <1>5, <1>7, <1>9, <3>2, <4>1, NotAfterOrders
    <3> QED
      BY <2>8, <3>2, <3>3 DEF c
  <2> QED
    BY <2>7, <2>8
<1>12. \A l \in 1 .. Len(new) : ChainOf(new[l], seq, k, l)
  BY <1>7, <1>8
<1>13. Patience(new, seq, k)
  BY <1>3, <1>10, <1>11, <1>12 DEF Patience
<1> QED
  BY <1>13 DEF new

(* Any subsequences take another value. *)
LEMMA PutTypes ==
    ASSUME NEW tails, tails \in Seq(Seq(Nat)), NEW seq, NEW k \in Nat
    PROVE  Put(seq, tails, k) \in Seq(Seq(Nat))
<1> DEFINE D == {j \in DOMAIN tails : ~ Before(seq[k], seq[Last(tails[j])])}
<1>0. Len(tails) \in Nat /\ DOMAIN tails = 1 .. Len(tails)
  OBVIOUS
<1>1. IsFiniteSet(1 .. Len(tails)) /\ Cardinality(1 .. Len(tails)) = Len(tails)
  <2>1. 1 \in Int /\ Len(tails) \in Int
    BY <1>0
  <2>2. Cardinality(1 .. Len(tails)) = IF 1 > Len(tails) THEN 0 ELSE Len(tails) - 1 + 1
    BY <2>1, FS_Interval
  <2> QED
    <3>1. IsFiniteSet(1 .. Len(tails))
      BY <2>1, FS_Interval
    <3> QED
      BY <1>0, <2>2, <3>1
<1>2. D \in SUBSET (1 .. Len(tails))
  OBVIOUS
<1>3. Cardinality(D) \in 0 .. Len(tails)
  <2> HIDE DEF D
  <2> QED
    <3>1. IsFiniteSet(D) /\ Cardinality(D) <= Cardinality(1 .. Len(tails))
      BY <1>1, <1>2, FS_Subset
    <3>2. Cardinality(D) \in Nat
      BY <3>1, FS_CardinalityType
    <3> QED
      BY <1>0, <1>1, <3>1, <3>2
<1>4. bisect_right(seq, tails, k) \in 1 .. Len(tails) + 1
  <2>1. bisect_right(seq, tails, k) = Cardinality(D) + 1
    BY DEF bisect_right
  <2> HIDE DEF D
  <2> QED
    BY <1>3, <2>1
<1> QED
  BY <1>4, PutIs

(* One value after the other. *)
LEMMA TailsAre ==
    ASSUME NEW n \in Nat, NEW seq, seq \in [1 .. n -> Verse], seq \in Seq(Verse), Len(seq) = n
    PROVE  Patience(Tails(seq), seq, n)
<1> DEFINE S == Seq(Seq(Nat))
           a == <<>>
           step == [k \in 1 .. n |-> [T \in S |-> Put(seq, T, k)]]
           tails == CHOOSE f : f = [k \in 0 .. n |->
                        IF k = 0 THEN <<>> ELSE Put(seq, f[k - 1], k)]
<1>1. \A T \in S, k \in 1 .. n : Put(seq, T, k) \in S
  BY PutTypes
<1>2. step \in Steps(n, S) /\ a \in S
  <2>1. a \in S
    OBVIOUS
  <2> HIDE DEF S, a
  <2>2. \A k \in 1 .. n : [T \in S |-> Put(seq, T, k)] \in [S -> S]
    BY <1>1
  <2> QED
    BY <2>1, <2>2 DEF Steps
<1>3. \A T \in S, k \in 1 .. n : step[k][T] = Put(seq, T, k)
  OBVIOUS
<1>4. PICK f : f \in Recursions(n, S, a, step)
  <2> HIDE DEF S, a, step
  <2> QED
    BY <1>2, RecursionDefines
<1>5. f \in [0 .. n -> S] /\ f[0] = a /\ \A k \in 1 .. n : f[k] = Put(seq, f[k - 1], k)
  <2>1. f \in [0 .. n -> S] /\ f[0] = a /\ \A k \in 1 .. n : f[k] = step[k][f[k - 1]]
    BY <1>4 DEF Recursions
  <2>2. \A k \in 1 .. n : k - 1 \in 0 .. n
    OBVIOUS
  <2> HIDE DEF step, S
  <2> QED
    BY <1>3, <2>1, <2>2
<1>6. f = [k \in 0 .. n |-> IF k = 0 THEN <<>> ELSE Put(seq, f[k - 1], k)]
  <2> HIDE DEF S
  <2> QED
    BY <1>5
<1>7. tails = [k \in 0 .. n |-> IF k = 0 THEN <<>> ELSE Put(seq, tails[k - 1], k)]
  BY <1>6
<1>8. Tails(seq) = tails[n]
  BY DEF Tails
<1> HIDE DEF tails
<1>9. tails[0] = <<>> /\ \A k \in 1 .. n : tails[k] = Put(seq, tails[k - 1], k)
  <2>1. 0 \in 0 .. n /\ \A k \in 1 .. n : k \in 0 .. n /\ k # 0
    OBVIOUS
  <2>2. \A k \in 0 .. n : tails[k] = IF k = 0 THEN <<>> ELSE Put(seq, tails[k - 1], k)
    BY <1>7
  <2> QED
    BY <2>1, <2>2
<1> DEFINE good == {k \in 0 .. n : Patience(tails[k], seq, k)}
<1>10. 0 \in good
  <2>1. <<>> \in Seq(Seq(Nat)) /\ Len(<<>>) = 0 /\ 1 .. 0 = {}
    OBVIOUS
  <2>2. Patience(<<>>, seq, 0)
    BY <2>1 DEF Patience
  <2> QED
    BY <1>9, <2>2
<1>11. ASSUME NEW k \in 1 .. n, k - 1 \in good PROVE k \in good
  <2>1. Patience(Put(seq, tails[k - 1], k), seq, k)
    BY <1>11, PutKeeps
  <2> QED
    BY <1>9, <2>1
<1>12. n \in good
  <2> HIDE DEF good
  <2>1. 0 .. n \subseteq good
    BY <1>10, <1>11, StaysUpTo
  <2> QED
    BY <2>1
<1> QED
  BY <1>8, <1>12

(* What _lis_keep keeps is in order, and nothing longer is. *)
LEMMA KeepIsLongest ==
    ASSUME NEW n \in Nat, NEW seq, seq \in [1 .. n -> Verse], seq \in Seq(Verse), Len(seq) = n
    PROVE  /\ _lis_keep(seq) \subseteq 1 .. n /\ Rising(_lis_keep(seq), seq)
           /\ \A I \in SUBSET (1 .. n) :
                Rising(I, seq) => Cardinality(I) <= Cardinality(_lis_keep(seq))
<1> DEFINE T == Tails(seq)
           c == Last(T)
           m == Len(T)
           keep == _lis_keep(seq)
<1>1. /\ T \in Seq(Seq(Nat)) /\ \A l \in 1 .. m : ChainOf(T[l], seq, n, l)
      /\ \A I \in SUBSET (1 .. n) : I # {} /\ Rising(I, seq) => Cardinality(I) \in 1 .. m
  BY TailsAre DEF Patience
<1>2. keep = IF T = <<>> THEN {} ELSE ToSet(c)
  BY DEF _lis_keep
<1>3. T # <<>> => m \in 1 .. m /\ c = T[m]
  <2> HIDE DEF T
  <2> QED
    BY <1>1 DEF Last
<1>4. m \in Nat /\ (T = <<>> <=> m = 0)
  <2> HIDE DEF T
  <2> QED BY <1>1
<1> HIDE DEF T, m, c, keep
<1>0. IsFiniteSet(1 .. n)
  <2>1. 1 \in Int /\ n \in Int
    OBVIOUS
  <2> QED
    BY <2>1, FS_Interval
<1>5. CASE T = <<>>
  <2>1. keep = {} /\ Cardinality(keep) = 0
    BY <1>2, <1>5, FS_EmptySet
  <2>2. \A I \in SUBSET (1 .. n) : Rising(I, seq) => I = {}
    BY <1>1, <1>4, <1>5
  <2>3. \A I \in SUBSET (1 .. n) : Rising(I, seq) => Cardinality(I) <= Cardinality(keep)
    <3> TAKE I \in SUBSET (1 .. n)
    <3> HAVE Rising(I, seq)
    <3>1. I = {}
      BY <2>2
    <3>2. Cardinality(I) = 0
      BY <3>1, FS_EmptySet
    <3> QED
      BY <2>1, <3>2
  <2>4. keep \subseteq 1 .. n /\ Rising(keep, seq)
    BY <2>1 DEF Rising
  <2> QED
    BY <2>3, <2>4 DEF keep
<1>6. CASE T # <<>>
  <2>1. ChainOf(c, seq, n, m)
    BY <1>1, <1>3, <1>6
  <2>2. /\ c \in Seq(Nat) /\ Len(c) = m /\ \A i \in 1 .. m : c[i] \in 1 .. n
        /\ \A i, j \in 1 .. m : i < j => c[i] < c[j] /\ NotAfter(seq[c[i]], seq[c[j]])
    BY <2>1 DEF ChainOf
  <2>3. keep = {c[i] : i \in 1 .. m}
    BY SMTT(40), <1>2, <1>6, <2>2 DEF ToSet
  <2>4. /\ \A t \in keep : \E i \in 1 .. m : t = c[i]
        /\ \A i \in 1 .. m : c[i] \in keep
    BY <2>3
  <2>5. keep \subseteq 1 .. n
    BY <2>2, <2>4
  <2>6. ASSUME NEW x \in keep, NEW y \in keep, x < y PROVE NotAfter(seq[x], seq[y])
    <3>1. PICK i \in 1 .. m : x = c[i]
      BY <2>4
    <3>2. PICK j \in 1 .. m : y = c[j]
      BY <2>4
    <3>3. i < j
      <4>1. ~ (j < i) /\ i # j
        BY <2>2, <2>6, <3>1, <3>2
      <4> QED
        BY <4>1
    <3> QED
      BY <2>2, <3>1, <3>2, <3>3
  <2>7. Cardinality(keep) >= m
    <3>1. IsFiniteSet(keep)
      BY <1>0, <2>5, FS_Subset
    <3>2. \A i \in 1 .. m : c[i] \in keep
      BY <2>4
    <3>3. \A i, j \in 1 .. m : c[i] = c[j] => i = j
      <4> TAKE i, j \in 1 .. m
      <4>1. i < j => c[i] < c[j]
        BY <2>2
      <4>2. j < i => c[j] < c[i]
        BY <2>2
      <4>3. c[i] \in Nat /\ c[j] \in Nat
        BY <2>2
      <4> QED
        BY <4>1, <4>2, <4>3
    <3>4. Cardinality(1 .. m) <= Cardinality(keep)
      BY <3>1, <3>2, <3>3, InjectionCounts
    <3>5. Cardinality(1 .. m) = m
      BY <1>4, FS_Interval
    <3>6. Cardinality(keep) \in Nat
      BY <3>1, FS_CardinalityType
    <3> QED
      BY <1>4, <3>4, <3>5, <3>6
  <2>8. ASSUME NEW I \in SUBSET (1 .. n), Rising(I, seq)
        PROVE  Cardinality(I) <= Cardinality(keep)
    <3>1. Cardinality(keep) \in Nat
      BY <1>0, <2>5, FS_Subset, FS_CardinalityType
    <3>2. CASE I = {}
      <4>1. Cardinality(I) = 0
        BY <3>2, FS_EmptySet
      <4> QED
        BY <3>1, <4>1
    <3>3. CASE I # {}
      <4>1. Cardinality(I) \in 1 .. m
        BY <1>1, <2>8, <3>3
      <4> QED
        BY <1>4, <2>7, <3>1, <4>1
    <3> QED
      BY <3>2, <3>3
  <2> QED
    BY <2>5, <2>6, <2>8 DEF keep, Rising
<1> QED
  BY <1>5, <1>6

-----------------------------------------------------------------------------
(* --- Inversions (classify) --- *)

(* The present verses of a relation are of the listed ones. *)
Present(rs) == \A r \in rs : r.Ap \subseteq r.A /\ r.Bp \subseteq r.B

(* The relations of a book that have verses on both sides, and their key. *)
BookOf(rs, k) == {r \in Paired(rs) : FirstA(r)[1] = k}
KeyA(S) == [r \in S |-> FirstA(r)]

(* A relation present on both sides has a first verse on each. *)
LEMMA PresentHave ==
    ASSUME NEW rs, Bedded(rs), Present(rs), NEW r \in Paired(rs)
    PROVE  /\ r \in rs /\ FirstA(r) \in r.Ap /\ FirstOf(r.Bp) \in r.Bp
           /\ r.Ap \subseteq Verse /\ r.Bp \subseteq Verse /\ r.A # {} /\ r.B # {}
           /\ FirstA(r) \in Verse /\ FirstOf(r.Bp) \in Verse
           /\ IsFiniteSet(r.Ap) /\ IsFiniteSet(r.Bp)
<1>1. r \in rs /\ r.Ap # {} /\ r.Bp # {}
  BY DEF Paired
<1>2. r.Ap \subseteq r.A /\ r.Bp \subseteq r.B
  BY <1>1 DEF Present
<1>3. r.A \subseteq Verse /\ r.B \subseteq Verse /\ IsFiniteSet(r.A) /\ IsFiniteSet(r.B)
  BY <1>1 DEF Bedded
<1>4. r.Ap \subseteq Verse /\ r.Bp \subseteq Verse /\ IsFiniteSet(r.Ap) /\ IsFiniteSet(r.Bp)
  BY <1>2, <1>3, FS_Subset
<1>5. FirstOf(r.Ap) \in r.Ap /\ FirstOf(r.Bp) \in r.Bp
  BY <1>1, <1>4, FirstIsOne
<1> QED
  BY <1>1, <1>2, <1>4, <1>5 DEF FirstA

(* Paired relations sorted by their first verse of A. *)
LEMMA ByFirstALists ==
    ASSUME NEW rs, Bedded(rs), Present(rs), NEW S, S \subseteq Paired(rs)
    PROVE  /\ Lists(ByFirstA(S), S, Sooner(S, KeyA(S)), Cardinality(S))
           /\ Bedded(S) /\ Keyed(S, KeyA(S))
<1>1. Bedded(S)
  <2>1. S \subseteq rs
    BY DEF Paired
  <2> QED
    BY <2>1, SomeAreBedded
<1>2. Keyed(S, KeyA(S))
  <2> SUFFICES ASSUME NEW r \in S
               PROVE (r.A # {} => KeyA(S)[r] \in r.A) /\ (r.A = {} => KeyA(S)[r] \in r.B)
    BY DEF Keyed
  <2>1. r \in Paired(rs)
    OBVIOUS
  <2>2. FirstA(r) \in r.A /\ r.A # {}
    BY <2>1, PresentHave DEF Present
  <2>3. KeyA(S)[r] = FirstA(r)
    BY DEF KeyA
  <2> QED
    BY <2>2, <2>3
<1>3. ByFirstA(S) = Ordered(S, KeyA(S))
  BY DEF ByFirstA, KeyA
<1> QED
  BY <1>1, <1>2, <1>3, OrderedLists

(* Those before another one are before it in A, or have verses of B in an    *)
(* earlier book.                                                             *)
LEMMA SoonerByA ==
    ASSUME NEW rs, Bedded(rs), Present(rs), NEW S, S \subseteq Paired(rs),
           NEW x \in S, NEW y \in S, x # y, <<x, y>> \in Sooner(S, KeyA(S))
    PROVE  \/ Before(FirstA(x), FirstA(y))
           \/ FirstA(x) = FirstA(y) /\ Before(FirstOf(x.Bp), FirstOf(y.Bp))
<1>1. Bedded(S) /\ Keyed(S, KeyA(S)) /\ KeyA(S)[x] = FirstA(x) /\ KeyA(S)[y] = FirstA(y)
  BY ByFirstALists DEF KeyA
<1>2. /\ FirstOf(x.Bp) \in x.B /\ FirstOf(y.Bp) \in y.B /\ x.A # {} /\ y.A # {}
      /\ x.B \subseteq Verse /\ y.B \subseteq Verse
  <2>1. x \in rs /\ y \in rs /\ x \in Paired(rs) /\ y \in Paired(rs)
    BY DEF Paired
  <2>2. /\ FirstOf(x.Bp) \in x.Bp /\ FirstOf(y.Bp) \in y.Bp /\ x.A # {} /\ y.A # {}
    BY <2>1, PresentHave
  <2>3. x.Bp \subseteq x.B /\ y.Bp \subseteq y.B
    BY <2>1 DEF Present
  <2>4. x.B \subseteq Verse /\ y.B \subseteq Verse
    BY <2>1 DEF Bedded
  <2> QED
    BY <2>2, <2>3, <2>4
<1>3. \/ Before(FirstA(x), FirstA(y))
      \/ FirstA(x) = FirstA(y) /\ Before(FirstOf(x.B), FirstOf(y.B))
  BY <1>1, <1>2, OneBefore
<1>4. CASE FirstA(x) = FirstA(y) /\ Before(FirstOf(x.B), FirstOf(y.B))
  <2>1. Apart(x.B, y.B)
    BY <1>1, <1>2, <1>4, TiesDiffer
  <2>2. FirstOf(x.B) \in x.B /\ FirstOf(y.B) \in y.B
    BY <1>2, FirstIsOne
  <2>3. /\ FirstOf(x.B)[1] = FirstOf(x.Bp)[1] /\ FirstOf(y.B)[1] = FirstOf(y.Bp)[1]
        /\ FirstOf(x.B)[1] # FirstOf(y.B)[1]
    BY <1>2, <2>1, <2>2 DEF Apart, OneBook
  <2>4. Before(FirstOf(x.Bp), FirstOf(y.Bp))
    BY <1>4, <2>3 DEF Before
  <2> QED
    BY <1>4, <2>4
<1> QED
  BY <1>3, <1>4

-----------------------------------------------------------------------------
(* Relations off the backbone, and what classify makes of one. *)
Off(first) ==
    UNION {Inverted(OfBook(first, k)) : k \in {FirstA(r)[1] : r \in Paired(first)}}
Retype(r) == [r EXCEPT !.type = "ORDER_INVERSION", !.etype = "ORDER_INVERSION"]
Like(q, r) ==
    /\ Full(q) /\ q.A = r.A /\ q.O = r.O /\ q.B = r.B /\ q.Ap = r.Ap /\ q.Bp = r.Bp
    /\ q.rel = r.rel /\ q.flags = r.flags /\ q.warn = r.warn

(* An inversion is the relation with another type. *)
LEMMA RetypeHas ==
    ASSUME NEW r, Full(r)
    PROVE  Like(Retype(r), r) /\ Retype(r).type = "ORDER_INVERSION"
           /\ Retype(r).etype = "ORDER_INVERSION"
<1> DEFINE q == [x \in FULL |-> IF x \in {"type", "etype"} THEN "ORDER_INVERSION" ELSE r[x]]
<1>1. r = [x \in FULL |-> r[x]]
  BY DEF Full, Record
<1>2. Retype(r) = q
  <2> DEFINE f == [x \in FULL |-> r[x]]
  <2>1. [f EXCEPT !["type"] = "ORDER_INVERSION", !["etype"] = "ORDER_INVERSION"] = q
    BY DEF FULL, RAW
  <2>2. f = r
    BY <1>1
  <2> HIDE DEF f, q
  <2>3. [r EXCEPT !["type"] = "ORDER_INVERSION", !["etype"] = "ORDER_INVERSION"] = q
    BY <2>1, <2>2
  <2> QED
    BY <2>3 DEF Retype
<1>3. /\ q.A = r.A /\ q.O = r.O /\ q.B = r.B /\ q.Ap = r.Ap /\ q.Bp = r.Bp
      /\ q.rel = r.rel /\ q.flags = r.flags /\ q.warn = r.warn
      /\ q.type = "ORDER_INVERSION" /\ q.etype = "ORDER_INVERSION"
  BY DEF FULL, RAW
<1>4. Full(q)
  BY DEF Full, Record
<1> HIDE DEF q
<1> QED
  BY <1>2, <1>3, <1>4 DEF Like

(* What classify makes of every relation. *)
Marks(m, first) ==
    /\ m \in [first -> classify(first)]
    /\ \A q \in classify(first) : \E r \in first : q = m[r]
    /\ \A r, s \in first : m[r] = m[s] => r = s
    /\ \A r \in first :
        /\ Like(m[r], r)
        /\ r \notin Off(first) => m[r] = r
        /\ r \in Off(first) => m[r].type = "ORDER_INVERSION" /\ m[r].etype = "ORDER_INVERSION"

(* Classify marks the relations off their book's backbone and leaves the      *)
(* others.                                                                    *)
LEMMA ClassifyMarks ==
    ASSUME NEW first, Bedded(first), \A r \in first : Full(r), Off(first) \subseteq first
    PROVE  \E m : Marks(m, first)
<1> DEFINE R == classify(first)
           off == Off(first)
           m == [r \in first |-> IF r \in off THEN Retype(r) ELSE r]
<1>1. R = (first \ off) \cup {Retype(r) : r \in off}
  BY DEF classify, Off, Retype
<1>2. \A r \in off : /\ Like(Retype(r), r) /\ Retype(r).type = "ORDER_INVERSION"
                     /\ Retype(r).etype = "ORDER_INVERSION" /\ r \in first
  BY RetypeHas
<1>3. \A r \in first : Like(r, r)
  BY DEF Like
<1> HIDE DEF off, R
<1>4. m \in [first -> R]
  BY <1>1
<1>5. \A q \in R : \E r \in first : q = m[r]
  BY <1>1, <1>2
<1>6. \A r \in first : Like(m[r], r)
  BY <1>2, <1>3
<1>7. \A r \in first : /\ r \notin off => m[r] = r
                       /\ r \in off => m[r].type = "ORDER_INVERSION"
                                       /\ m[r].etype = "ORDER_INVERSION"
  BY <1>2
<1> HIDE DEF m
<1>8. ASSUME NEW r \in first, NEW s \in first, m[r] = m[s] PROVE r = s
  <2>1. r.A = s.A /\ r.B = s.B
    BY <1>6, <1>8 DEF Like
  <2>2. r # s => Beside(r, s)
    BY DEF Bedded, Laid
  <2>3. r.A # {} \/ r.B # {}
    BY DEF Bedded
  <2> QED
    BY <2>1, <2>2, <2>3, BesideDiffers
<1>9. Marks(m, first)
  BY <1>4, <1>5, <1>6, <1>7, <1>8 DEF Marks, R, off
<1> QED
  BY <1>9

(* The relations off the backbone are paired ones. *)
LEMMA OffArePaired ==
    ASSUME NEW first, Bedded(first), Present(first)
    PROVE  Off(first) \subseteq Paired(first)
<1> SUFFICES ASSUME NEW k PROVE Inverted(OfBook(first, k)) \subseteq Paired(first)
  BY DEF Off
<1> DEFINE S == BookOf(first, k)
           seq == OfBook(first, k)
<1>1. S \subseteq Paired(first)
  BY DEF BookOf
<1>2. seq = ByFirstA(S)
  BY DEF OfBook, BookOf
<1> HIDE DEF S, seq
<1>3. Lists(seq, S, Sooner(S, KeyA(S)), Cardinality(S))
  BY <1>1, <1>2, ByFirstALists
<1>4. DOMAIN seq = 1 .. Cardinality(S) /\ \A i \in DOMAIN seq : seq[i] \in S
  BY <1>3 DEF Lists
<1>5. Inverted(seq) \subseteq S
  BY <1>4 DEF Inverted
<1> QED
  BY <1>1, <1>5 DEF seq

(* The type of a relation, by the presence of its verses. *)
TypeIs(q) ==
    /\ q.Ap = {} /\ q.Bp = {} => q.type = Same
    /\ q.Ap # {} /\ q.Bp # {} => q.type \in PASSTYPES \cup {Same, "ORDER_INVERSION"}
    /\ (q.Ap = {}) # (q.Bp = {}) => q.type \in {"EXCLUDED", "ONE_SIDED"}
    /\ q.type = "ONE_SIDED" => \/ q.A = {} /\ q.Bp # {}
                               \/ q.B = {} /\ q.Ap # {}

(* The relations of two schemes. *)
Related(R, a, b) ==
    /\ Bedded(R) /\ Present(R)
    /\ \A q \in R : PassHas(q, a, b) /\ TypeIs(q)

(* Relations of the same verses lie beside each other as the first ones do. *)
LEMMA LikeIsBedded ==
    ASSUME NEW first, NEW R, NEW m, Bedded(first), Present(first),
           \A q \in R : \E r \in first : q = m[r],
           \A r \in first : Like(m[r], r)
    PROVE  Bedded(R) /\ Present(R)
<1>1. \A q \in R : \E r \in first : q = m[r] /\ Like(q, r)
  OBVIOUS
<1>2. IsFiniteSet(R)
  BY ImageIsFinite DEF Bedded
<1>3. ASSUME NEW q \in R, NEW t \in R, q # t PROVE Beside(q, t)
  <2>1. PICK r \in first : q = m[r] /\ Like(q, r)
    BY <1>1
  <2>2. PICK s \in first : t = m[s] /\ Like(t, s)
    BY <1>1
  <2>3. Beside(r, s)
    BY <1>3, <2>1, <2>2 DEF Bedded, Laid
  <2> QED
    BY <2>1, <2>2, <2>3 DEF Beside, Like
<1>4. \A q \in R : /\ q.A \subseteq Verse /\ q.B \subseteq Verse
                   /\ IsFiniteSet(q.A) /\ IsFiniteSet(q.B) /\ (q.A # {} \/ q.B # {})
  <2> TAKE q \in R
  <2>1. PICK r \in first : q = m[r] /\ Like(q, r)
    BY <1>1
  <2>2. /\ r.A \subseteq Verse /\ r.B \subseteq Verse
        /\ IsFiniteSet(r.A) /\ IsFiniteSet(r.B) /\ (r.A # {} \/ r.B # {})
    BY DEF Bedded
  <2>3. q.A = r.A /\ q.B = r.B
    BY <2>1 DEF Like
  <2> QED
    BY <2>2, <2>3
<1>5. Present(R)
  BY <1>1 DEF Present, Like
<1> QED
  BY <1>2, <1>3, <1>4, <1>5 DEF Bedded, Laid

(* The present verses are some of those listed. *)
LEMMA PassIsPresent ==
    ASSUME NEW rs, NEW a, NEW b, \A q \in rs : PassHas(q, a, b)
    PROVE  Present(rs)
BY DEF Present, PassHas

(* What compose_schemes makes of the relations of the first pass. *)
LEMMA ComposedIs ==
    ASSUME NEW a, SchemeOK(a), NEW b, SchemeOK(b), NEW o
    PROVE  /\ Related(compose_schemes(a, b, o), a, b)
           /\ \E m : Marks(m, FirstPass(a, b, o))
<1> DEFINE F == FirstPass(a, b, o)
           R == classify(F)
<1>1. Bedded(F) /\ \A q \in F : PassHas(q, a, b) /\ TypeFits(q)
  BY FirstPassIs
<1>2. compose_schemes(a, b, o) = R
  BY DEF compose_schemes
<1> HIDE DEF F
<1>3. Present(F)
  BY <1>1, PassIsPresent
<1>4. Off(F) \subseteq Paired(F) /\ Paired(F) \subseteq F
  BY <1>1, <1>3, OffArePaired DEF Paired
<1>5. \E m : Marks(m, F)
  <2>1. \A r \in F : Full(r)
    BY <1>1 DEF PassHas
  <2> QED
    BY <1>1, <1>4, <2>1, ClassifyMarks
<1>6. PICK m : Marks(m, F)
  BY <1>5
<1> HIDE DEF R
<1>7. /\ \A q \in R : \E r \in F : q = m[r]
      /\ \A r \in F : /\ Like(m[r], r)
                      /\ r \notin Off(F) => m[r] = r
                      /\ r \in Off(F) => m[r].type = "ORDER_INVERSION"
                                         /\ m[r].etype = "ORDER_INVERSION"
  BY <1>6 DEF Marks, R
<1>8. Bedded(R) /\ Present(R)
  BY <1>1, <1>3, <1>7, LikeIsBedded
<1>9. ASSUME NEW q \in R PROVE PassHas(q, a, b) /\ TypeIs(q)
  <2>1. PICK r \in F : q = m[r]
    BY <1>7
  <2>2. PassHas(r, a, b) /\ TypeFits(r) /\ Like(q, r)
    BY <1>1, <1>7, <2>1
  <2>3. CASE r \notin Off(F)
    <3>1. q = r
      BY <1>7, <2>1, <2>3
    <3>2. TypeIs(r)
      BY <2>2 DEF TypeIs, TypeFits
    <3> QED
      BY <2>2, <3>1, <3>2
  <2>4. CASE r \in Off(F)
    <3>1. q.type = "ORDER_INVERSION" /\ q.etype = "ORDER_INVERSION"
      BY <1>7, <2>1, <2>4
    <3>2. q.Ap # {} /\ q.Bp # {}
      BY <1>4, <2>2, <2>4 DEF Paired, Like
    <3>3. PassHas(q, a, b)
      BY <2>2, <3>1 DEF PassHas, Like
    <3>4. TypeIs(q)
      BY <3>1, <3>2 DEF TypeIs
    <3> QED
      BY <3>3, <3>4
  <2> QED
    BY <2>3, <2>4
<1>10. Related(R, a, b)
  BY <1>8, <1>9 DEF Related
<1> QED
  BY <1>2, <1>5, <1>10 DEF F

(* Every verse is in a relation, or replaced. *)
LEMMA ComposedLosesNone ==
    ASSUME NEW a, SchemeOK(a), NEW b, SchemeOK(b), NEW o,
           NEW R, R = compose_schemes(a, b, o)
    PROVE  /\ \A x \in verses(a) : (\E s \in R : x \in s.A) \/ Replaced(R, a, b, o, x, "A")
           /\ \A x \in verses(b) : (\E s \in R : x \in s.B) \/ Replaced(R, b, a, o, x, "B")
<1> DEFINE F == FirstPass(a, b, o)
<1>1. /\ \A x \in verses(a) : (\E s \in F : x \in s.A) \/ Replaced(F, a, b, o, x, "A")
      /\ \A x \in verses(b) : (\E s \in F : x \in s.B) \/ Replaced(F, b, a, o, x, "B")
  BY FirstPassIs
<1>2. R = classify(F)
  BY DEF compose_schemes
<1>3. PICK m : Marks(m, F)
  BY ComposedIs
<1> HIDE DEF F
<1>4. \A s \in F : \E q \in R : q.A = s.A /\ q.B = s.B /\ q.O = s.O
  <2> TAKE s \in F
  <2>1. m[s] \in R /\ Like(m[s], s)
    BY <1>2, <1>3 DEF Marks
  <2> QED
    BY <2>1 DEF Like
<1>5. ASSUME NEW x \in verses(a)
      PROVE  (\E s \in R : x \in s.A) \/ Replaced(R, a, b, o, x, "A")
  <2>1. CASE \E s \in F : x \in s.A
    BY <1>4, <2>1
  <2>2. CASE Replaced(F, a, b, o, x, "A")
    <3>1. PICK s \in F :
            /\ {} \notin {s.A, s.B} /\ s.O \cap OrgOf(a, o, x) # {}
            /\ \A y \in verses(b) : OrgOf(b, o, y) \cap s.O # {} =>
                    y[1] # x[1] /\ \E t \in F : y \in t.B
      BY <2>2 DEF Replaced
    <3>2. PICK q \in R : q.A = s.A /\ q.B = s.B /\ q.O = s.O
      BY <1>4
    <3>3. \A y \in verses(b) : OrgOf(b, o, y) \cap q.O # {} =>
                    y[1] # x[1] /\ \E t \in R : y \in t.B
      BY <1>4, <3>1, <3>2
    <3>4. {} \notin {q.A, q.B} /\ q.O \cap OrgOf(a, o, x) # {}
      BY <3>1, <3>2
    <3> QED
      BY <3>3, <3>4 DEF Replaced
  <2> QED
    BY <1>1, <2>1, <2>2
<1>6. ASSUME NEW x \in verses(b)
      PROVE  (\E s \in R : x \in s.B) \/ Replaced(R, b, a, o, x, "B")
  <2>1. CASE \E s \in F : x \in s.B
    BY <1>4, <2>1
  <2>2. CASE Replaced(F, b, a, o, x, "B")
    <3>1. PICK s \in F :
            /\ {} \notin {s.A, s.B} /\ s.O \cap OrgOf(b, o, x) # {}
            /\ \A y \in verses(a) : OrgOf(a, o, y) \cap s.O # {} =>
                    y[1] # x[1] /\ \E t \in F : y \in t.A
      BY <2>2 DEF Replaced
    <3>2. PICK q \in R : q.A = s.A /\ q.B = s.B /\ q.O = s.O
      BY <1>4
    <3>3. \A y \in verses(a) : OrgOf(a, o, y) \cap q.O # {} =>
                    y[1] # x[1] /\ \E t \in R : y \in t.A
      BY <1>4, <3>1, <3>2
    <3>4. {} \notin {q.A, q.B} /\ q.O \cap OrgOf(b, o, x) # {}
      BY <3>1, <3>2
    <3> QED
      BY <3>3, <3>4 DEF Replaced
  <2> QED
    BY <1>1, <2>1, <2>2
<1> QED
  BY <1>5, <1>6

(* The org verses of a verse are finitely many verses. *)
LEMMA OrgsAreVerses ==
    ASSUME NEW scheme, SchemeOK(scheme), NEW o, SchemeOK(o), NEW x \in Verse
    PROVE  IsFiniteSet(OrgOf(scheme, o, x)) /\ OrgOf(scheme, o, x) \subseteq Verse
<1> DEFINE T == to_org(scheme, x)
           f == [y \in T |-> canon(o, y)]
<1>1. ASSUME NEW s, SchemeOK(s), NEW y
      PROVE  IsFiniteSet(Mapped(s, y)) /\ Mapped(s, y) \subseteq Verse
  <2> DEFINE E == {e \in s.edges : e[1] = y}
             g == [e \in E |-> e[2]]
  <2>1. IsFiniteSet(s.edges) /\ s.edges \subseteq Verse \X Verse
    BY <1>1 DEF SchemeOK, EdgesOK
  <2>2. IsFiniteSet(E)
    BY <2>1, FS_Subset
  <2>3. Mapped(s, y) = {e[2] : e \in E}
    BY DEF Mapped
  <2>4. \A e \in E : e[2] \in Verse
    BY <2>1
  <2>5. Mapped(s, y) \subseteq Verse /\ \A t \in Mapped(s, y) : \E e \in E : t = g[e]
    BY <2>3, <2>4
  <2> HIDE DEF g, E
  <2> QED
    BY <2>2, <2>5, ImageIsFinite
<1>2. IsFiniteSet(T) /\ T \subseteq Verse
  <2>1. T = IF IsDefault(scheme, x) THEN {x} ELSE Mapped(scheme, x)
    BY DEF to_org
  <2> HIDE DEF T
  <2>2. IsFiniteSet({x}) /\ {x} \subseteq Verse
    BY FS_Singleton
  <2> QED
    BY <1>1, <2>1, <2>2
<1>3. \A y \in T : canon(o, y) \in Verse
  <2> TAKE y \in T
  <2>1. y \in Verse /\ Mapped(o, y) \subseteq Verse
    BY <1>1, <1>2
  <2>2. CASE \E z \in Mapped(o, y) : Mapped(o, y) = {z}
    <3>1. canon(o, y) = CHOOSE z \in Mapped(o, y) : TRUE
      BY <2>2 DEF canon
    <3>2. (CHOOSE z \in Mapped(o, y) : TRUE) \in Mapped(o, y)
      BY <2>2
    <3> QED
      BY <2>1, <3>1, <3>2
  <2>3. CASE ~ \E z \in Mapped(o, y) : Mapped(o, y) = {z}
    BY <2>1, <2>3 DEF canon
  <2> QED
    BY <2>2, <2>3
<1>4. OrgOf(scheme, o, x) = {canon(o, y) : y \in T}
  BY DEF OrgOf
<1> HIDE DEF T
<1>5. \A t \in OrgOf(scheme, o, x) : t \in Verse /\ \E y \in T : t = f[y]
  BY <1>3, <1>4
<1> HIDE DEF f
<1> QED
  BY <1>2, <1>5, ImageIsFinite

(* The org verses of a scheme are finitely many triples of natural numbers. *)
LEMMA OrgsAreFinite ==
    ASSUME NEW scheme, SchemeOK(scheme), NEW o, SchemeOK(o)
    PROVE  \E S : /\ IsFiniteSet(S) /\ S \subseteq Verse
                  /\ \A x \in verses(scheme) : OrgOf(scheme, o, x) \subseteq S
<1> DEFINE V == verses(scheme)
           f == [x \in V |-> OrgOf(scheme, o, x)]
           U == {f[x] : x \in V}
<1>1. IsFiniteSet(V) /\ V \subseteq Verse
  BY VersesAreFinite DEF SchemeOK
<1> HIDE DEF V
<1>2. \A x \in V : IsFiniteSet(f[x]) /\ f[x] \subseteq Verse /\ f[x] = OrgOf(scheme, o, x)
  BY <1>1, OrgsAreVerses
<1> HIDE DEF f
<1>3. IsFiniteSet(U)
  <2>1. \A t \in U : \E x \in V : t = f[x]
    OBVIOUS
  <2> HIDE DEF U
  <2> QED
    BY <1>1, <2>1, ImageIsFinite
<1>4. \A s \in U : IsFiniteSet(s) /\ s \subseteq Verse
  BY <1>2
<1>5. \A x \in V : OrgOf(scheme, o, x) \in U
  BY <1>2
<1> HIDE DEF U
<1>6. IsFiniteSet(UNION U) /\ UNION U \subseteq Verse
  BY <1>3, <1>4, FS_UNION
<1>7. \A x \in V : OrgOf(scheme, o, x) \subseteq UNION U
  BY <1>5
<1> QED
  BY <1>6, <1>7 DEF V

(* The org verses of the relations of two schemes are finitely many verses. *)
Rooted(R) == \A r \in R : IsFiniteSet(r.O) /\ r.O \subseteq Verse

(* The org verses of a relation are finitely many triples of natural          *)
(* numbers.                                                                   *)
LEMMA RelationsAreRooted ==
    ASSUME NEW a, SchemeOK(a), NEW b, SchemeOK(b), NEW o, SchemeOK(o)
    PROVE  Rooted(compose_schemes(a, b, o))
<1> DEFINE W == Whole(a, b, o)
           P == Pieces(a, b, o)
           F == FirstPass(a, b, o)
           R == compose_schemes(a, b, o)
<1>1. PICK S : /\ IsFiniteSet(S) /\ S \subseteq Verse
               /\ \A x \in verses(a) : OrgOf(a, o, x) \subseteq S
  BY OrgsAreFinite
<1>2. PICK T : /\ IsFiniteSet(T) /\ T \subseteq Verse
               /\ \A x \in verses(b) : OrgOf(b, o, x) \subseteq T
  BY OrgsAreFinite
<1>3. ASSUME NEW r \in W PROVE r.O \subseteq S \cup T /\ Raw(r) /\ (r.A # {} \/ r.B # {})
  <2>1. WholeHas(r, a, b, o)
    BY WholesAre
  <2>2. PICK c \in Components(a, b, o) : WholeOf(r, c)
    BY WholesAre
  <2>3. ASSUME NEW y \in r.O PROVE y \in S \cup T
    <3>1. <<"O", y>> \in c
      BY <2>2, <2>3 DEF WholeOf
    <3>2. \/ \E x \in verses(a) : y \in OrgOf(a, o, x) /\ <<"A", x>> \in c
          \/ \E x \in verses(b) : y \in OrgOf(b, o, x) /\ <<"B", x>> \in c
      BY SMTT(40), <3>1, ComponentsMeet
    <3> QED
      BY <1>1, <1>2, <3>2
  <2> QED
    BY <2>1, <2>3 DEF WholeHas
<1>4. \A s \in P : s.O \subseteq S \cup T
  <2> TAKE s \in P
  <2>1. PICK r \in W : s \in split_alternates(r)
    BY DEF Pieces
  <2>2. r.O \subseteq S \cup T /\ Raw(r) /\ (r.A # {} \/ r.B # {})
    BY <1>3
  <2>3. s.O = r.O
    BY <2>1, <2>2, SplitsLaid
  <2> QED
    BY <2>2, <2>3
<1>5. F = {Classified(s, a, b) : s \in P}
  BY DEF FirstPass, Pieces, Whole
<1>6. \A s \in P : PieceHas(s, a, b)
  BY PiecesAre
<1> HIDE DEF W, P
<1>7. \A q \in F : q.O \subseteq S \cup T
  <2> TAKE q \in F
  <2>1. PICK s \in P : q = Classified(s, a, b)
    BY <1>5
  <2>2. q.O = s.O
    BY <1>6, <2>1, Classifies
  <2> QED
    BY <1>4, <2>2
<1>8. PICK m : Marks(m, F)
  BY ComposedIs
<1>9. R = classify(F)
  BY DEF compose_schemes
<1> HIDE DEF F, R
<1>10. \A q \in R : q.O \subseteq S \cup T
  <2> TAKE q \in R
  <2>1. PICK r \in F : q = m[r] /\ Like(m[r], r)
    BY <1>8, <1>9 DEF Marks
  <2>2. q.O = r.O
    BY <2>1 DEF Like
  <2> QED
    BY <1>7, <2>2
<1>11. IsFiniteSet(S \cup T) /\ S \cup T \subseteq Verse
  BY <1>1, <1>2, FS_Union
<1>12. \A q \in R : IsFiniteSet(q.O) /\ q.O \subseteq Verse
  <2> TAKE q \in R
  <2> QED
    BY <1>10, <1>11, FS_Subset
<1> QED
  BY <1>12 DEF Rooted, R
==============================================================================
